------------------------------- MODULE CaseBook -------------------------------
(***************************************************************************)
(* What the case services promise, without requests, tables or objects: a  *)
(* book of reports.  A report is opened with the files its reporter hands  *)
(* in, gathers evidence and staff, and may be discarded while nobody works *)
(* on it, with all its evidence.  Its reporter gets an acknowledgement     *)
(* only when every file handed in is on record, unless the report has      *)
(* been discarded in the meantime.                                         *)
(***************************************************************************)
CONSTANTS Incident, File, Handler, None

VARIABLES
  life,      \* life[i] is "unborn", "live" or "deleted"
  pledged,   \* pledged[i]: the files handed in with report i
  onRecord,  \* onRecord[f]: the report f is evidence of
  staff,     \* who works on what, as pairs <<report, handler>>
  acked      \* reports acknowledged to their reporters

book == <<life, pledged, onRecord, staff, acked>>

Evidence(i) == {f \in File : onRecord[f] = i}

Init ==
  /\ life = [i \in Incident |-> "unborn"]
  /\ pledged = [i \in Incident |-> {}]
  /\ onRecord = [f \in File |-> None]
  /\ staff = {} /\ acked = {}

Open(i, F) ==
  /\ life[i] = "unborn"
  /\ life' = [life EXCEPT ![i] = "live"]
  /\ pledged' = [pledged EXCEPT ![i] = F]
  /\ UNCHANGED <<onRecord, staff, acked>>

\* Files become evidence of a live report together, and of no other.
Add(i, F) ==
  /\ life[i] = "live"
  /\ \A f \in F : onRecord[f] = None
  /\ onRecord' = [f \in File |-> IF f \in F THEN i ELSE onRecord[f]]
  /\ UNCHANGED <<life, pledged, staff, acked>>

Acknowledge(i) ==
  /\ i \notin acked
  /\ \/ life[i] = "live" /\ pledged[i] \subseteq Evidence(i)
     \/ life[i] = "deleted"
  /\ acked' = acked \cup {i}
  /\ UNCHANGED <<life, pledged, onRecord, staff>>

\* Nobody is put on a report twice.
Assign(i, H) ==
  /\ life[i] = "live"
  /\ \A h \in H : <<i, h>> \notin staff
  /\ staff' = staff \cup ({i} \X H)
  /\ UNCHANGED <<life, pledged, onRecord, acked>>

Release(i, h) ==
  /\ life[i] = "live"
  /\ <<i, h>> \in staff
  /\ staff' = staff \ {<<i, h>>}
  /\ UNCHANGED <<life, pledged, onRecord, acked>>

Discard(i) ==
  /\ life[i] = "live"
  /\ \A h \in Handler : <<i, h>> \notin staff
  /\ life' = [life EXCEPT ![i] = "deleted"]
  /\ onRecord' = [f \in File |-> IF onRecord[f] = i THEN None ELSE onRecord[f]]
  /\ UNCHANGED <<pledged, staff, acked>>

Next ==
  \E i \in Incident :
    \/ \E F \in SUBSET File : Open(i, F) \/ Add(i, F)
    \/ \E H \in SUBSET Handler : Assign(i, H)
    \/ \E h \in Handler : Release(i, h)
    \/ Acknowledge(i) \/ Discard(i)

Spec == Init /\ [][Next]_book
=============================================================================

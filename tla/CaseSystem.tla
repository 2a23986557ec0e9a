------------------------------ MODULE CaseSystem ------------------------------
(***************************************************************************)
(* The services that work on incidents, composed: any number of requests   *)
(* run at once over the same tables and the same bucket.                   *)
(***************************************************************************)
EXTENDS Incidents, Attachments, Handlers, Messages, IncidentAuth, FiniteSets

\* One step of the handler that runs request r.
Handle(r) ==
  \/ IncidentsNext(r) \/ AttachmentsNext(r) \/ HandlersNext(r)
  \/ MessagesNext(r)  \/ IncidentAuthNext(r)

Next == (\E r \in Request : Handle(r) \/ Reject(r)) \/ Tick

Spec == Init /\ [][Next]_vars

\* An awaited call settles: a request that has arrived takes its next step or
\* is rejected.  Clients may stop sending, and an upload whose request has
\* failed may never land.
Settles(r) == pc[r] \notin Answered \cup {"idle"} /\ (Handle(r) \/ Reject(r))

FairSpec == Spec /\ \A r \in Request : WF_vars(Settles(r))

-----------------------------------------------------------------------------
(* Evidence.                                                               *)

\* Another upload was given the key of f: Date.now() and the names agree.
Clashes(f) == \E g \in File \ {f} : keyOf[g] = keyOf[f]

\* The key of an attachment row always names an object: rows are inserted
\* after their upload, and no deletion takes away an object of another row.
RowsHaveObjects ==
  \A f \in File : saved[f] # None => /\ keyOf[f] # None
                                     /\ bucket[keyOf[f]] # None

\* Unless two uploads were given the same key, the object a row points to is
\* the file that was sent.
EvidenceIntact ==
  \A f \in File :
    saved[f] # None /\ ~Clashes(f) => bucket[keyOf[f]] = f

\* A request that answered without an error has stored all it was sent, in
\* the incident it names, unless that incident has been deleted since: its
\* files, its message, its audit entry.
AnsweredIsStored ==
  \A r \in Request : pc[r] = "ok" =>
    /\ op[r] \in {"create", "update"} => r \in auditLog
    /\ Live(target[r]) =>
         /\ op[r] \in {"create", "update", "attach"} =>
              \A f \in files[r] : saved[f] = target[r]
         /\ op[r] = "message" => posted[r] = target[r]

\* The rows that refer to an incident refer to one that exists, whatever ran
\* between the check of a handler and its insert.
StoreConsistent ==
  /\ \A f \in File : saved[f] # None => Live(saved[f])
  /\ \A r \in Request : posted[r] # None => Live(posted[r])
  /\ \A i \in Incident, h \in Handler : <<i, h>> \in assigned => Live(i)

\* "delete remote assets" (deleteIncident): once a deletion has answered, no
\* object is left of the attachments it found.
DeletedEvidenceIsErased ==
  \A r \in Request : op[r] = "delete" /\ pc[r] = "ok" =>
    \A f \in files[r] : bucket[keyOf[f]] # f

-----------------------------------------------------------------------------
(* Reporters.                                                              *)

\* The codes a reporter was given find the report while it exists, and find
\* no other: the display code is that of one live incident, whose hash is
\* that of the secret.
CredentialsFindReport ==
  \A r \in Reports : Live(target[r]) =>
    {i \in Incident : Live(i) /\ code[i] = code[target[r]]}
      = {i \in Incident : author[i] = r}

\* A session is for the report whose codes started it, also when that report
\* was deleted and its display code given to another one on the way.
SessionsMatchCredentials ==
  \A r \in Sessions : author[target[r]] = cred[r]

-----------------------------------------------------------------------------
(* Staff.                                                                  *)

\* Requests that put handler h on incident i or took it off, and were told so.
Assignments(i, h) ==
  {r \in Request : /\ op[r] \in {"assign", "assignMany"}
                   /\ pc[r] \in {"notify", "ok"}
                   /\ target[r] = i /\ h \in staff[r]}
Releases(i, h) ==
  {r \in Request : /\ op[r] = "deassign" /\ pc[r] = "ok"
                   /\ target[r] = i /\ h \in staff[r]}

\* A handler who was put on a report, or who is about to be told so by email,
\* finds it: no deletion removes a report with a handler on it, and only a
\* deassignment takes the handler off.
AssignedStay ==
  \A i \in Incident, h \in Handler :
    Assignments(i, h) # {} /\ Releases(i, h) = {} =>
      <<i, h>> \in assigned /\ Live(i)

\* Of the requests that put the same handler on the same report, one by one
\* or in bulk, one succeeds for each time the handler is off.
AssignedOnce ==
  \A i \in Incident, h \in Handler :
    Cardinality(Assignments(i, h)) <= Cardinality(Releases(i, h)) + 1

-----------------------------------------------------------------------------
\* Every request is answered: the loops over files end.
EveryRequestIsAnswered ==
  \A r \in Request : pc[r] # "idle" ~> pc[r] \in Answered

\* The services implement the book of reports.  The files of a report are on
\* record when their rows are; it is acknowledged when createIncident answers.
Book == INSTANCE CaseBook WITH
  onRecord <- saved,
  staff    <- assigned,
  pledged  <- [i \in Incident |-> IF author[i] = None THEN {}
                                                      ELSE files[author[i]]],
  acked    <- {i \in Incident : author[i] # None /\ pc[author[i]] = "ok"}

BookSpec == Book!Spec
=============================================================================

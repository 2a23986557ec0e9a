---------------------------- MODULE CaseInvariant ----------------------------
(***************************************************************************)
(* The inductive invariant of CaseSystem, by the question each part        *)
(* answers.  The properties of CaseSystem follow from it.                  *)
(***************************************************************************)
EXTENDS CaseSystem

\* Which handler a request is in, from the step it is at.
PhaseOK ==
  \A r \in Request :
    /\ pc[r] = "insert" => op[r] = "create"
    /\ pc[r] = "write" => op[r] = "update"
    /\ pc[r] \in {"files", "row"} => op[r] \in {"create", "update"}
    /\ pc[r] \in {"find", "put"} => op[r] = "attach"
    /\ pc[r] \in {"keys", "remove", "erase"} => op[r] = "delete"
    /\ pc[r] \in {"assign", "notify"} => op[r] = "assign"
    /\ pc[r] = "assignMany" => op[r] = "assignMany"
    /\ pc[r] = "deassign" => op[r] = "deassign"
    /\ pc[r] = "message" => op[r] = "message"
    /\ pc[r] = "verify" => op[r] = "login"
    /\ pc[r] = "renew" => op[r] = "refresh"
    /\ pc[r] \in {"issue", "sign"} => op[r] \in {"login", "refresh"}

\* Requests that bring files with them.
Sender(r) == pc[r] # "idle" /\ op[r] \in {"create", "update", "attach"}

\* Upload f was started by attach request r and has not landed.
Uploading(r, f) ==
  op[r] = "attach" /\ pc[r] \in {"put", "failed"} /\ f \in todo[r]

\* Every file is sent by one request at most, and has a key only if sent.
FilesOK ==
  /\ \A r \in Request : /\ todo[r] \subseteq files[r]
                        /\ pc[r] = "idle" => files[r] = {}
  /\ \A r, q \in Request :
       Sender(r) /\ Sender(q) /\ r # q => files[r] \cap files[q] = {}
  /\ \A f \in File : keyOf[f] # None =>
       \E r \in Request : Sender(r) /\ f \in files[r]

\* Which files of a request have been given a key.
KeysOK ==
  \A r \in Request :
    /\ pc[r] \in {"insert", "write", "find"} =>
         \A f \in files[r] : keyOf[f] = None
    /\ pc[r] = "files" => \A f \in todo[r] : keyOf[f] = None
    /\ pc[r] = "row" => \A f, g \in todo[r] :
                          keyOf[f] # None /\ keyOf[g] # None => f = g
    /\ pc[r] = "put" => \A f \in files[r] \ EmptyFiles : keyOf[f] # None
    /\ \A f \in File : Uploading(r, f) => keyOf[f] # None

\* What the bucket holds: an object lies under the key of its file, and a key
\* that was given out holds an object or waits for an upload.
BucketOK ==
  /\ \A k \in Key : bucket[k] # None => keyOf[bucket[k]] = k
  /\ \A f \in File : keyOf[f] # None =>
       \/ bucket[keyOf[f]] # None
       \/ \E r \in Request : Uploading(r, f)

\* Rows are written when the upload is over, and once.
RowsOK ==
  /\ \A f \in File : saved[f] # None => /\ keyOf[f] # None
                                       /\ \A r \in Request : ~Uploading(r, f)
  /\ \A r \in Request :
       /\ pc[r] = "row" => \A f \in todo[r] : saved[f] = None
       /\ pc[r] = "put" => \A f \in files[r] : saved[f] = None

EvidenceInv == TypeOK /\ PhaseOK /\ FilesOK /\ KeysOK /\ BucketOK /\ RowsOK

\* What the loop over its files has done for a request that works on an
\* incident which still exists.
ProgressOK ==
  /\ \A r \in Request : target[r] # None => life[target[r]] # "unborn"
  /\ \A r \in Request : pc[r] \in {"insert", "write"} => todo[r] = files[r]
  /\ \A r \in Request :
       /\ pc[r] \in {"files", "row", "ok"}
       /\ op[r] \in {"create", "update", "attach"}
       /\ Live(target[r])
       => \A f \in files[r] :
            saved[f] = target[r] \/ (pc[r] # "ok" /\ f \in todo[r])
  /\ \A r \in Request : pc[r] = "ok" =>
       /\ op[r] \in {"create", "update"} => r \in auditLog
       /\ op[r] = "message" /\ Live(target[r]) => posted[r] = target[r]

\* Who a report belongs to.
ReportsOK ==
  /\ \A i, j \in Incident : Live(i) /\ Live(j) /\ code[i] = code[j] => i = j
  /\ \A i \in Incident :
       /\ author[i] = None <=> life[i] = "unborn"
       /\ author[i] # None => /\ op[author[i]] = "create"
                              /\ pc[author[i]] \notin {"idle", "insert"}
                              /\ target[author[i]] = i
  /\ \A r \in Request :
       /\ pc[r] \in {"files", "row", "ok"} /\ op[r] = "create" =>
            target[r] # None /\ author[target[r]] = r
       /\ /\ pc[r] \in {"renew", "issue", "sign", "ok"}
          /\ op[r] \in {"login", "refresh"}
          => target[r] # None /\ author[target[r]] = cred[r]

\* The rows that put handler h on incident i: as many as requests that put
\* them there less those that took them off.  An assignment whose email fails
\* is no longer counted, and its row stays.
TallyOK(i, h) ==
  /\ IsFiniteSet(Assignments(i, h)) /\ IsFiniteSet(Releases(i, h))
  /\ Cardinality(Assignments(i, h))
       <= Cardinality(Releases(i, h)) + (IF <<i, h>> \in assigned THEN 1 ELSE 0)
=============================================================================

------------------------------- MODULE Handlers -------------------------------
(***************************************************************************)
(* HandlersService: who may work on an incident.  The findUnique calls     *)
(* that precede each statement answer what the statement checks again, so  *)
(* they are not steps of their own.                                        *)
(***************************************************************************)
EXTENDS CaseStore

StaffArrives(r, o) ==
  /\ Arrive(r, o, o)
  /\ \E i \in Known : target' = [target EXCEPT ![r] = i]
  /\ UNCHANGED <<store, files, cred, todo>>

\* PATCH handlers/:handlerId/incidents/:incidentId/assign: one handler, who
\* is told by email.
AssignArrives(r) ==
  /\ StaffArrives(r, "assign")
  /\ \E h \in Handler : staff' = [staff EXCEPT ![r] = {h}]

\* incident.update with a nested create: the incident must still be there.
AssignInsert(r) ==
  /\ Goto(r, "assign", "notify")
  /\ InsertHandlers(target[r], staff[r])
  /\ UNCHANGED <<incidentTable, evidence, posted, auditLog, mailbox, now,
                 inputs, todo>>

\* The email goes out once the row is committed.
AssignNotify(r) ==
  /\ Goto(r, "notify", "ok")
  /\ mailbox' = mailbox \cup {r}
  /\ UNCHANGED <<incidentTable, evidence, posted, assigned, auditLog, now,
                 inputs, todo>>

\* PATCH handlers/incidents/:incidentId/assign: a list, who are not told.
AssignManyArrives(r) ==
  /\ StaffArrives(r, "assignMany")
  /\ \E H \in SUBSET Handler : staff' = [staff EXCEPT ![r] = H]

AssignManyInsert(r) ==
  /\ Goto(r, "assignMany", "ok")
  /\ InsertHandlers(target[r], staff[r])
  /\ UNCHANGED <<incidentTable, evidence, posted, auditLog, mailbox, now,
                 inputs, todo>>

\* DELETE handlers/:handlerId/incidents/:incidentId/deassign.
DeassignArrives(r) ==
  /\ StaffArrives(r, "deassign")
  /\ \E h \in Handler : staff' = [staff EXCEPT ![r] = {h}]

DeassignDelete(r) ==
  /\ Goto(r, "deassign", "ok")
  /\ \E h \in staff[r] : DeleteHandler(target[r], h)
  /\ UNCHANGED <<incidentTable, evidence, posted, auditLog, mailbox, now,
                 inputs, todo>>

HandlersNext(r) ==
  \/ AssignArrives(r) \/ AssignInsert(r) \/ AssignNotify(r)
  \/ AssignManyArrives(r) \/ AssignManyInsert(r)
  \/ DeassignArrives(r) \/ DeassignDelete(r)
=============================================================================

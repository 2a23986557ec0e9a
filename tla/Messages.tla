------------------------------- MODULE Messages -------------------------------
(***************************************************************************)
(* MessagesService.createMessage: one insert, which only the foreign key   *)
(* ties to the incident.                                                   *)
(***************************************************************************)
EXTENDS CaseStore

\* POST messages/:incidentId.
MessageArrives(r) ==
  /\ Arrive(r, "message", "message")
  /\ \E i \in Known : target' = [target EXCEPT ![r] = i]
  /\ UNCHANGED <<store, files, staff, cred, todo>>

MessageInsert(r) ==
  /\ Goto(r, "message", "ok")
  /\ InsertMessage(target[r], r)
  /\ UNCHANGED <<incidentTable, evidence, assigned, auditLog, mailbox, now,
                 inputs, todo>>

MessagesNext(r) == MessageArrives(r) \/ MessageInsert(r)
=============================================================================

------------------------------ MODULE Incidents ------------------------------
(***************************************************************************)
(* IncidentsService: createIncident, updateIncident and deleteIncident.    *)
(* What the columns of an incident say (category, status, dates) is left   *)
(* out: the service writes whatever the client sends and reads none of it. *)
(***************************************************************************)
EXTENDS CaseStore

\* POST incidents/:companyId with a set of files.
CreateArrives(r) ==
  /\ Arrive(r, "create", "insert")
  /\ \E S \in SUBSET Unsent : /\ files' = [files EXCEPT ![r] = S]
                              /\ todo' = [todo EXCEPT ![r] = S]
  /\ UNCHANGED <<store, target, staff, cred>>

\* generateCodes draws both codes at random; the row goes in with the hash.
CreateInsert(r) ==
  /\ Goto(r, "insert", "files")
  /\ \E i \in Incident, c \in Code : /\ InsertIncident(i, c, r)
                                     /\ target' = [target EXCEPT ![r] = i]
  /\ UNCHANGED <<evidence, caseTables, now, files, staff, cred, todo>>

\* PATCH incidents/:incidentId with a set of files.
UpdateArrives(r) ==
  /\ Arrive(r, "update", "write")
  /\ \E i \in Known : target' = [target EXCEPT ![r] = i]
  /\ \E S \in SUBSET Unsent : /\ files' = [files EXCEPT ![r] = S]
                              /\ todo' = [todo EXCEPT ![r] = S]
  /\ UNCHANGED <<store, staff, cred>>

\* incident.update rejects when the row is gone since findUnique saw it.
UpdateWrite(r) ==
  /\ Goto(r, "write", "files")
  /\ Live(target[r])
  /\ UNCHANGED <<store, inputs, todo>>

\* The loop both handlers end with: for each file upload it, then insert its
\* row, then write the audit log.
UploadNext(r) ==
  /\ Goto(r, "files", "row")
  /\ \E f \in todo[r] : /\ keyOf' = [keyOf EXCEPT ![f] = UploadKey(f)]
                        /\ PutObject(UploadKey(f), f)
  /\ UNCHANGED <<incidentTable, saved, caseTables, now, inputs, todo>>

\* Mutant: the loop does not advance.
SaveRowAgain(r) ==
  /\ Goto(r, "row", "files")
  /\ \E f \in todo[r] : keyOf[f] # None /\ InsertAttachments({f}, target[r])
  /\ UNCHANGED <<incidentTable, keyOf, bucket, caseTables, now, inputs, todo>>

SaveRow(r) ==
  /\ Goto(r, "row", "files")
  /\ \E f \in todo[r] : /\ keyOf[f] # None
                        /\ InsertAttachments({f}, target[r])
                        /\ todo' = [todo EXCEPT ![r] = @ \ {f}]
  /\ UNCHANGED <<incidentTable, keyOf, bucket, caseTables, now, inputs>>

\* Mutant: the loop is not awaited.
AuditEarly(r) ==
  /\ Goto(r, "files", "ok")
  /\ auditLog' = auditLog \cup {r}
  /\ UNCHANGED <<incidentTable, evidence, posted, assigned, mailbox, now,
                 inputs, todo>>

Audit(r) ==
  /\ Goto(r, "files", "ok")
  /\ todo[r] = {}
  /\ auditLog' = auditLog \cup {r}
  /\ UNCHANGED <<incidentTable, evidence, posted, assigned, mailbox, now,
                 inputs, todo>>

-----------------------------------------------------------------------------
(* DELETE incidents/:incidentId.                                           *)

DeleteArrives(r) ==
  /\ Arrive(r, "delete", "keys")
  /\ \E i \in Known : target' = [target EXCEPT ![r] = i]
  /\ UNCHANGED <<store, files, staff, cred, todo>>

\* attachment.findMany: the keys are read before the row is deleted.
DeleteReadKeys(r) ==
  /\ Goto(r, "keys", "remove")
  /\ Live(target[r])
  /\ LET rows == {f \in File : saved[f] = target[r]}
     IN  /\ files' = [files EXCEPT ![r] = rows]
         /\ todo' = [todo EXCEPT ![r] = rows]
  /\ UNCHANGED <<store, target, staff, cred>>

DeleteRow(r) ==
  /\ Goto(r, "remove", "erase")
  /\ DeleteIncidentRow(target[r])
  /\ UNCHANGED <<code, author, keyOf, bucket, assigned, auditLog, mailbox, now,
                 inputs, todo>>

\* Mutant: for (const { fileKey } of keys), what the comment above the loop
\* calls for.
DeleteObjectOfRow(r) ==
  /\ Goto(r, "erase", "erase")
  /\ \E f \in todo[r] : /\ DeleteFile(keyOf[f])
                        /\ todo' = [todo EXCEPT ![r] = @ \ {f}]
  /\ UNCHANGED <<incidentTable, saved, keyOf, caseTables, now, inputs>>

\* for (const key in keys): key is the index of the row in the array.
DeleteObject(r) ==
  /\ Goto(r, "erase", "erase")
  /\ \E f \in todo[r] : /\ DeleteFile(ArrayIndex)
                        /\ todo' = [todo EXCEPT ![r] = @ \ {f}]
  /\ UNCHANGED <<incidentTable, saved, keyOf, caseTables, now, inputs>>

DeleteDone(r) ==
  /\ Goto(r, "erase", "ok")
  /\ todo[r] = {}
  /\ UNCHANGED <<store, inputs, todo>>

IncidentsNext(r) ==
  \/ CreateArrives(r) \/ CreateInsert(r)
  \/ UpdateArrives(r) \/ UpdateWrite(r)
  \/ UploadNext(r) \/ SaveRow(r) \/ Audit(r)
  \/ DeleteArrives(r) \/ DeleteReadKeys(r) \/ DeleteRow(r)
  \/ DeleteObject(r) \/ DeleteDone(r)
=============================================================================

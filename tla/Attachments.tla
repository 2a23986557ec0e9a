----------------------------- MODULE Attachments -----------------------------
(***************************************************************************)
(* AttachmentsService.uploadNewAttachments: all files are uploaded at once *)
(* and their rows are written by one createMany.                           *)
(***************************************************************************)
EXTENDS CaseStore

\* POST attachments/:incidentId with a set of files.
AttachArrives(r) ==
  /\ Arrive(r, "attach", "find")
  /\ \E i \in Known : target' = [target EXCEPT ![r] = i]
  /\ \E S \in SUBSET Unsent : files' = [files EXCEPT ![r] = S]
  /\ UNCHANGED <<store, staff, cred, todo>>

\* map runs uploadFile of every file up to its first await, so all keys are
\* taken from the same reading of the clock.  Empty files are not uploaded.
AttachStart(r) ==
  /\ Goto(r, "find", "put")
  /\ Live(target[r])
  /\ LET started == files[r] \ EmptyFiles
     IN  /\ keyOf' = [f \in File |-> IF f \in started THEN UploadKey(f)
                                                      ELSE keyOf[f]]
         /\ todo' = [todo EXCEPT ![r] = started]
  /\ UNCHANGED <<incidentTable, saved, bucket, caseTables, now, inputs>>

\* One of the uploads succeeds, in any order, and also after another one
\* failed and took the request with it.
PutLands(r) ==
  /\ op[r] = "attach"
  /\ pc[r] \in {"put", "failed"}
  /\ \E f \in todo[r] : /\ PutObject(keyOf[f], f)
                        /\ todo' = [todo EXCEPT ![r] = @ \ {f}]
  /\ UNCHANGED <<incidentTable, saved, keyOf, caseTables, now, pc, op, inputs>>

\* Mutant: Promise.all is not awaited.
AttachRowsEarly(r) ==
  /\ Goto(r, "put", "ok")
  /\ files[r] \cap EmptyFiles = {}
  /\ InsertAttachments(files[r], target[r])
  /\ UNCHANGED <<incidentTable, keyOf, bucket, caseTables, now, inputs, todo>>

\* createMany refuses the rows of an empty file, which have no fileKey.
AttachRows(r) ==
  /\ Goto(r, "put", "ok")
  /\ todo[r] = {}
  /\ files[r] \cap EmptyFiles = {}
  /\ InsertAttachments(files[r], target[r])
  /\ UNCHANGED <<incidentTable, keyOf, bucket, caseTables, now, inputs, todo>>

AttachmentsNext(r) ==
  AttachArrives(r) \/ AttachStart(r) \/ PutLands(r) \/ AttachRows(r)
=============================================================================

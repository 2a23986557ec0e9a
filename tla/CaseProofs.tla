------------------------------ MODULE CaseProofs ------------------------------
(***************************************************************************)
(* Theorems about CaseSystem, for every choice of its constants.           *)
(***************************************************************************)
EXTENDS CaseInvariant, TLAPS

-----------------------------------------------------------------------------
(* Types.                                                                  *)

\* The key of an upload is a key.
LEMMA KeyOfUpload ==
  ASSUME TypeOK, NEW f \in File
  PROVE  UploadKey(f) \in Key
BY StoreAssumption DEF TypeOK, UploadKey, Key, Time

\* The steps of IncidentsService keep the types.
LEMMA IncidentsType ==
  ASSUME TypeOK, NEW r \in Request, IncidentsNext(r)
  PROVE  TypeOK'
<1> USE DEF TypeOK, Goto, Arrive, Step, store, incidentTable, evidence,
            caseTables, inputs
<1>1. CASE CreateArrives(r)
  BY <1>1 DEF CreateArrives, Unsent
<1>2. CASE CreateInsert(r)
  BY <1>2 DEF CreateInsert, InsertIncident
<1>3. CASE UpdateArrives(r)
  BY <1>3 DEF UpdateArrives, Unsent, Known
<1>4. CASE UpdateWrite(r)
  BY <1>4 DEF UpdateWrite
<1>5. CASE UploadNext(r)
  BY <1>5, KeyOfUpload DEF UploadNext, PutObject
<1>6. CASE SaveRow(r)
  BY <1>6 DEF SaveRow, InsertAttachments, Live
<1>7. CASE Audit(r)
  BY <1>7 DEF Audit
<1>8. CASE DeleteArrives(r)
  BY <1>8 DEF DeleteArrives, Known
<1>9. CASE DeleteReadKeys(r)
  BY <1>9 DEF DeleteReadKeys
<1>10. CASE DeleteRow(r)
  BY <1>10 DEF DeleteRow, DeleteIncidentRow
<1>11. CASE DeleteObject(r)
  BY <1>11 DEF DeleteObject, DeleteFile
<1>12. CASE DeleteDone(r)
  BY <1>12 DEF DeleteDone
<1> QED
  BY <1>1, <1>2, <1>3, <1>4, <1>5, <1>6, <1>7, <1>8, <1>9, <1>10, <1>11,
     <1>12 DEF IncidentsNext

\* So do those of AttachmentsService.
LEMMA AttachmentsType ==
  ASSUME TypeOK, NEW r \in Request, AttachmentsNext(r)
  PROVE  TypeOK'
<1> USE DEF TypeOK, Goto, Arrive, Step, store, incidentTable, evidence,
            caseTables, inputs
<1>1. CASE AttachArrives(r)
  BY <1>1 DEF AttachArrives, Unsent, Known
<1>2. CASE AttachStart(r)
  BY <1>2, KeyOfUpload DEF AttachStart
<1>3. CASE PutLands(r)
  BY <1>3 DEF PutLands, PutObject
<1>4. CASE AttachRows(r)
  BY <1>4 DEF AttachRows, InsertAttachments, Live
<1> QED
  BY <1>1, <1>2, <1>3, <1>4 DEF AttachmentsNext

\* So do those of HandlersService.
LEMMA HandlersType ==
  ASSUME TypeOK, NEW r \in Request, HandlersNext(r)
  PROVE  TypeOK'
<1> USE DEF TypeOK, Goto, Arrive, Step, store, incidentTable, evidence,
            caseTables, inputs
<1>1. CASE AssignArrives(r)
  BY <1>1 DEF AssignArrives, StaffArrives, Known
<1>2. CASE AssignInsert(r)
  BY <1>2 DEF AssignInsert, InsertHandlers, Live
<1>3. CASE AssignNotify(r)
  BY <1>3 DEF AssignNotify
<1>4. CASE AssignManyArrives(r)
  BY <1>4 DEF AssignManyArrives, StaffArrives, Known
<1>5. CASE AssignManyInsert(r)
  BY <1>5 DEF AssignManyInsert, InsertHandlers, Live
<1>6. CASE DeassignArrives(r)
  BY <1>6 DEF DeassignArrives, StaffArrives, Known
<1>7. CASE DeassignDelete(r)
  BY <1>7 DEF DeassignDelete, DeleteHandler
<1> QED
  BY <1>1, <1>2, <1>3, <1>4, <1>5, <1>6, <1>7 DEF HandlersNext

\* So do those of MessagesService.
LEMMA MessagesType ==
  ASSUME TypeOK, NEW r \in Request, MessagesNext(r)
  PROVE  TypeOK'
<1> USE DEF TypeOK, Goto, Arrive, Step, store, incidentTable, evidence,
            caseTables, inputs
<1>1. CASE MessageArrives(r)
  BY <1>1 DEF MessageArrives, Known
<1>2. CASE MessageInsert(r)
  BY <1>2 DEF MessageInsert, InsertMessage, Live
<1> QED
  BY <1>1, <1>2 DEF MessagesNext

\* So do those of IncidentAuthService.
LEMMA IncidentAuthType ==
  ASSUME TypeOK, NEW r \in Request, IncidentAuthNext(r)
  PROVE  TypeOK'
<1> USE DEF TypeOK, Goto, Arrive, Step, store, incidentTable, evidence,
            caseTables, inputs
<1>1. CASE LoginArrives(r)
  BY <1>1 DEF LoginArrives, Reports
<1>2. CASE VerifySecret(r)
  BY <1>2 DEF VerifySecret
<1>3. CASE RefreshArrives(r)
  BY <1>3 DEF RefreshArrives, Sessions
<1>4. CASE Renew(r)
  BY <1>4 DEF Renew
<1>5. CASE Issue(r)
  BY <1>5 DEF Issue
<1>6. CASE Sign(r)
  BY <1>6 DEF Sign
<1> QED
  BY <1>1, <1>2, <1>3, <1>4, <1>5, <1>6 DEF IncidentAuthNext

\* Every step keeps the types.
LEMMA TypeStep == TypeOK /\ [Next]_vars => TypeOK'
<1> SUFFICES ASSUME TypeOK, [Next]_vars PROVE TypeOK'
  OBVIOUS
<1>1. ASSUME NEW r \in Request, Handle(r) PROVE TypeOK'
  BY <1>1, IncidentsType, AttachmentsType, HandlersType, MessagesType,
     IncidentAuthType DEF Handle
<1>2. ASSUME NEW r \in Request, Reject(r) PROVE TypeOK'
  BY <1>2 DEF Reject, TypeOK, Step, store, incidentTable, evidence,
              caseTables, inputs
<1>3. CASE Tick
  BY <1>3, StoreAssumption DEF Tick, TypeOK, Time, incidentTable, evidence,
                               caseTables, inputs
<1>4. CASE UNCHANGED vars
  BY <1>4 DEF vars, store, TypeOK, incidentTable, evidence, caseTables, inputs
<1> QED
  BY <1>1, <1>2, <1>3, <1>4 DEF Next

\* Every row, object and request is what the tables, the bucket and the code
\* can hold, in every reachable state.
THEOREM Typing == Spec => []TypeOK
<1>1. Init => TypeOK
  BY StoreAssumption DEF Init, TypeOK, Time, Step
<1> QED
  BY <1>1, TypeStep, PTL DEF Spec

-----------------------------------------------------------------------------
(* Phases.                                                                 *)

\* Every step keeps a request within its handler.
LEMMA PhaseStep ==
  ASSUME TypeOK, PhaseOK, [Next]_vars
  PROVE  PhaseOK'
<1> USE DEF TypeOK, PhaseOK, Goto, Arrive, Step
<1>1. ASSUME NEW r \in Request, IncidentsNext(r)
      PROVE  PhaseOK'
  BY <1>1 DEF IncidentsNext, CreateArrives, CreateInsert, UpdateArrives,
    UpdateWrite, UploadNext, SaveRow, Audit, DeleteArrives, DeleteReadKeys,
    DeleteRow, DeleteObject, DeleteDone
<1>2. ASSUME NEW r \in Request, AttachmentsNext(r)
      PROVE  PhaseOK'
  BY <1>2 DEF AttachmentsNext, AttachArrives, AttachStart, PutLands, AttachRows
<1>3. ASSUME NEW r \in Request, HandlersNext(r)
      PROVE  PhaseOK'
  BY <1>3 DEF HandlersNext, StaffArrives, AssignArrives, AssignInsert,
    AssignNotify, AssignManyArrives, AssignManyInsert, DeassignArrives,
    DeassignDelete
<1>4. ASSUME NEW r \in Request, MessagesNext(r)
      PROVE  PhaseOK'
  BY <1>4 DEF MessagesNext, MessageArrives, MessageInsert
<1>5. ASSUME NEW r \in Request, IncidentAuthNext(r)
      PROVE  PhaseOK'
  BY <1>5 DEF IncidentAuthNext, LoginArrives, VerifySecret, RefreshArrives,
    Renew, Issue, Sign
<1>6. ASSUME NEW r \in Request, Reject(r)
      PROVE  PhaseOK'
  BY <1>6 DEF Reject
<1>7. CASE Tick
  BY <1>7 DEF Tick
<1>8. CASE UNCHANGED vars
  BY <1>8 DEF vars
<1> QED
  BY <1>1, <1>2, <1>3, <1>4, <1>5, <1>6, <1>7, <1>8 DEF Next, Handle

-----------------------------------------------------------------------------
(* Evidence.                                                               *)

\* Requests that bring no files are no part of the evidence invariant.
LEMMA Bystander ==
  ASSUME TypeOK, PhaseOK, FilesOK, NEW r \in Request,
         HandlersNext(r) \/ MessagesNext(r) \/ IncidentAuthNext(r)
  PROVE  /\ UNCHANGED <<evidence, files, todo>>
         /\ \A q \in Request : /\ Sender(q)' <=> Sender(q)
                               /\ q # r => pc'[q] = pc[q] /\ op'[q] = op[q]
         /\ pc'[r] \notin {"idle", "insert", "write", "files", "row", "find",
                           "put"}
         /\ \A q \in Request, f \in File : Uploading(q, f)' <=> Uploading(q, f)
<1> USE DEF HandlersNext, StaffArrives, AssignArrives, AssignInsert,
    AssignNotify, AssignManyArrives, AssignManyInsert, DeassignArrives,
    DeassignDelete, MessagesNext, MessageArrives, MessageInsert,
    IncidentAuthNext, LoginArrives, VerifySecret, RefreshArrives, Renew,
    Issue, Sign, TypeOK, PhaseOK, Goto, Arrive
<1>1. UNCHANGED <<evidence, files, todo>>
  BY DEF store, evidence, inputs
<1>2. \A q \in Request : q # r => pc'[q] = pc[q] /\ op'[q] = op[q]
  OBVIOUS
<1>3. pc'[r] \notin {"idle", "insert", "write", "files", "row", "find", "put"}
  OBVIOUS
<1>4. \A q \in Request : Sender(q)' <=> Sender(q)
  BY DEF Sender
<1>5. \A q \in Request, f \in File : Uploading(q, f)' <=> Uploading(q, f)
  BY DEF Uploading
<1> QED
  BY <1>1, <1>2, <1>3, <1>4, <1>5

\* Every step keeps files, keys, objects and rows together.
LEMMA EvidenceStep ==
  ASSUME EvidenceInv, [Next]_vars, TypeOK'
  PROVE  FilesOK' /\ KeysOK' /\ BucketOK' /\ RowsOK'
<1> USE DEF EvidenceInv, TypeOK, PhaseOK, Sender, Uploading, Goto, Arrive,
            store, evidence, inputs
<1>1. ASSUME NEW r \in Request, CreateArrives(r)
      PROVE  FilesOK' /\ KeysOK' /\ BucketOK' /\ RowsOK'
  <2> USE <1>1 DEF CreateArrives, Unsent
  <2>1. FilesOK'
    BY DEF FilesOK, RowsOK
  <2>2. KeysOK'
    BY DEF FilesOK, KeysOK
  <2>3. BucketOK'
    BY DEF FilesOK, KeysOK, BucketOK
  <2>4. RowsOK'
    BY DEF FilesOK, KeysOK, RowsOK
  <2> QED
    BY <2>1, <2>2, <2>3, <2>4
<1>2. ASSUME NEW r \in Request, CreateInsert(r)
      PROVE  FilesOK' /\ KeysOK' /\ BucketOK' /\ RowsOK'
  <2> USE <1>2 DEF CreateInsert
  <2>1. FilesOK'
    BY DEF FilesOK, RowsOK
  <2>2. KeysOK'
    BY DEF FilesOK, KeysOK
  <2>3. BucketOK'
    BY DEF FilesOK, KeysOK, BucketOK
  <2>4. RowsOK'
    BY DEF FilesOK, KeysOK, RowsOK
  <2> QED
    BY <2>1, <2>2, <2>3, <2>4
<1>3. ASSUME NEW r \in Request, UpdateArrives(r)
      PROVE  FilesOK' /\ KeysOK' /\ BucketOK' /\ RowsOK'
  <2> USE <1>3 DEF UpdateArrives, Unsent
  <2>1. FilesOK'
    BY DEF FilesOK, RowsOK
  <2>2. KeysOK'
    BY DEF FilesOK, KeysOK
  <2>3. BucketOK'
    BY DEF FilesOK, KeysOK, BucketOK
  <2>4. RowsOK'
    BY DEF FilesOK, KeysOK, RowsOK
  <2> QED
    BY <2>1, <2>2, <2>3, <2>4
<1>4. ASSUME NEW r \in Request, UpdateWrite(r)
      PROVE  FilesOK' /\ KeysOK' /\ BucketOK' /\ RowsOK'
  <2> USE <1>4 DEF UpdateWrite
  <2>1. FilesOK'
    BY DEF FilesOK, RowsOK
  <2>2. KeysOK'
    BY DEF FilesOK, KeysOK
  <2>3. BucketOK'
    BY DEF FilesOK, KeysOK, BucketOK
  <2>4. RowsOK'
    BY DEF FilesOK, KeysOK, RowsOK
  <2> QED
    BY <2>1, <2>2, <2>3, <2>4
<1>5. ASSUME NEW r \in Request, UploadNext(r)
      PROVE  FilesOK' /\ KeysOK' /\ BucketOK' /\ RowsOK'
  <2> USE <1>5 DEF UploadNext, PutObject
  <2>1. FilesOK'
    BY DEF FilesOK, RowsOK
  <2>2. KeysOK'
    BY DEF FilesOK, KeysOK
  <2>3. BucketOK'
    BY KeyOfUpload, StoreAssumption DEF FilesOK, KeysOK, BucketOK
  <2>4. RowsOK'
    BY DEF FilesOK, KeysOK, RowsOK
  <2> QED
    BY <2>1, <2>2, <2>3, <2>4
<1>6. ASSUME NEW r \in Request, SaveRow(r)
      PROVE  FilesOK' /\ KeysOK' /\ BucketOK' /\ RowsOK'
  <2> USE <1>6 DEF SaveRow, InsertAttachments
  <2>1. FilesOK'
    BY DEF FilesOK, RowsOK
  <2>2. KeysOK'
    BY DEF FilesOK, KeysOK
  <2>3. BucketOK'
    BY DEF FilesOK, KeysOK, BucketOK
  <2>4. RowsOK'
    <3>0. PICK f \in todo[r] : /\ keyOf[f] # None
                              /\ InsertAttachments({f}, target[r])
                              /\ todo' = [todo EXCEPT ![r] = @ \ {f}]
      OBVIOUS
    <3>1. /\ f \in todo[r] /\ f \in File /\ keyOf[f] # None
          /\ \A g \in File \ {f} : saved'[g] = saved[g]
          /\ keyOf' = keyOf /\ op' = op /\ files' = files
          /\ pc[r] = "row" /\ pc'[r] = "files" /\ op[r] # "attach"
          /\ \A q \in Request \ {r} : pc'[q] = pc[q] /\ todo'[q] = todo[q]
          /\ \A q \in Request : Uploading(q, f)' <=> Uploading(q, f)
      BY <3>0
    <3>2. \A q \in Request : ~Uploading(q, f)
      BY <3>1 DEF FilesOK
    <3>3. \A g \in File : saved'[g] # None =>
             keyOf'[g] # None /\ \A q \in Request : ~Uploading(q, g)'
      BY <3>1, <3>2 DEF RowsOK
    <3>4. \A q \in Request \ {r} :
             pc[q] \in {"row", "put"} => f \notin files[q] /\ f \notin todo[q]
      BY <3>1 DEF FilesOK
    <3>5. ASSUME NEW q \in Request, pc'[q] = "row"
          PROVE  \A g \in todo'[q] : saved'[g] = None
      <4>1. q # r /\ pc[q] = "row" /\ todo'[q] = todo[q]
        BY <3>1, <3>5
      <4> QED
        BY <3>1, <3>4, <4>1 DEF RowsOK
    <3>6. ASSUME NEW q \in Request, pc'[q] = "put"
          PROVE  \A g \in files'[q] : saved'[g] = None
      <4>1. q # r /\ pc[q] = "put" /\ files'[q] = files[q]
        BY <3>1, <3>6
      <4> QED
        BY <3>1, <3>4, <4>1 DEF RowsOK
    <3> QED
      BY <3>3, <3>5, <3>6 DEF RowsOK
  <2> QED
    BY <2>1, <2>2, <2>3, <2>4
<1>7. ASSUME NEW r \in Request, Audit(r)
      PROVE  FilesOK' /\ KeysOK' /\ BucketOK' /\ RowsOK'
  <2> USE <1>7 DEF Audit
  <2>1. FilesOK'
    BY DEF FilesOK, RowsOK
  <2>2. KeysOK'
    BY DEF FilesOK, KeysOK
  <2>3. BucketOK'
    BY DEF FilesOK, KeysOK, BucketOK
  <2>4. RowsOK'
    BY DEF FilesOK, KeysOK, RowsOK
  <2> QED
    BY <2>1, <2>2, <2>3, <2>4
<1>8. ASSUME NEW r \in Request, DeleteArrives(r)
      PROVE  FilesOK' /\ KeysOK' /\ BucketOK' /\ RowsOK'
  <2> USE <1>8 DEF DeleteArrives
  <2>1. FilesOK'
    BY DEF FilesOK, RowsOK
  <2>2. KeysOK'
    BY DEF FilesOK, KeysOK
  <2>3. BucketOK'
    BY DEF FilesOK, KeysOK, BucketOK
  <2>4. RowsOK'
    BY DEF FilesOK, KeysOK, RowsOK
  <2> QED
    BY <2>1, <2>2, <2>3, <2>4
<1>9. ASSUME NEW r \in Request, DeleteReadKeys(r)
      PROVE  FilesOK' /\ KeysOK' /\ BucketOK' /\ RowsOK'
  <2> USE <1>9 DEF DeleteReadKeys
  <2>1. FilesOK'
    BY DEF FilesOK, RowsOK
  <2>2. KeysOK'
    BY DEF FilesOK, KeysOK
  <2>3. BucketOK'
    BY DEF FilesOK, KeysOK, BucketOK
  <2>4. RowsOK'
    BY DEF FilesOK, KeysOK, RowsOK
  <2> QED
    BY <2>1, <2>2, <2>3, <2>4
<1>10. ASSUME NEW r \in Request, DeleteRow(r)
      PROVE  FilesOK' /\ KeysOK' /\ BucketOK' /\ RowsOK'
  <2> USE <1>10 DEF DeleteRow, DeleteIncidentRow
  <2>1. FilesOK'
    BY DEF FilesOK, RowsOK
  <2>2. KeysOK'
    BY DEF FilesOK, KeysOK
  <2>3. BucketOK'
    BY DEF FilesOK, KeysOK, BucketOK
  <2>4. RowsOK'
    BY DEF FilesOK, KeysOK, RowsOK
  <2> QED
    BY <2>1, <2>2, <2>3, <2>4
<1>11. ASSUME NEW r \in Request, DeleteObject(r)
      PROVE  FilesOK' /\ KeysOK' /\ BucketOK' /\ RowsOK'
  <2> USE <1>11 DEF DeleteObject, DeleteFile
  <2>1. FilesOK'
    BY DEF FilesOK, RowsOK
  <2>2. KeysOK'
    BY DEF FilesOK, KeysOK
  <2>3. BucketOK'
    <3>1. bucket' = bucket
      BY StoreAssumption
    <3> QED
      BY <3>1 DEF FilesOK, KeysOK, BucketOK
  <2>4. RowsOK'
    BY DEF FilesOK, KeysOK, RowsOK
  <2> QED
    BY <2>1, <2>2, <2>3, <2>4
<1>12. ASSUME NEW r \in Request, DeleteDone(r)
      PROVE  FilesOK' /\ KeysOK' /\ BucketOK' /\ RowsOK'
  <2> USE <1>12 DEF DeleteDone
  <2>1. FilesOK'
    BY DEF FilesOK, RowsOK
  <2>2. KeysOK'
    BY DEF FilesOK, KeysOK
  <2>3. BucketOK'
    BY DEF FilesOK, KeysOK, BucketOK
  <2>4. RowsOK'
    BY DEF FilesOK, KeysOK, RowsOK
  <2> QED
    BY <2>1, <2>2, <2>3, <2>4
<1>13. ASSUME NEW r \in Request, AttachArrives(r)
      PROVE  FilesOK' /\ KeysOK' /\ BucketOK' /\ RowsOK'
  <2> USE <1>13 DEF AttachArrives, Unsent
  <2>1. FilesOK'
    BY DEF FilesOK, RowsOK
  <2>2. KeysOK'
    BY DEF FilesOK, KeysOK
  <2>3. BucketOK'
    BY DEF FilesOK, KeysOK, BucketOK
  <2>4. RowsOK'
    BY DEF FilesOK, KeysOK, RowsOK
  <2> QED
    BY <2>1, <2>2, <2>3, <2>4
<1>14. ASSUME NEW r \in Request, AttachStart(r)
      PROVE  FilesOK' /\ KeysOK' /\ BucketOK' /\ RowsOK'
  <2> USE <1>14 DEF AttachStart
  <2>1. FilesOK'
    BY DEF FilesOK, RowsOK
  <2>2. KeysOK'
    BY KeyOfUpload, StoreAssumption DEF FilesOK, KeysOK
  <2>3. BucketOK'
    BY KeyOfUpload, StoreAssumption DEF FilesOK, KeysOK, BucketOK
  <2>4. RowsOK'
    BY DEF FilesOK, KeysOK, RowsOK
  <2> QED
    BY <2>1, <2>2, <2>3, <2>4
<1>15. ASSUME NEW r \in Request, PutLands(r)
      PROVE  FilesOK' /\ KeysOK' /\ BucketOK' /\ RowsOK'
  <2> USE <1>15 DEF PutLands, PutObject
  <2>1. FilesOK'
    BY DEF FilesOK, RowsOK
  <2>2. KeysOK'
    BY DEF FilesOK, KeysOK
  <2>3. BucketOK'
    BY StoreAssumption DEF FilesOK, KeysOK, BucketOK
  <2>4. RowsOK'
    BY DEF FilesOK, KeysOK, RowsOK
  <2> QED
    BY <2>1, <2>2, <2>3, <2>4
<1>16. ASSUME NEW r \in Request, AttachRows(r)
      PROVE  FilesOK' /\ KeysOK' /\ BucketOK' /\ RowsOK'
  <2> USE <1>16 DEF AttachRows, InsertAttachments
  <2>1. FilesOK'
    BY DEF FilesOK, RowsOK
  <2>2. KeysOK'
    BY DEF FilesOK, KeysOK
  <2>3. BucketOK'
    <3>1. keyOf' = keyOf /\ bucket' = bucket
      OBVIOUS
    <3>2. \A q \in Request, f \in File :
             Uploading(q, f)' <=> Uploading(q, f)
      OBVIOUS
    <3> HIDE DEF Uploading
    <3> QED
      BY <3>1, <3>2 DEF BucketOK
  <2>4. RowsOK'
    <3>1. /\ \A q \in Request, f \in File :
                Uploading(q, f)' <=> Uploading(q, f)
          /\ \A q \in Request : pc'[q] \in {"row", "put"} =>
                q # r /\ pc'[q] = pc[q]
          /\ keyOf' = keyOf /\ todo' = todo /\ files' = files
      OBVIOUS
    <3>2. \A f \in files[r] : /\ keyOf[f] # None
                               /\ \A q \in Request : ~Uploading(q, f)
      BY DEF FilesOK, KeysOK
    <3>3. \A f \in File \ files[r] : saved'[f] = saved[f]
      OBVIOUS
    <3>4. \A q \in Request \ {r} :
            pc[q] \in {"row", "put"} => files[q] \cap files[r] = {}
      BY DEF FilesOK
    <3>5. \A q \in Request : todo[q] \subseteq files[q] /\ files[q] \subseteq File
      BY DEF FilesOK
    <3> HIDE DEF Uploading, Sender
    <3> QED
      BY <3>1, <3>2, <3>3, <3>4, <3>5 DEF RowsOK
  <2> QED
    BY <2>1, <2>2, <2>3, <2>4
<1>17. ASSUME NEW r \in Request, Reject(r)
      PROVE  FilesOK' /\ KeysOK' /\ BucketOK' /\ RowsOK'
  <2> USE <1>17 DEF Reject, Answered
  <2>1. FilesOK'
    BY DEF FilesOK, RowsOK
  <2>2. KeysOK'
    BY DEF FilesOK, KeysOK
  <2>3. BucketOK'
    BY DEF FilesOK, KeysOK, BucketOK
  <2>4. RowsOK'
    BY DEF FilesOK, KeysOK, RowsOK
  <2> QED
    BY <2>1, <2>2, <2>3, <2>4
<1>18. ASSUME NEW r \in Request,
              HandlersNext(r) \/ MessagesNext(r) \/ IncidentAuthNext(r)
       PROVE  FilesOK' /\ KeysOK' /\ BucketOK' /\ RowsOK'
  <2>0. /\ UNCHANGED <<evidence, files, todo>>
        /\ \A q \in Request : /\ Sender(q)' <=> Sender(q)
                              /\ pc'[q] = "idle" => pc[q] = "idle"
    BY <1>18, Bystander
  <2>1. FilesOK'
    BY <2>0 DEF FilesOK
  <2>2. KeysOK'
    BY <1>18, Bystander DEF KeysOK
  <2>3. BucketOK'
    BY <1>18, Bystander DEF BucketOK
  <2>4. RowsOK'
    BY <1>18, Bystander DEF RowsOK
  <2> QED
    BY <2>1, <2>2, <2>3, <2>4
<1>19. CASE Tick \/ UNCHANGED vars
  BY <1>19 DEF Tick, vars, FilesOK, KeysOK, BucketOK, RowsOK
<1> QED
  BY <1>1, <1>2, <1>3, <1>4, <1>5, <1>6, <1>7, <1>8, <1>9, <1>10, <1>11,
     <1>12, <1>13, <1>14, <1>15, <1>16, <1>17, <1>18, <1>19
  DEF Next, Handle, IncidentsNext, AttachmentsNext

\* The inductive invariant of uploads: which files have keys, and which keys
\* hold objects or have an upload under way.
THEOREM EvidenceInvariant == Spec => []EvidenceInv
<1>1. Init => EvidenceInv
  <2> SUFFICES ASSUME Init PROVE EvidenceInv
    OBVIOUS
  <2>1. TypeOK
    BY StoreAssumption DEF Init, TypeOK, Time, Step
  <2> QED
    BY <2>1 DEF Init, EvidenceInv, PhaseOK, FilesOK, KeysOK, BucketOK, RowsOK,
                Sender, Uploading
<1>2. EvidenceInv /\ [Next]_vars => EvidenceInv'
  <2> SUFFICES ASSUME EvidenceInv, [Next]_vars PROVE EvidenceInv'
    OBVIOUS
  <2>1. TypeOK'
    BY TypeStep DEF EvidenceInv
  <2>2. PhaseOK'
    BY PhaseStep DEF EvidenceInv
  <2>3. FilesOK' /\ KeysOK' /\ BucketOK' /\ RowsOK'
    BY <2>1, EvidenceStep
  <2> QED
    BY <2>1, <2>2, <2>3 DEF EvidenceInv
<1> QED
  BY <1>1, <1>2, PTL DEF Spec

\* Rows are inserted after the upload of their object, also when uploads run in
\* parallel, and no deletion takes an object away: the key a row holds always
\* names one.
THEOREM RowsKeepTheirObjects == Spec => []RowsHaveObjects
<1>1. EvidenceInv => RowsHaveObjects
  BY DEF EvidenceInv, BucketOK, RowsOK, RowsHaveObjects
<1> QED
  BY <1>1, EvidenceInvariant, PTL

\* An object is only ever replaced by that of a file with the same key, so a
\* row whose key was computed once points to the file that was sent.
THEOREM EvidenceStaysIntact == Spec => []EvidenceIntact
<1>1. EvidenceInv => EvidenceIntact
  <2> SUFFICES ASSUME EvidenceInv, NEW f \in File, saved[f] # None, ~Clashes(f)
               PROVE  bucket[keyOf[f]] = f
    BY DEF EvidenceIntact
  <2>1. keyOf[f] \in Key /\ bucket[keyOf[f]] # None
    BY DEF EvidenceInv, BucketOK, RowsOK, TypeOK
  <2>2. bucket[keyOf[f]] \in File /\ keyOf[bucket[keyOf[f]]] = keyOf[f]
    BY <2>1 DEF EvidenceInv, BucketOK, TypeOK
  <2> QED
    BY <2>2 DEF Clashes
<1> QED
  BY <1>1, EvidenceInvariant, PTL

-----------------------------------------------------------------------------
(* Rows and incidents.                                                     *)

\* Every insert asks for a live incident in the statement itself, and a
\* deletion takes the rows with it or is refused: the checks the handlers make
\* beforehand are not what keeps the tables consistent.
THEOREM StoreStaysConsistent == Spec => []StoreConsistent
<1> DEFINE Inv == TypeOK /\ StoreConsistent
<1>1. Init => Inv
  BY Typing, StoreAssumption DEF Init, StoreConsistent, TypeOK, Time, Step
<1>2. Inv /\ [Next]_vars => Inv'
  <2> SUFFICES ASSUME Inv, [Next]_vars PROVE Inv'
    OBVIOUS
  <2>0. TypeOK'
    BY TypeStep
  <2> USE DEF TypeOK, StoreConsistent, Live, store, incidentTable, evidence,
              caseTables, Goto, Arrive
  <2>1. ASSUME NEW r \in Request, IncidentsNext(r) PROVE StoreConsistent'
    <3>1. CASE CreateInsert(r)
      BY <3>1 DEF CreateInsert, InsertIncident
    <3>2. CASE SaveRow(r)
      BY <3>2 DEF SaveRow, InsertAttachments
    <3>3. CASE DeleteRow(r)
      BY <3>3, StoreAssumption DEF DeleteRow, DeleteIncidentRow
    <3> QED
      BY <2>1, <3>1, <3>2, <3>3 DEF IncidentsNext, CreateArrives,
        UpdateArrives, UpdateWrite, UploadNext, Audit, DeleteArrives,
        DeleteReadKeys, DeleteObject, DeleteDone
  <2>2. ASSUME NEW r \in Request, AttachmentsNext(r) PROVE StoreConsistent'
    BY <2>2 DEF AttachmentsNext, AttachArrives, AttachStart, PutLands,
      AttachRows, InsertAttachments
  <2>3. ASSUME NEW r \in Request, HandlersNext(r) PROVE StoreConsistent'
    BY <2>3 DEF HandlersNext, StaffArrives, AssignArrives, AssignInsert,
      AssignNotify, AssignManyArrives, AssignManyInsert, DeassignArrives,
      DeassignDelete, InsertHandlers, DeleteHandler
  <2>4. ASSUME NEW r \in Request, MessagesNext(r) PROVE StoreConsistent'
    BY <2>4 DEF MessagesNext, MessageArrives, MessageInsert, InsertMessage
  <2>5. ASSUME NEW r \in Request, IncidentAuthNext(r) PROVE StoreConsistent'
    BY <2>5 DEF IncidentAuthNext, LoginArrives, VerifySecret, RefreshArrives,
      Renew, Issue, Sign
  <2>6. ASSUME NEW r \in Request, Reject(r) PROVE StoreConsistent'
    BY <2>6 DEF Reject
  <2>7. CASE Tick \/ UNCHANGED vars
    BY <2>0, <2>7 DEF Tick, vars
  <2> QED
    BY <2>0, <2>1, <2>2, <2>3, <2>4, <2>5, <2>6, <2>7 DEF Next, Handle
<1>3. Inv => StoreConsistent
  OBVIOUS
<1> QED
  BY <1>1, <1>2, <1>3, PTL DEF Spec

-----------------------------------------------------------------------------
(* Answers.                                                                *)

\* Every step keeps what the loops over files have done so far.
LEMMA ProgressStep ==
  ASSUME EvidenceInv, ProgressOK, [Next]_vars, TypeOK'
  PROVE  ProgressOK'
<1> USE DEF EvidenceInv, TypeOK, PhaseOK, Sender, ProgressOK, Live, Goto,
            Arrive, store, incidentTable, evidence, caseTables, inputs
<1>1. ASSUME NEW r \in Request, CreateArrives(r)
      PROVE  ProgressOK'
  BY <1>1, StoreAssumption DEF FilesOK, CreateArrives
<1>2. ASSUME NEW r \in Request, CreateInsert(r)
      PROVE  ProgressOK'
  BY <1>2, StoreAssumption DEF FilesOK, CreateInsert, InsertIncident
<1>3. ASSUME NEW r \in Request, UpdateArrives(r)
      PROVE  ProgressOK'
  BY <1>3, StoreAssumption DEF FilesOK, UpdateArrives, Known
<1>4. ASSUME NEW r \in Request, UpdateWrite(r)
      PROVE  ProgressOK'
  BY <1>4, StoreAssumption DEF FilesOK, UpdateWrite
<1>5. ASSUME NEW r \in Request, UploadNext(r)
      PROVE  ProgressOK'
  BY <1>5, StoreAssumption DEF FilesOK, UploadNext
<1>6. ASSUME NEW r \in Request, SaveRow(r)
      PROVE  ProgressOK'
  BY <1>6, StoreAssumption DEF FilesOK, SaveRow, InsertAttachments
<1>7. ASSUME NEW r \in Request, Audit(r)
      PROVE  ProgressOK'
  BY <1>7, StoreAssumption DEF FilesOK, Audit
<1>8. ASSUME NEW r \in Request, DeleteArrives(r)
      PROVE  ProgressOK'
  BY <1>8, StoreAssumption DEF FilesOK, DeleteArrives, Known
<1>9. ASSUME NEW r \in Request, DeleteReadKeys(r)
      PROVE  ProgressOK'
  BY <1>9, StoreAssumption DEF FilesOK, DeleteReadKeys
<1>10. ASSUME NEW r \in Request, DeleteRow(r)
      PROVE  ProgressOK'
  BY <1>10, StoreAssumption DEF FilesOK, DeleteRow, DeleteIncidentRow
<1>11. ASSUME NEW r \in Request, DeleteObject(r)
      PROVE  ProgressOK'
  BY <1>11, StoreAssumption DEF FilesOK, DeleteObject
<1>12. ASSUME NEW r \in Request, DeleteDone(r)
      PROVE  ProgressOK'
  BY <1>12, StoreAssumption DEF FilesOK, DeleteDone
<1>13. ASSUME NEW r \in Request, AttachArrives(r)
      PROVE  ProgressOK'
  BY <1>13, StoreAssumption DEF FilesOK, AttachArrives, Known
<1>14. ASSUME NEW r \in Request, AttachStart(r)
      PROVE  ProgressOK'
  BY <1>14, StoreAssumption DEF FilesOK, AttachStart
<1>15. ASSUME NEW r \in Request, PutLands(r)
      PROVE  ProgressOK'
  BY <1>15, StoreAssumption DEF FilesOK, PutLands
<1>16. ASSUME NEW r \in Request, AttachRows(r)
      PROVE  ProgressOK'
  BY <1>16, StoreAssumption DEF FilesOK, AttachRows, InsertAttachments
<1>17. ASSUME NEW r \in Request, Reject(r)
      PROVE  ProgressOK'
  BY <1>17, StoreAssumption DEF FilesOK, Reject, Answered
<1>18. ASSUME NEW r \in Request, HandlersNext(r)
       PROVE  ProgressOK'
  BY <1>18, StoreAssumption DEF HandlersNext, StaffArrives, AssignArrives,
    AssignInsert, AssignNotify, AssignManyArrives, AssignManyInsert,
    DeassignArrives, DeassignDelete, Known
<1>19. ASSUME NEW r \in Request, MessagesNext(r)
       PROVE  ProgressOK'
  BY <1>19, StoreAssumption DEF MessagesNext, MessageArrives, MessageInsert,
    InsertMessage, Known
<1>20. ASSUME NEW r \in Request, IncidentAuthNext(r)
       PROVE  ProgressOK'
  <2>1. CASE LoginArrives(r)
    BY <2>1 DEF LoginArrives
  <2>2. CASE VerifySecret(r)
    BY <2>2, StoreAssumption DEF VerifySecret
  <2>3. CASE RefreshArrives(r)
    BY <2>3 DEF RefreshArrives, Sessions
  <2>4. CASE Renew(r) \/ Issue(r) \/ Sign(r)
    BY <2>4 DEF Renew, Issue, Sign
  <2> QED
    BY <1>20, <2>1, <2>2, <2>3, <2>4 DEF IncidentAuthNext
<1>21. CASE Tick \/ UNCHANGED vars
  BY <1>21 DEF Tick, vars
<1> QED
  BY <1>1, <1>2, <1>3, <1>4, <1>5, <1>6, <1>7, <1>8, <1>9, <1>10, <1>11,
     <1>12, <1>13, <1>14, <1>15, <1>16, <1>17, <1>18, <1>19, <1>20, <1>21
  DEF Next, Handle, IncidentsNext, AttachmentsNext

\* What a request says it has stored is stored: its files, its message and its
\* audit entry, in every interleaving with other requests and unless the
\* incident was deleted.
THEOREM AnswersAreTrue == Spec => []AnsweredIsStored
<1> DEFINE Inv == EvidenceInv /\ ProgressOK
<1>1. Init => ProgressOK
  BY StoreAssumption DEF Init, ProgressOK, Live
<1>2. EvidenceInv /\ EvidenceInv' /\ ProgressOK /\ [Next]_vars => ProgressOK'
  BY ProgressStep DEF EvidenceInv
<1>3. EvidenceInv /\ ProgressOK => AnsweredIsStored
  BY DEF ProgressOK, AnsweredIsStored
<1> QED
  BY <1>1, <1>2, <1>3, EvidenceInvariant, PTL DEF Spec

-----------------------------------------------------------------------------
(* Reporters.                                                              *)

\* Every step keeps reports, their authors and their codes apart.
LEMMA ReportsStep ==
  ASSUME TypeOK, PhaseOK, ProgressOK, ReportsOK, [Next]_vars
  PROVE  ReportsOK'
<1> USE DEF TypeOK, PhaseOK, ReportsOK, Live, Goto, Arrive, store,
            incidentTable, inputs
<1>1. ASSUME NEW r \in Request, IncidentsNext(r) PROVE ReportsOK'
  <2>1. CASE CreateInsert(r)
    BY <2>1, StoreAssumption DEF CreateInsert, InsertIncident, ProgressOK
  <2>2. CASE DeleteRow(r)
    BY <2>2 DEF DeleteRow, DeleteIncidentRow
  <2>3. CASE CreateArrives(r) \/ UpdateArrives(r) \/ DeleteArrives(r)
    BY <2>3, StoreAssumption DEF CreateArrives, UpdateArrives, DeleteArrives
  <2> QED
    BY <1>1, <2>1, <2>2, <2>3 DEF IncidentsNext, UpdateWrite, UploadNext,
      SaveRow, Audit, DeleteReadKeys, DeleteObject, DeleteDone
<1>2. ASSUME NEW r \in Request, AttachmentsNext(r) PROVE ReportsOK'
  BY <1>2, StoreAssumption DEF AttachmentsNext, AttachArrives, AttachStart,
    PutLands, AttachRows
<1>3. ASSUME NEW r \in Request, HandlersNext(r) PROVE ReportsOK'
  BY <1>3, StoreAssumption DEF HandlersNext, StaffArrives, AssignArrives,
    AssignInsert, AssignNotify, AssignManyArrives, AssignManyInsert,
    DeassignArrives, DeassignDelete
<1>4. ASSUME NEW r \in Request, MessagesNext(r) PROVE ReportsOK'
  BY <1>4, StoreAssumption DEF MessagesNext, MessageArrives, MessageInsert
<1>5. ASSUME NEW r \in Request, IncidentAuthNext(r) PROVE ReportsOK'
  <2>1. CASE LoginArrives(r)
    BY <2>1, StoreAssumption DEF LoginArrives
  <2>2. CASE VerifySecret(r)
    BY <2>2, StoreAssumption DEF VerifySecret
  <2>3. CASE RefreshArrives(r)
    BY <2>3, StoreAssumption DEF RefreshArrives, Sessions
  <2>4. CASE Renew(r) \/ Issue(r) \/ Sign(r)
    BY <2>4 DEF Renew, Issue, Sign
  <2> QED
    BY <1>5, <2>1, <2>2, <2>3, <2>4 DEF IncidentAuthNext
<1>6. ASSUME NEW r \in Request, Reject(r) PROVE ReportsOK'
  BY <1>6 DEF Reject, Answered
<1>7. CASE Tick \/ UNCHANGED vars
  BY <1>7 DEF Tick, vars
<1> QED
  BY <1>1, <1>2, <1>3, <1>4, <1>5, <1>6, <1>7 DEF Next, Handle

\* The inductive invariant of reports: each has one author, and those on file
\* have codes of their own.
THEOREM ReportsInvariant == Spec => [](EvidenceInv /\ ProgressOK /\ ReportsOK)
<1>1. Init => ProgressOK /\ ReportsOK
  BY StoreAssumption DEF Init, ProgressOK, ReportsOK, Live
<1>2. /\ EvidenceInv /\ EvidenceInv' /\ ProgressOK /\ ReportsOK
      /\ [Next]_vars
      => ProgressOK' /\ ReportsOK'
  BY ProgressStep, ReportsStep DEF EvidenceInv
<1> QED
  BY <1>1, <1>2, EvidenceInvariant, PTL DEF Spec

\* The codes a reporter was given open the report they were given for, as long
\* as it exists, whatever reports are created and deleted in between.
THEOREM CodesOpenTheReport == Spec => []CredentialsFindReport
<1>1. ReportsOK => CredentialsFindReport
  <2> SUFFICES ASSUME ReportsOK, NEW r \in Reports, Live(target[r])
               PROVE  /\ \A i \in Incident : Live(i) /\ code[i] = code[target[r]]
                                               => author[i] = r
                      /\ \A i \in Incident : author[i] = r =>
                            Live(i) /\ code[i] = code[target[r]]
    BY DEF CredentialsFindReport
  <2> QED
    BY StoreAssumption DEF ReportsOK, Reports, Live
<1> QED
  BY <1>1, ReportsInvariant, PTL

\* A session and all that are renewed from it are for the report whose secret
\* code started it: a display code given out again does not lead elsewhere.
THEOREM SessionsKeepToTheirReport == Spec => []SessionsMatchCredentials
<1>1. ReportsOK => SessionsMatchCredentials
  BY DEF ReportsOK, SessionsMatchCredentials, Sessions
<1> QED
  BY <1>1, ReportsInvariant, PTL

-----------------------------------------------------------------------------
(* Staff.                                                                  *)

\* No deletion, bulk assignment or second release takes a handler off a report
\* that a request has put them on.
THEOREM AssignmentsLast == Spec => []AssignedStay
<1> DEFINE Inv == /\ StoreConsistent
                  /\ \A i \in Incident, h \in Handler :
                       Assignments(i, h) # {} /\ Releases(i, h) = {} =>
                         <<i, h>> \in assigned
<1>1. Init => Inv
  BY StoreAssumption DEF Init, StoreConsistent, Assignments
<1>2. /\ EvidenceInv /\ StoreConsistent /\ StoreConsistent' /\ Inv
      /\ [Next]_vars
      => Inv'
  <2> SUFFICES ASSUME EvidenceInv, StoreConsistent', Inv, [Next]_vars,
                      NEW i \in Incident, NEW h \in Handler,
                      NEW a \in Assignments(i, h)', Releases(i, h)' = {}
               PROVE  (<<i, h>> \in assigned)'
    BY DEF Assignments
  <2> USE DEF EvidenceInv, TypeOK, PhaseOK, Assignments, Releases, Goto,
              Arrive, store, caseTables, inputs
  <2>1. ASSUME NEW r \in Request, HandlersNext(r)
        PROVE  (<<i, h>> \in assigned)'
    <3>1. CASE AssignInsert(r)
      BY <3>1 DEF AssignInsert, InsertHandlers
    <3>2. CASE AssignManyInsert(r)
      BY <3>2 DEF AssignManyInsert, InsertHandlers
    <3>3. CASE DeassignDelete(r)
      BY <3>3 DEF DeassignDelete, DeleteHandler
    <3>4. CASE AssignNotify(r)
      BY <3>4 DEF AssignNotify
    <3>5. CASE AssignArrives(r) \/ AssignManyArrives(r) \/ DeassignArrives(r)
      BY <3>5 DEF AssignArrives, AssignManyArrives, DeassignArrives,
        StaffArrives
    <3> QED
      BY <2>1, <3>1, <3>2, <3>3, <3>4, <3>5 DEF HandlersNext
  <2>2. ASSUME NEW r \in Request, IncidentsNext(r)
        PROVE  (<<i, h>> \in assigned)'
    BY <2>2 DEF IncidentsNext, CreateArrives, CreateInsert, UpdateArrives,
      UpdateWrite, UploadNext, SaveRow, Audit, DeleteArrives, DeleteReadKeys,
      DeleteRow, DeleteObject, DeleteDone
  <2>3. ASSUME NEW r \in Request, AttachmentsNext(r)
        PROVE  (<<i, h>> \in assigned)'
    BY <2>3 DEF AttachmentsNext, AttachArrives, AttachStart, PutLands,
      AttachRows
  <2>4. ASSUME NEW r \in Request, MessagesNext(r)
        PROVE  (<<i, h>> \in assigned)'
    BY <2>4 DEF MessagesNext, MessageArrives, MessageInsert
  <2>5. ASSUME NEW r \in Request, IncidentAuthNext(r)
        PROVE  (<<i, h>> \in assigned)'
    BY <2>5 DEF IncidentAuthNext, LoginArrives, VerifySecret, RefreshArrives,
      Renew, Issue, Sign
  <2>6. ASSUME NEW r \in Request, Reject(r)
        PROVE  (<<i, h>> \in assigned)'
    BY <2>6 DEF Reject, Answered
  <2>7. CASE Tick \/ UNCHANGED vars
    <3>1. /\ pc' = pc /\ op' = op /\ target' = target /\ staff' = staff
          /\ assigned' = assigned
      BY <2>7 DEF Tick, vars
    <3> QED
      BY <3>1
  <2> QED
    BY <2>1, <2>2, <2>3, <2>4, <2>5, <2>6, <2>7 DEF Next, Handle
<1>3. Inv => AssignedStay
  BY DEF StoreConsistent, AssignedStay
<1> QED
  BY <1>1, <1>2, <1>3, EvidenceInvariant, StoreStaysConsistent, PTL DEF Spec

-----------------------------------------------------------------------------
(* The services implement the book of reports.                             *)

Pledged == [i \in Incident |-> IF author[i] = None THEN {} ELSE files[author[i]]]
Acked == {i \in Incident : author[i] # None /\ pc[author[i]] = "ok"}

\* A step of a request that inserted no report, or that neither answers it nor
\* changes its files, leaves what is pledged and acknowledged as it is.
LEMMA BookKept ==
  ASSUME TypeOK, NEW r \in Request, author' = author,
         \A q \in Request \ {r} : pc'[q] = pc[q] /\ files'[q] = files[q],
         \/ \A i \in Incident : author[i] # r
         \/ /\ files'[r] = files[r]
            /\ pc[r] = "ok" <=> pc'[r] = "ok"
  PROVE  Pledged' = Pledged /\ Acked' = Acked
BY DEF TypeOK, Pledged, Acked

\* Every step of the services is a step of the book of reports, or none.
LEMMA BookStep ==
  ASSUME EvidenceInv, ProgressOK, ReportsOK, StoreConsistent, TypeOK',
         [Next]_vars
  PROVE  [Book!Next]_(Book!book)
<1> DEFINE Kept == /\ Pledged' = Pledged /\ Acked' = Acked
                   /\ UNCHANGED <<life, saved, assigned>>
<1>0. Kept => [Book!Next]_(Book!book)
  BY DEF Book!book, Pledged, Acked
<1>a. \A i \in Incident : author[i] # None =>
        op[author[i]] = "create" /\ pc[author[i]] \notin {"idle", "insert"}
  BY DEF ReportsOK
<1> USE DEF EvidenceInv, TypeOK, PhaseOK, Goto, Arrive, store, incidentTable,
            evidence, caseTables, inputs
<1>1. ASSUME NEW r \in Request, CreateInsert(r)
      PROVE  [Book!Next]_(Book!book)
  <2> USE <1>1 DEF CreateInsert
  <2>1. PICK n \in Incident, c \in Code : InsertIncident(n, c, r)
    OBVIOUS
  <2>2. \A j \in Incident : author[j] # r
    BY <1>a, StoreAssumption
  <2>3. Pledged' = [Pledged EXCEPT ![n] = files[r]]
    BY <2>1, StoreAssumption DEF InsertIncident, Pledged
  <2>4. Acked' = Acked
    BY <2>1, <2>2, StoreAssumption, <1>a DEF InsertIncident, Acked, ReportsOK
  <2>5. PICK F \in SUBSET File : F = files[r]
    OBVIOUS
  <2>6. Book!Open(n, F)
    BY <2>1, <2>3, <2>4, <2>5 DEF Book!Open, InsertIncident, Pledged, Acked
  <2> QED
    BY <2>6 DEF Book!Next
<1>2. ASSUME NEW r \in Request, SaveRow(r)
      PROVE  [Book!Next]_(Book!book)
  <2> USE <1>2 DEF SaveRow
  <2>1. PICK f \in todo[r] : keyOf[f] # None /\ InsertAttachments({f}, target[r])
    OBVIOUS
  <2>2. Pledged' = Pledged /\ Acked' = Acked
    BY BookKept
  <2>3. saved[f] = None
    BY DEF RowsOK
  <2>4. target[r] \in Incident /\ {f} \in SUBSET File
    BY <2>1 DEF InsertAttachments, Live
  <2>5. Book!Add(target[r], {f})
    BY <2>1, <2>2, <2>3 DEF Book!Add, InsertAttachments, Live, Pledged, Acked
  <2> QED
    BY <2>4, <2>5 DEF Book!Next
<1>3. ASSUME NEW r \in Request, AttachRows(r)
      PROVE  [Book!Next]_(Book!book)
  <2> USE <1>3 DEF AttachRows
  <2>1. Pledged' = Pledged /\ Acked' = Acked
    BY <1>a, BookKept, StoreAssumption
  <2>2. \A f \in files[r] : saved[f] = None
    BY DEF RowsOK
  <2>3. target[r] \in Incident /\ files[r] \in SUBSET File
    BY DEF InsertAttachments, Live
  <2>4. Book!Add(target[r], files[r])
    BY <2>1, <2>2 DEF Book!Add, InsertAttachments, Live, Pledged, Acked
  <2> QED
    BY <2>3, <2>4 DEF Book!Next
<1>4. ASSUME NEW r \in Request, Audit(r)
      PROVE  [Book!Next]_(Book!book)
  <2> USE <1>4 DEF Audit
  <2>1. CASE op[r] = "update"
    BY <1>0, <1>a, <2>1, BookKept, StoreAssumption
  <2>2. CASE op[r] = "create"
    <3>1. PICK n \in Incident : n = target[r] /\ author[n] = r
      BY <2>2 DEF ReportsOK
    <3>2. \A j \in Incident : author[j] = r => j = n
      BY <3>1, StoreAssumption DEF ReportsOK
    <3>3. Pledged' = Pledged /\ Acked' = Acked \cup {n} /\ n \notin Acked
      BY <3>1, <3>2, StoreAssumption DEF Pledged, Acked
    <3>4. \/ life[n] = "live" /\ \A f \in files[r] : saved[f] = n
          \/ life[n] = "deleted"
      <4>1. life[n] # "unborn"
        BY <3>1, StoreAssumption DEF ReportsOK
      <4>2. life[n] = "live" => \A f \in files[r] : saved[f] = n
        BY <2>2, <3>1 DEF ProgressOK, Live
      <4> QED
        BY <3>1, <4>1, <4>2
    <3>5. Pledged[n] = files[r]
      BY <3>1, StoreAssumption DEF Pledged
    <3>6. life[n] = "live" => Pledged[n] \subseteq Book!Evidence(n)
      BY <3>4, <3>5 DEF Book!Evidence
    <3>7. Book!Acknowledge(n)
      BY <3>3, <3>4, <3>6 DEF Book!Acknowledge, Pledged, Acked
    <3> QED
      BY <3>7 DEF Book!Next
  <2> QED
    BY <2>1, <2>2
<1>5. ASSUME NEW r \in Request, DeleteRow(r)
      PROVE  [Book!Next]_(Book!book)
  <2> USE <1>5 DEF DeleteRow, DeleteIncidentRow
  <2>1. Pledged' = Pledged /\ Acked' = Acked
    BY <1>a, BookKept, StoreAssumption
  <2>2. Book!Discard(target[r])
    BY <2>1 DEF Book!Discard, Live, Pledged, Acked
  <2> QED
    BY <2>2 DEF Book!Next, Live
<1>6. ASSUME NEW r \in Request, AssignInsert(r) \/ AssignManyInsert(r)
      PROVE  [Book!Next]_(Book!book)
  <2> USE <1>6 DEF AssignInsert, AssignManyInsert, InsertHandlers
  <2>1. Pledged' = Pledged /\ Acked' = Acked
    BY <1>a, BookKept, StoreAssumption
  <2>2. Book!Assign(target[r], staff[r])
    BY <2>1 DEF Book!Assign, Live, Pledged, Acked
  <2> QED
    BY <2>2 DEF Book!Next, Live
<1>7. ASSUME NEW r \in Request, DeassignDelete(r)
      PROVE  [Book!Next]_(Book!book)
  <2> USE <1>7 DEF DeassignDelete, DeleteHandler
  <2>1. Pledged' = Pledged /\ Acked' = Acked
    BY <1>a, BookKept, StoreAssumption
  <2>2. PICK h \in staff[r] : DeleteHandler(target[r], h)
    OBVIOUS
  <2>3. target[r] \in Incident /\ h \in Handler /\ life[target[r]] = "live"
    BY <2>2 DEF StoreConsistent, Live
  <2>4. Book!Release(target[r], h)
    BY <2>1, <2>2, <2>3 DEF Book!Release, Pledged, Acked
  <2> QED
    BY <2>3, <2>4 DEF Book!Next
<1>8. ASSUME NEW r \in Request,
             \/ CreateArrives(r) \/ UpdateArrives(r) \/ UpdateWrite(r)
             \/ UploadNext(r) \/ DeleteArrives(r) \/ DeleteReadKeys(r)
             \/ DeleteObject(r) \/ DeleteDone(r)
      PROVE  Kept
  BY <1>8, <1>a, BookKept, StoreAssumption DEF CreateArrives, UpdateArrives,
    UpdateWrite, UploadNext, DeleteArrives, DeleteReadKeys, DeleteObject,
    DeleteDone
<1>9. ASSUME NEW r \in Request,
             AttachArrives(r) \/ AttachStart(r) \/ PutLands(r)
      PROVE  Kept
  BY <1>9, <1>a, BookKept, StoreAssumption DEF AttachArrives, AttachStart,
    PutLands
<1>10. ASSUME NEW r \in Request,
              \/ AssignArrives(r) \/ AssignNotify(r) \/ AssignManyArrives(r)
              \/ DeassignArrives(r) \/ MessagesNext(r) \/ IncidentAuthNext(r)
       PROVE  Kept
  BY <1>10, <1>a, BookKept, StoreAssumption DEF StaffArrives, AssignArrives,
    AssignNotify, AssignManyArrives, DeassignArrives, MessagesNext,
    MessageArrives, MessageInsert, InsertMessage, IncidentAuthNext,
    LoginArrives, VerifySecret, RefreshArrives, Renew, Issue, Sign
<1>11. ASSUME NEW r \in Request, Reject(r)
       PROVE  Kept
  BY <1>11, BookKept DEF Reject, Answered
<1>12. CASE Tick \/ UNCHANGED vars
  <2>1. Kept
    BY <1>12 DEF Tick, vars, Pledged, Acked
  <2> QED
    BY <2>1, <1>0
<1> QED
  BY <1>0, <1>1, <1>2, <1>3, <1>4, <1>5, <1>6, <1>7, <1>8, <1>9, <1>10,
     <1>11, <1>12
  DEF Next, Handle, IncidentsNext, AttachmentsNext, HandlersNext

\* The services, with their tables, objects and concurrent requests, do nothing
\* to a report that the book of reports does not allow.
THEOREM ServicesKeepTheBook == Spec => BookSpec
<1>1. Init => Book!Init
  BY StoreAssumption DEF Init, Book!Init
<1>2. /\ EvidenceInv /\ EvidenceInv' /\ ProgressOK /\ ReportsOK
      /\ StoreConsistent /\ [Next]_vars
      => [Book!Next]_(Book!book)
  BY BookStep DEF EvidenceInv
<1> QED
  BY <1>1, <1>2, EvidenceInvariant, ReportsInvariant, StoreStaysConsistent, PTL
  DEF Spec, BookSpec, Book!Spec
=============================================================================

---------------------------- MODULE ReporterProofs ----------------------------
(***************************************************************************)
(* A theorem about ReporterSystem, for every choice of its constants.      *)
(***************************************************************************)
EXTENDS CaseProofs, ReporterSystem

\* Who asks for tokens presents the codes or the token of a report that was
\* answered.
AskersOK ==
  \A r \in Request :
    pc[r] # "idle" /\ op[r] \in {"login", "refresh"} => cred[r] \in Reports

\* A late request is a failed one, or has yet to read the report that is gone.
LateOK ==
  late \subseteq {r \in Request :
    /\ op[r] \in {"login", "refresh"}
    /\ pc[r] \in {"verify", "renew", "issue", "failed"}
    /\ life[OwnReport(r)] = "deleted"}

LateInv == EvidenceInv /\ ProgressOK /\ ReportsOK /\ AskersOK

\* A report that was answered keeps its incident, its codes and its answer.
LEMMA ReportsStay ==
  ASSUME TypeOK, PhaseOK, [Next]_vars, NEW q \in Reports
  PROVE  q \in Reports' /\ target'[q] = target[q]
<1> USE DEF TypeOK, PhaseOK, Reports, Goto, Arrive, store, inputs
<1>1. ASSUME NEW r \in Request, IncidentsNext(r)
      PROVE  q \in Reports' /\ target'[q] = target[q]
  BY <1>1 DEF IncidentsNext, CreateArrives, CreateInsert, UpdateArrives,
    UpdateWrite, UploadNext, SaveRow, Audit, DeleteArrives, DeleteReadKeys,
    DeleteRow, DeleteObject, DeleteDone
<1>2. ASSUME NEW r \in Request, AttachmentsNext(r)
      PROVE  q \in Reports' /\ target'[q] = target[q]
  BY <1>2 DEF AttachmentsNext, AttachArrives, AttachStart, PutLands, AttachRows
<1>3. ASSUME NEW r \in Request, HandlersNext(r) \/ MessagesNext(r)
      PROVE  q \in Reports' /\ target'[q] = target[q]
  BY <1>3 DEF HandlersNext, StaffArrives, AssignArrives, AssignInsert,
    AssignNotify, AssignManyArrives, AssignManyInsert, DeassignArrives,
    DeassignDelete, MessagesNext, MessageArrives, MessageInsert
<1>4. ASSUME NEW r \in Request, IncidentAuthNext(r)
      PROVE  q \in Reports' /\ target'[q] = target[q]
  BY <1>4 DEF IncidentAuthNext, LoginArrives, VerifySecret, RefreshArrives,
    Renew, Issue, Sign
<1>5. ASSUME NEW r \in Request, Reject(r)
      PROVE  q \in Reports' /\ target'[q] = target[q]
  BY <1>5 DEF Reject, Answered
<1>6. CASE Tick \/ UNCHANGED vars
  BY <1>6 DEF Tick, vars
<1> QED
  BY <1>1, <1>2, <1>3, <1>4, <1>5, <1>6 DEF Next, Handle

\* Only IncidentAuthService changes whose codes a request presents.
LEMMA CredentialsStay ==
  ASSUME TypeOK, [Next]_vars, NEW r \in Request, pc[r] # "idle"
  PROVE  cred'[r] = cred[r] /\ op'[r] = op[r] /\ pc'[r] # "idle"
<1> USE DEF TypeOK, Goto, Arrive, Answered, store, inputs
<1>1. ASSUME NEW q \in Request, IncidentsNext(q) \/ AttachmentsNext(q)
      PROVE  cred'[r] = cred[r] /\ op'[r] = op[r] /\ pc'[r] # "idle"
  BY <1>1 DEF IncidentsNext, CreateArrives, CreateInsert, UpdateArrives,
    UpdateWrite, UploadNext, SaveRow, Audit, DeleteArrives, DeleteReadKeys,
    DeleteRow, DeleteObject, DeleteDone, AttachmentsNext, AttachArrives,
    AttachStart, PutLands, AttachRows
<1>2. ASSUME NEW q \in Request, HandlersNext(q) \/ MessagesNext(q)
      PROVE  cred'[r] = cred[r] /\ op'[r] = op[r] /\ pc'[r] # "idle"
  BY <1>2 DEF HandlersNext, StaffArrives, AssignArrives, AssignInsert,
    AssignNotify, AssignManyArrives, AssignManyInsert, DeassignArrives,
    DeassignDelete, MessagesNext, MessageArrives, MessageInsert
<1>3. ASSUME NEW q \in Request, IncidentAuthNext(q) \/ Reject(q)
      PROVE  cred'[r] = cred[r] /\ op'[r] = op[r] /\ pc'[r] # "idle"
  BY <1>3 DEF IncidentAuthNext, LoginArrives, VerifySecret, RefreshArrives,
    Renew, Issue, Sign, Reject
<1>4. CASE Tick \/ UNCHANGED vars
  BY <1>4 DEF Tick, vars
<1> QED
  BY <1>1, <1>2, <1>3, <1>4 DEF Next, Handle

\* Every step keeps who asks.
LEMMA AskersStep ==
  ASSUME LateInv, [Next]_vars
  PROVE  AskersOK'
<1> SUFFICES ASSUME NEW r \in Request,
                    pc'[r] # "idle", op'[r] \in {"login", "refresh"}
             PROVE  cred'[r] \in Reports'
  BY DEF AskersOK
<1>1. CASE pc[r] # "idle"
  BY <1>1, CredentialsStay, ReportsStay DEF LateInv, EvidenceInv, AskersOK
<1>2. CASE pc[r] = "idle"
  <2> USE DEF LateInv, EvidenceInv, TypeOK, Goto, Arrive, Answered
  <2>1. LoginArrives(r) \/ RefreshArrives(r)
    BY <1>2 DEF Next, Handle, vars, Tick, Reject,
      IncidentsNext, CreateArrives, CreateInsert, UpdateArrives, UpdateWrite,
      UploadNext, SaveRow, Audit, DeleteArrives, DeleteReadKeys, DeleteRow,
      DeleteObject, DeleteDone, AttachmentsNext, AttachArrives, AttachStart,
      PutLands, AttachRows, HandlersNext, StaffArrives, AssignArrives,
      AssignInsert, AssignNotify, AssignManyArrives, AssignManyInsert,
      DeassignArrives, DeassignDelete, MessagesNext, MessageArrives,
      MessageInsert, IncidentAuthNext, LoginArrives, VerifySecret,
      RefreshArrives, Renew, Issue, Sign
  <2>2. cred'[r] \in Reports
    BY <1>2, <2>1 DEF LoginArrives, RefreshArrives, Sessions, AskersOK
  <2> QED
    BY <2>2, ReportsStay
<1> QED
  BY <1>1, <1>2

\* A report that is gone stays gone.
LEMMA GoneForGood ==
  ASSUME TypeOK, [Next]_vars, NEW i \in Incident, life[i] = "deleted"
  PROVE  life'[i] = "deleted"
<1> USE DEF TypeOK, store, incidentTable
<1>1. ASSUME NEW r \in Request, IncidentsNext(r)
      PROVE  life'[i] = "deleted"
  BY <1>1 DEF IncidentsNext, CreateArrives, CreateInsert, InsertIncident,
    UpdateArrives, UpdateWrite, UploadNext, SaveRow, Audit, DeleteArrives,
    DeleteReadKeys, DeleteRow, DeleteIncidentRow, DeleteObject, DeleteDone
<1>2. ASSUME NEW r \in Request, Handle(r), ~IncidentsNext(r)
      PROVE  life'[i] = "deleted"
  BY <1>2 DEF Handle, AttachmentsNext, AttachArrives, AttachStart, PutLands,
    AttachRows, HandlersNext, StaffArrives, AssignArrives, AssignInsert,
    AssignNotify, AssignManyArrives, AssignManyInsert, DeassignArrives,
    DeassignDelete, MessagesNext, MessageArrives, MessageInsert,
    IncidentAuthNext, LoginArrives, VerifySecret, RefreshArrives, Renew,
    Issue, Sign
<1>3. ASSUME NEW r \in Request, Reject(r)
      PROVE  life'[i] = "deleted"
  BY <1>3 DEF Reject
<1>4. CASE Tick \/ UNCHANGED vars
  BY <1>4 DEF Tick, vars
<1> QED
  BY <1>1, <1>2, <1>3, <1>4 DEF Next

\* A late request does not get past the reads: the incident it looks for is the
\* one its codes were given for, and no other has its secret.
LEMMA LateRead ==
  ASSUME LateInv, LateOK, NEW r \in late, [Next]_vars
  PROVE  pc'[r] \in {"verify", "renew", "issue", "failed"}
<1> USE DEF LateInv, EvidenceInv, TypeOK, PhaseOK, LateOK, OwnReport, Goto,
            Arrive, Answered
<1>1. ASSUME NEW q \in Request, q # r, Handle(q) \/ Reject(q)
      PROVE  pc'[r] = pc[r]
  <2>1. CASE Reject(q)
    BY <1>1, <2>1 DEF Reject
  <2>2. CASE IncidentsNext(q) \/ AttachmentsNext(q)
    BY <1>1, <2>2 DEF IncidentsNext, CreateArrives, CreateInsert,
      UpdateArrives, UpdateWrite, UploadNext, SaveRow, Audit, DeleteArrives,
      DeleteReadKeys, DeleteRow, DeleteObject, DeleteDone, AttachmentsNext,
      AttachArrives, AttachStart, PutLands, AttachRows
  <2>3. CASE HandlersNext(q) \/ MessagesNext(q) \/ IncidentAuthNext(q)
    BY <1>1, <2>3 DEF HandlersNext, StaffArrives, AssignArrives, AssignInsert,
      AssignNotify, AssignManyArrives, AssignManyInsert, DeassignArrives,
      DeassignDelete, MessagesNext, MessageArrives, MessageInsert,
      IncidentAuthNext, LoginArrives, VerifySecret, RefreshArrives, Renew,
      Issue, Sign
  <2> QED
    BY <1>1, <2>1, <2>2, <2>3 DEF Handle
<1>2. CASE IncidentsNext(r) \/ AttachmentsNext(r)
  BY <1>2 DEF IncidentsNext, CreateArrives, CreateInsert,
    UpdateArrives, UpdateWrite, UploadNext, SaveRow, Audit, DeleteArrives,
    DeleteReadKeys, DeleteRow, DeleteObject, DeleteDone, AttachmentsNext,
    AttachArrives, AttachStart, PutLands, AttachRows
<1>3. CASE HandlersNext(r) \/ MessagesNext(r)
  BY <1>3 DEF HandlersNext, StaffArrives, AssignArrives, AssignInsert,
    AssignNotify, AssignManyArrives, AssignManyInsert, DeassignArrives,
    DeassignDelete, MessagesNext, MessageArrives, MessageInsert
<1>4. CASE IncidentAuthNext(r)
  <2>1. cred[r] \in Request /\ target[cred[r]] \in Incident
    BY DEF AskersOK, Reports, ReportsOK
  <2>2. \A i \in Incident : author[i] = cred[r] => ~Live(i)
    BY <2>1 DEF ReportsOK, Live
  <2>3. ~VerifySecret(r)
    BY <2>2 DEF VerifySecret
  <2>4. ~Issue(r)
    BY <2>2 DEF Issue, ReportsOK, Live
  <2>5. ~LoginArrives(r) /\ ~RefreshArrives(r) /\ ~Sign(r)
    BY DEF LoginArrives, RefreshArrives, Sign
  <2>6. Renew(r)
    BY <1>4, <2>3, <2>4, <2>5 DEF IncidentAuthNext
  <2> QED
    BY <2>6 DEF Renew
<1>5. CASE Reject(r)
  BY <1>5 DEF Reject
<1>6. CASE Tick \/ UNCHANGED vars
  BY <1>6 DEF Tick, vars
<1>7. r \in Request /\ pc[r] \in {"verify", "renew", "issue", "failed"}
  BY DEF LateOK
<1>8. CASE \E q \in Request \ {r} : Handle(q) \/ Reject(q)
  BY <1>1, <1>7, <1>8
<1>9. CASE Handle(r)
  BY <1>2, <1>3, <1>4, <1>9 DEF Handle
<1> HIDE DEF LateInv, EvidenceInv, TypeOK, PhaseOK, LateOK, Goto, Arrive
<1> QED
  BY <1>5, <1>6, <1>7, <1>8, <1>9 DEF Next

\* Every step keeps late requests from the tokens.
LEMMA LateStep ==
  ASSUME LateInv, LateInv', LateOK, [Next /\ Notice]_<<vars, late>>
  PROVE  LateOK'
<1>0. [Next]_vars
  BY DEF vars
<1>1. late' \subseteq late \cup {r \in Asking' : ~Live(OwnReport(r))'}
  BY DEF Notice
<1>2. ASSUME NEW r \in Asking', ~Live(OwnReport(r))'
      PROVE  /\ r \in Request /\ op'[r] \in {"login", "refresh"}
             /\ pc'[r] \in {"verify", "renew", "issue", "failed"}
             /\ life'[target'[cred'[r]]] = "deleted"
  <2>1. /\ r \in Request /\ op'[r] \in {"login", "refresh"}
        /\ pc'[r] \in {"verify", "renew", "issue"}
    BY <1>2 DEF Asking, LateInv, EvidenceInv, PhaseOK
  <2>2. cred'[r] \in Reports'
    BY <2>1 DEF LateInv, AskersOK
  <2>3. target'[cred'[r]] \in Incident /\ life'[target'[cred'[r]]] # "unborn"
    <3>1. /\ target'[cred'[r]] # None /\ cred'[r] \in Request
          /\ author'[target'[cred'[r]]] = cred'[r]
      BY <2>2 DEF LateInv, ReportsOK, Reports
    <3>2. target'[cred'[r]] \in Incident
      BY <3>1 DEF LateInv, EvidenceInv, TypeOK
    <3> QED
      BY <3>1, <3>2, StoreAssumption DEF LateInv, ReportsOK
  <2> QED
    BY <1>2, <2>1, <2>3 DEF Live, OwnReport, LateInv, EvidenceInv, TypeOK
<1>3. ASSUME NEW r \in late
      PROVE  /\ r \in Request /\ op'[r] \in {"login", "refresh"}
             /\ pc'[r] \in {"verify", "renew", "issue", "failed"}
             /\ life'[target'[cred'[r]]] = "deleted"
  <2>1. /\ r \in Request /\ op[r] \in {"login", "refresh"} /\ pc[r] # "idle"
        /\ life[target[cred[r]]] = "deleted"
    BY <1>3 DEF LateOK, OwnReport
  <2>2. cred[r] \in Reports
    BY <2>1 DEF LateInv, AskersOK
  <2>3. target[cred[r]] \in Incident
    BY <2>2 DEF LateInv, ReportsOK, Reports, EvidenceInv, TypeOK
  <2>4. target'[cred'[r]] = target[cred[r]] /\ op'[r] = op[r]
    BY <1>0, <2>1, <2>2, CredentialsStay, ReportsStay DEF LateInv, EvidenceInv
  <2>5. life'[target[cred[r]]] = "deleted"
    BY <1>0, <2>1, <2>3, GoneForGood DEF LateInv, EvidenceInv
  <2>6. pc'[r] \in {"verify", "renew", "issue", "failed"}
    BY <1>0, LateRead
  <2> QED
    BY <2>1, <2>4, <2>5, <2>6
<1> QED
  BY <1>1, <1>2, <1>3 DEF LateOK, OwnReport

\* Tokens are given out for reports that exist when login reads them, and only
\* for the report the codes were given for: a reporter whose report is deleted
\* in the middle of a login or a refresh is turned away, unless the deletion
\* falls into the signing, and so is one whose display code was given out
\* again.
THEOREM LateReportersGetNothing == ReporterSpec => []LateGetNoTokens
<1>1. Init /\ late = {} => AskersOK /\ LateOK
  BY StoreAssumption DEF Init, AskersOK, LateOK
<1>2. ReporterSpec => Spec
  <2>1. [Next /\ Notice]_<<vars, late>> => [Next]_vars
    BY DEF vars
  <2> QED
    BY <2>1, PTL DEF ReporterSpec, Spec
<1>3. /\ EvidenceInv /\ ProgressOK /\ ReportsOK /\ AskersOK
      /\ [Next /\ Notice]_<<vars, late>>
      => AskersOK'
  BY AskersStep DEF LateInv, vars
<1>4. /\ EvidenceInv /\ ProgressOK /\ ReportsOK /\ AskersOK
      /\ EvidenceInv' /\ ProgressOK' /\ ReportsOK' /\ AskersOK'
      /\ LateOK /\ [Next /\ Notice]_<<vars, late>>
      => LateOK'
  BY LateStep DEF LateInv
<1>5. LateOK => LateGetNoTokens
  BY DEF LateOK, LateGetNoTokens, Sessions
<1> QED
  BY <1>1, <1>2, <1>3, <1>4, <1>5, ReportsInvariant, PTL DEF ReporterSpec
=============================================================================

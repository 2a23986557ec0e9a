--------------------------- MODULE AssignmentProofs ---------------------------
(***************************************************************************)
(* How often a handler is put on a report: counting needs the theorems on  *)
(* finite sets, and nothing else of CaseProofs does.                       *)
(***************************************************************************)
EXTENDS CaseProofs, FiniteSetTheorems

\* The four ways in which a step may change the tally.
LEMMA TallyStep ==
  ASSUME NEW i, NEW h, NEW r, TallyOK(i, h),
         \/ /\ Assignments(i, h)' = Assignments(i, h)
            /\ Releases(i, h)' = Releases(i, h)
            /\ <<i, h>> \in assigned' <=> <<i, h>> \in assigned
         \/ /\ Assignments(i, h)' = Assignments(i, h) \ {r}
            /\ Releases(i, h)' = Releases(i, h)
            /\ <<i, h>> \in assigned' <=> <<i, h>> \in assigned
         \/ /\ Assignments(i, h)' = Assignments(i, h) \cup {r}
            /\ Releases(i, h)' = Releases(i, h)
            /\ <<i, h>> \notin assigned /\ <<i, h>> \in assigned'
         \/ /\ Assignments(i, h)' = Assignments(i, h)
            /\ Releases(i, h)' = Releases(i, h) \cup {r}
            /\ r \notin Releases(i, h)
  PROVE  TallyOK(i, h)'
<1> DEFINE A == Assignments(i, h)
           R == Releases(i, h)
<1>1. Cardinality(A) \in Nat /\ Cardinality(R) \in Nat
  BY FS_CardinalityType DEF TallyOK
<1>a. IsFiniteSet(A) /\ IsFiniteSet(R)
  BY DEF TallyOK
<1> HIDE DEF A, R
<1>2. /\ IsFiniteSet(A \ {r}) /\ Cardinality(A \ {r}) <= Cardinality(A)
  <2>1. /\ IsFiniteSet(A \ {r})
        /\ Cardinality(A \ {r}) = IF r \in A THEN Cardinality(A) - 1
                                             ELSE Cardinality(A)
    BY <1>a, FS_RemoveElement
  <2> QED
    BY <1>1, <2>1
<1>b. IsFiniteSet(A \cup {r}) /\ Cardinality(A \cup {r}) <= Cardinality(A) + 1
  <2>1. /\ IsFiniteSet(A \cup {r})
        /\ Cardinality(A \cup {r}) = IF r \in A THEN Cardinality(A)
                                               ELSE Cardinality(A) + 1
    BY <1>a, FS_AddElement
  <2> QED
    BY <1>1, <2>1
<1>3. /\ IsFiniteSet(R \cup {r})
      /\ r \notin R => Cardinality(R \cup {r}) = Cardinality(R) + 1
  BY <1>a, <1>1, FS_AddElement
<1>4. Cardinality(A \ {r}) \in Nat /\ Cardinality(A \cup {r}) \in Nat
  BY <1>2, <1>b, FS_CardinalityType
<1> QED
  BY <1>1, <1>2, <1>3, <1>4, <1>b DEF TallyOK, A, R

\* Of the requests that put a handler on a report, one by one or in bulk, one
\* succeeds for each time the handler is off, whatever overlaps.
THEOREM AssignmentsAreUnique == Spec => []AssignedOnce
<1> DEFINE Inv == \A i \in Incident, h \in Handler : TallyOK(i, h)
<1>1. Init => Inv
  <2> SUFFICES ASSUME Init, NEW i \in Incident, NEW h \in Handler
               PROVE  TallyOK(i, h)
    OBVIOUS
  <2>1. Assignments(i, h) = {} /\ Releases(i, h) = {}
    BY DEF Init, Assignments, Releases
  <2>2. assigned = {}
    BY DEF Init
  <2> QED
    BY <2>1, <2>2, FS_EmptySet DEF TallyOK
<1>2. EvidenceInv /\ Inv /\ [Next]_vars => Inv'
  <2> SUFFICES ASSUME EvidenceInv, Inv, [Next]_vars,
                      NEW i \in Incident, NEW h \in Handler
               PROVE  TallyOK(i, h)'
    OBVIOUS
  <2> DEFINE Same == /\ Assignments(i, h)' = Assignments(i, h)
                     /\ Releases(i, h)' = Releases(i, h)
                     /\ <<i, h>> \in assigned' <=> <<i, h>> \in assigned
             Goal == TallyOK(i, h)'
  <2>0. Same => Goal
    BY TallyStep
  <2> USE DEF EvidenceInv, TypeOK, PhaseOK, Assignments, Releases, Goto,
              Arrive, store, caseTables, inputs
  <2>1. ASSUME NEW r \in Request, AssignInsert(r) \/ AssignManyInsert(r)
        PROVE  Goal
    <3>1. /\ op' = op /\ target' = target /\ staff' = staff
          /\ \A q \in Request \ {r} : pc'[q] = pc[q]
          /\ pc[r] \notin {"notify", "ok"} /\ pc'[r] \in {"notify", "ok"}
          /\ op[r] \in {"assign", "assignMany"}
          /\ \A g \in staff[r] : <<target[r], g>> \notin assigned
          /\ assigned' = assigned \cup ({target[r]} \X staff[r])
      BY <2>1 DEF AssignInsert, AssignManyInsert, InsertHandlers
    <3>2. CASE target[r] = i /\ h \in staff[r]
      <4>1. Assignments(i, h)' = Assignments(i, h) \cup {r}
        BY <3>1, <3>2
      <4>2. Releases(i, h)' = Releases(i, h)
        BY <3>1, <3>2
      <4>3. <<i, h>> \notin assigned /\ <<i, h>> \in assigned'
        BY <3>1, <3>2
      <4> QED
        BY <4>1, <4>2, <4>3, TallyStep
    <3>3. CASE ~(target[r] = i /\ h \in staff[r])
      BY <2>0, <3>1, <3>3
    <3> QED
      BY <3>2, <3>3
  <2>2. ASSUME NEW r \in Request, DeassignDelete(r)
        PROVE  Goal
    <3>1. PICK g \in staff[r] : DeleteHandler(target[r], g)
      BY <2>2 DEF DeassignDelete
    <3>2. /\ op' = op /\ target' = target /\ staff' = staff
          /\ \A q \in Request \ {r} : pc'[q] = pc[q]
          /\ pc[r] = "deassign" /\ pc'[r] = "ok" /\ op[r] = "deassign"
          /\ assigned' = assigned \ {<<target[r], g>>}
      BY <2>2, <3>1 DEF DeassignDelete, DeleteHandler
    <3>3. Assignments(i, h)' = Assignments(i, h)
      BY <3>2
    <3>4. CASE target[r] = i /\ h \in staff[r]
      <4>1. /\ Releases(i, h)' = Releases(i, h) \cup {r}
            /\ r \notin Releases(i, h)
        BY <3>2, <3>4
      <4> QED
        BY <3>3, <4>1, TallyStep
    <3>5. CASE ~(target[r] = i /\ h \in staff[r])
      BY <2>0, <3>1, <3>2, <3>3, <3>5
    <3> QED
      BY <3>4, <3>5
  <2>3. ASSUME NEW r \in Request, Reject(r)
        PROVE  Goal
    <3>1. /\ op' = op /\ target' = target /\ staff' = staff
          /\ \A q \in Request \ {r} : pc'[q] = pc[q]
          /\ pc[r] # "ok" /\ pc'[r] = "failed" /\ assigned' = assigned
      BY <2>3 DEF Reject, Answered
    <3>2. Assignments(i, h)' = Assignments(i, h) \ {r}
      BY <3>1
    <3>3. Releases(i, h)' = Releases(i, h)
      BY <3>1
    <3> QED
      BY <3>1, <3>2, <3>3, TallyStep
  <2>4. ASSUME NEW r \in Request, AssignNotify(r)
        PROVE  Same
    BY <2>4 DEF AssignNotify
  <2>5. ASSUME NEW r \in Request,
               AssignArrives(r) \/ AssignManyArrives(r) \/ DeassignArrives(r)
        PROVE  Same
    <3>1. /\ pc[r] = "idle"
          /\ pc'[r] \in {"assign", "assignMany", "deassign"}
          /\ \A q \in Request \ {r} :
               /\ pc'[q] = pc[q] /\ op'[q] = op[q]
               /\ target'[q] = target[q] /\ staff'[q] = staff[q]
          /\ assigned' = assigned
      BY <2>5 DEF AssignArrives, AssignManyArrives, DeassignArrives,
        StaffArrives
    <3> QED
      BY <3>1
  <2>6. ASSUME NEW r \in Request, IncidentsNext(r)
        PROVE  Same
    BY <2>6 DEF IncidentsNext, CreateArrives, CreateInsert, UpdateArrives,
      UpdateWrite, UploadNext, SaveRow, Audit, DeleteArrives, DeleteReadKeys,
      DeleteRow, DeleteObject, DeleteDone
  <2>7. ASSUME NEW r \in Request, AttachmentsNext(r)
        PROVE  Same
    BY <2>7 DEF AttachmentsNext, AttachArrives, AttachStart, PutLands,
      AttachRows
  <2>8. ASSUME NEW r \in Request, MessagesNext(r) \/ IncidentAuthNext(r)
        PROVE  Same
    BY <2>8 DEF MessagesNext, MessageArrives, MessageInsert, IncidentAuthNext,
      LoginArrives, VerifySecret, RefreshArrives, Renew, Issue, Sign
  <2>9. CASE Tick \/ UNCHANGED vars
    <3>1. /\ pc' = pc /\ op' = op /\ target' = target /\ staff' = staff
          /\ assigned' = assigned
      BY <2>9 DEF Tick, vars
    <3> QED
      BY <2>0, <3>1
  <2> QED
    BY <2>0, <2>1, <2>2, <2>3, <2>4, <2>5, <2>6, <2>7, <2>8, <2>9
    DEF Next, Handle, HandlersNext
<1>3. Inv => AssignedOnce
  <2> SUFFICES ASSUME NEW i \in Incident, NEW h \in Handler, TallyOK(i, h)
               PROVE  Cardinality(Assignments(i, h))
                        <= Cardinality(Releases(i, h)) + 1
    BY DEF AssignedOnce
  <2>1. /\ Cardinality(Assignments(i, h)) \in Nat
        /\ Cardinality(Releases(i, h)) \in Nat
    BY FS_CardinalityType DEF TallyOK
  <2> QED
    BY <2>1 DEF TallyOK
<1> QED
  BY <1>1, <1>2, <1>3, EvidenceInvariant, PTL DEF Spec
=============================================================================

--------------------------- MODULE DirectoryProofs ---------------------------
(***************************************************************************)
(* Theorems about DirectorySystem, for every choice of its constants.      *)
(***************************************************************************)
EXTENDS DirectoryInvariant, TLAPS

-----------------------------------------------------------------------------
(* What the statements on categories write.                                *)

\* What an update of categories writes.
LEMMA Updated ==
  ASSUME NEW c, NEW F, UpdateCategories(c, F)
  PROVE  /\ \A k \in DOMAIN F : label[k] # None
         /\ label' = [k \in Category |->
                        IF k \in DOMAIN F THEN F[k] ELSE label[k]]
         /\ owner' = [k \in Category |-> IF k \in DOMAIN F THEN c ELSE owner[k]]
BY DEF UpdateCategories

\* What an insertion of categories writes.
LEMMA Inserted ==
  ASSUME NEW c, NEW F, InsertCategories(c, F)
  PROVE  /\ c \in Company
         /\ label' = [k \in Category |->
                        IF k \in DOMAIN F THEN F[k] ELSE label[k]]
         /\ owner' = [k \in Category |-> IF k \in DOMAIN F THEN c ELSE owner[k]]
BY DEF InsertCategories, Exists

\* Rows whose labels are written are rows of a company, and no other row
\* changes.
LabelsWritten(c, F) ==
  /\ owner' \in [Category -> Company \cup {None}]
  /\ label' \in [Category -> Label \cup {None}]
  /\ \A k \in Category : label'[k] = None <=> owner'[k] = None
  /\ \A k \in Category : label[k] # None => label'[k] # None
  /\ \A k \in DOMAIN F \cap Category : label'[k] # None

\* Both write labels to rows of a company.
LEMMA Written ==
  ASSUME TypeOK, LabelsOK, NEW c \in Company, NEW F,
         UpdateCategories(c, F) \/ InsertCategories(c, F),
         \A k \in DOMAIN F : F[k] \in Label
  PROVE  LabelsWritten(c, F)
<1>1. /\ label' = [k \in Category |->
                     IF k \in DOMAIN F THEN F[k] ELSE label[k]]
      /\ owner' = [k \in Category |-> IF k \in DOMAIN F THEN c ELSE owner[k]]
  BY Updated, Inserted
<1> QED
  BY <1>1, DirectoryAssumption DEF LabelsWritten, TypeOK, LabelsOK

\* The same for the statements of the handlers.
LEMMA CategorySteps ==
  ASSUME DirectoryInv, NEW r \in Request
  PROVE  /\ Add(r) => /\ item'[r] \in Category
                      /\ item' = [item EXCEPT ![r] = item'[r]]
                      /\ LabelsWritten(target[r], [j \in {item'[r]} |-> given[r]])
         /\ CreateDefault(r) =>
              \E k \in Category : LabelsWritten(target[r], [j \in {k} |-> Default])
         /\ Rename(r) =>
              LabelsWritten(target[r], [k \in {item[r]} |-> given[r]])
         /\ EditUpdate(r) =>
              LabelsWritten(target[r], [k \in Sent(r) \cap known[r] |-> list[r][k]])
         /\ EditInsert(r) =>
              LabelsWritten(target[r], [k \in Sent(r) \ known[r] |-> list[r][k]])
<1> USE DEF DirectoryInv, InputsOK, Goto
<1>1. ASSUME Add(r)
      PROVE  /\ item'[r] \in Category
             /\ item' = [item EXCEPT ![r] = item'[r]]
             /\ LabelsWritten(target[r], [j \in {item'[r]} |-> given[r]])
  <2>1. /\ pc[r] = "add"
        /\ \E k \in Category :
             /\ InsertCategories(target[r], [j \in {k} |-> given[r]])
             /\ item' = [item EXCEPT ![r] = k]
    BY <1>1 DEF Add
  <2>2. target[r] \in Company /\ given[r] \in Label
    BY <2>1
  <2>3. PICK k \in Category :
          /\ InsertCategories(target[r], [j \in {k} |-> given[r]])
          /\ item' = [item EXCEPT ![r] = k]
    BY <2>1
  <2>4. item'[r] = k
    BY <2>3 DEF TypeOK
  <2>5. LabelsWritten(target[r], [j \in {k} |-> given[r]])
    BY <2>2, <2>3, Written
  <2> QED
    BY <2>3, <2>4, <2>5
<1>2. ASSUME CreateDefault(r)
      PROVE  \E k \in Category : LabelsWritten(target[r], [j \in {k} |-> Default])
  <2>1. pc[r] = "default"
    BY <1>2 DEF CreateDefault
  <2>2. PICK k \in Category : InsertCategories(target[r], [j \in {k} |-> Default])
    BY <1>2 DEF CreateDefault
  <2>3. LabelsWritten(target[r], [j \in {k} |-> Default])
    BY <2>1, <2>2, Written, DirectoryAssumption
  <2> QED
    BY <2>3
<1>3. ASSUME Rename(r)
      PROVE  LabelsWritten(target[r], [k \in {item[r]} |-> given[r]])
  <2>1. /\ pc[r] = "rename"
        /\ UpdateCategories(target[r], [k \in {item[r]} |-> given[r]])
    BY <1>3 DEF Rename
  <2> QED
    BY <2>1, Written
<1>4. ASSUME EditUpdate(r)
      PROVE  LabelsWritten(target[r], [k \in Sent(r) \cap known[r] |-> list[r][k]])
  <2>1. /\ pc[r] = "update"
        /\ UpdateCategories(target[r], [k \in Sent(r) \cap known[r] |-> list[r][k]])
    BY <1>4 DEF EditUpdate
  <2>2. \A k \in Sent(r) : list[r][k] \in Label
    BY DEF Sent, TypeOK
  <2> QED
    BY <2>1, <2>2, Written
<1>5. ASSUME EditInsert(r)
      PROVE  LabelsWritten(target[r], [k \in Sent(r) \ known[r] |-> list[r][k]])
  <2>1. /\ pc[r] = "insert"
        /\ InsertCategories(target[r], [k \in Sent(r) \ known[r] |-> list[r][k]])
    BY <1>5 DEF EditInsert
  <2>2. \A k \in Sent(r) : list[r][k] \in Label
    BY DEF Sent, TypeOK
  <2> QED
    BY <2>1, <2>2, Written
<1> QED
  BY <1>1, <1>2, <1>3, <1>4, <1>5

-----------------------------------------------------------------------------
(* The inductive invariant.                                                *)

\* The steps of CompaniesService keep the types.
LEMMA CompaniesType ==
  ASSUME DirectoryInv, NEW r \in Request, CompaniesNext(r)
  PROVE  TypeOK'
<1> USE DirectoryAssumption
    DEF DirectoryInv, TypeOK, InputsOK, Goto, Arrive, Step, companies,
        categories, store, inputs, reads
<1>1. CASE CreateArrives(r)
  BY <1>1 DEF CreateArrives
<1>2. CASE CreateInsert(r)
  BY <1>2 DEF CreateInsert, InsertCompany
<1>3. CASE CreatePage(r)
  BY <1>3 DEF CreatePage, InsertPage, Exists
<1>4. CASE CreateDefault(r)
  <2>1. /\ label' \in [Category -> Label \cup {None}]
        /\ owner' \in [Category -> Company \cup {None}]
    BY <1>4, CategorySteps DEF LabelsWritten
  <2> QED
    BY <1>4, <2>1 DEF CreateDefault
<1>5. CASE MembersArrive(r)
  BY <1>5 DEF MembersArrive
<1>6. CASE MembersConnect(r)
  BY <1>6 DEF MembersConnect
<1>7. CASE AddPageArrives(r)
  BY <1>7 DEF AddPageArrives
<1>8. CASE AddPageKnown(r)
  BY <1>8 DEF AddPageKnown
<1>9. CASE AddPageFind(r)
  BY <1>9 DEF AddPageFind
<1>10. CASE AddPage(r)
  BY <1>10 DEF AddPage, InsertPage, Exists
<1>11. CASE SetPageArrives(r)
  BY <1>11 DEF SetPageArrives
<1>12. CASE SetPage(r)
  BY <1>12 DEF SetPage, UpdatePage
<1>13. CASE UpdateArrives(r)
  BY <1>13 DEF UpdateArrives
<1>14. CASE UpdateRead(r)
  BY <1>14 DEF UpdateRead
<1>15. CASE UpdateUnlink(r)
  BY <1>15 DEF UpdateUnlink
<1>16. CASE UpdateUpload(r)
  <2>1. now' \in Key
    BY <1>16 DEF UpdateUpload, Key
  <2> QED
    BY <1>16, <2>1 DEF UpdateUpload
<1>17. CASE UpdateSave(r)
  <2>1. pc[r] = "save" /\ pc' = [pc EXCEPT ![r] = "audit"]
    BY <1>17 DEF UpdateSave
  <2>2. target[r] \in Company
    BY <2>1
  <2>3. given[r] \in Name \cup {None}
    BY <2>1 DEF PhaseOK
  <2> QED
    BY <1>17, <2>1, <2>2, <2>3 DEF UpdateSave
<1>18. CASE HireArrives(r)
  BY <1>18 DEF HireArrives
<1>19. CASE MoveArrives(r)
  BY <1>19 DEF MoveArrives
<1>20. CASE Hire(r)
  BY <1>20 DEF Hire
<1>21. CASE Move(r)
  BY <1>21 DEF Move
<1> QED
  BY <1>1, <1>2, <1>3, <1>4, <1>5, <1>6, <1>7, <1>8, <1>9, <1>10, <1>11,
     <1>12, <1>13, <1>14, <1>15, <1>16, <1>17, <1>18, <1>19, <1>20, <1>21
  DEF CompaniesNext

\* So do the steps on categories.
LEMMA CategoriesType ==
  ASSUME DirectoryInv, NEW r \in Request, CategoriesNext(r)
  PROVE  TypeOK'
<1> USE DEF DirectoryInv, TypeOK, InputsOK, Goto, Arrive, Step, companies,
            categories, store, inputs, reads
<1> DEFINE Rows == /\ label' \in [Category -> Label \cup {None}]
                   /\ owner' \in [Category -> Company \cup {None}]
<1>1. CASE AddArrives(r)
  BY <1>1 DEF AddArrives
<1>2. CASE Add(r)
  <2>1. Rows /\ item'[r] \in Category /\ item' = [item EXCEPT ![r] = item'[r]]
    BY <1>2, CategorySteps DEF LabelsWritten
  <2> QED
    BY <1>2, <2>1 DEF Add
<1>3. CASE RenameArrives(r)
  BY <1>3 DEF RenameArrives
<1>4. CASE Rename(r)
  <2>1. Rows
    BY <1>4, CategorySteps DEF LabelsWritten
  <2> QED
    BY <1>4, <2>1 DEF Rename
<1>5. CASE DropArrives(r)
  BY <1>5 DEF DropArrives
<1>6. CASE DropFind(r)
  BY <1>6 DEF DropFind
<1>7. CASE Drop(r)
  BY <1>7 DEF Drop, DeleteCategories
<1>8. CASE EditArrives(r)
  BY <1>8 DEF EditArrives
<1>9. CASE EditRead(r)
  BY <1>9 DEF EditRead, CategoriesOf
<1>10. CASE EditUpdate(r)
  <2>1. Rows
    BY <1>10, CategorySteps DEF LabelsWritten
  <2> QED
    BY <1>10, <2>1 DEF EditUpdate
<1>11. CASE EditInsert(r)
  <2>1. Rows
    BY <1>11, CategorySteps DEF LabelsWritten
  <2> QED
    BY <1>11, <2>1 DEF EditInsert
<1>12. CASE EditDelete(r)
  BY <1>12 DEF EditDelete, DeleteCategories
<1> QED
  BY <1>1, <1>2, <1>3, <1>4, <1>5, <1>6, <1>7, <1>8, <1>9, <1>10, <1>11,
     <1>12 DEF CategoriesNext

\* Every step keeps the types.
LEMMA TypeStep ==
  ASSUME DirectoryInv, [Next]_vars
  PROVE  TypeOK'
<1>1. ASSUME NEW r \in Request, Audit(r) \/ Reject(r)
      PROVE  TypeOK'
  BY <1>1 DEF Audit, Reject, Goto, Step, store, companies, categories, inputs,
    reads, DirectoryInv, TypeOK
<1>2. CASE UNCHANGED vars
  BY <1>2 DEF vars, store, companies, categories, inputs, reads, DirectoryInv,
    TypeOK
<1> QED
  BY <1>1, <1>2, CompaniesType, CategoriesType DEF Next, Handle

\* A step of one request leaves the others where they are.
LEMMA OthersStay ==
  ASSUME TypeOK, NEW r \in Request, Handle(r) \/ Reject(r)
  PROVE  \A q \in Request \ {r} :
           /\ pc'[q] = pc[q] /\ op'[q] = op[q] /\ target'[q] = target[q]
           /\ given'[q] = given[q] /\ item'[q] = item[q]
           /\ image'[q] = image[q] /\ oldKey'[q] = oldKey[q]
           /\ newKey'[q] = newKey[q] /\ list'[q] = list[q]
           /\ known'[q] = known[q] /\ people'[q] = people[q]
<1> USE DEF TypeOK, Goto, Arrive, store, companies, categories, inputs, reads
<1>1. CASE Audit(r) \/ Reject(r)
  BY <1>1 DEF Audit, Reject
<1>2. CASE CreateArrives(r) \/ MembersArrive(r) \/ AddPageArrives(r)
  BY <1>2 DEF CreateArrives, MembersArrive, AddPageArrives
<1>3. CASE SetPageArrives(r) \/ UpdateArrives(r)
  BY <1>3 DEF SetPageArrives, UpdateArrives
<1>4. CASE AddArrives(r) \/ RenameArrives(r) \/ DropArrives(r)
  BY <1>4 DEF AddArrives, RenameArrives, DropArrives
<1>5. CASE EditArrives(r) \/ EditRead(r) \/ EditUpdate(r)
  BY <1>5 DEF EditArrives, EditRead, EditUpdate
<1>6. CASE EditInsert(r) \/ EditDelete(r) \/ DropFind(r) \/ Drop(r)
  BY <1>6 DEF EditInsert, EditDelete, DropFind, Drop
<1>7. CASE Rename(r) \/ Add(r)
  BY <1>7 DEF Rename, Add
<1>8. CASE CreateInsert(r) \/ CreatePage(r) \/ CreateDefault(r)
  BY <1>8 DEF CreateInsert, CreatePage, CreateDefault
<1>9. CASE MembersConnect(r) \/ AddPageKnown(r) \/ AddPageFind(r) \/ AddPage(r)
  BY <1>9 DEF MembersConnect, AddPageKnown, AddPageFind, AddPage
<1>10. CASE SetPage(r) \/ UpdateRead(r) \/ UpdateUnlink(r) \/ UpdateUpload(r)
  BY <1>10 DEF SetPage, UpdateRead, UpdateUnlink, UpdateUpload
<1>11. CASE UpdateSave(r)
  BY <1>11 DEF UpdateSave
<1>12. CASE HireArrives(r) \/ Hire(r) \/ MoveArrives(r) \/ Move(r)
  BY <1>12 DEF HireArrives, Hire, MoveArrives, Move
<1> QED
  BY <1>1, <1>2, <1>3, <1>4, <1>5, <1>6, <1>7, <1>8, <1>9, <1>10, <1>11, <1>12
  DEF Handle, CompaniesNext, CategoriesNext

\* Every step keeps a request within its handler.
LEMMA PhaseStep ==
  ASSUME DirectoryInv, NEW r \in Request, Handle(r) \/ Reject(r)
  PROVE  PhaseOK'
<1> USE DEF DirectoryInv, TypeOK, PhaseOK, Goto, Arrive
<1>1. CASE Audit(r) \/ Reject(r)
  BY <1>1 DEF Audit, Reject
<1>2. CASE CreateArrives(r) \/ MembersArrive(r)
  BY <1>2 DEF CreateArrives, MembersArrive
<1>15. CASE AddPageArrives(r)
  BY <1>15 DEF AddPageArrives
<1>3. CASE SetPageArrives(r)
  <2>1. PICK o \in {"updatePage", "editPage"} : Arrive(r, o, "setPage")
    BY <1>3 DEF SetPageArrives
  <2> QED
    BY <2>1
<1>12. CASE UpdateArrives(r)
  BY <1>12 DEF UpdateArrives
<1>4. CASE AddArrives(r)
  BY <1>4 DEF AddArrives
<1>17. CASE RenameArrives(r)
  BY <1>17 DEF RenameArrives
<1>16. CASE DropArrives(r)
  BY <1>16 DEF DropArrives
<1>5. CASE EditArrives(r) \/ EditRead(r) \/ EditUpdate(r)
  BY <1>5 DEF EditArrives, EditRead, EditUpdate
<1>6. CASE EditInsert(r) \/ EditDelete(r) \/ DropFind(r) \/ Drop(r)
  BY <1>6 DEF EditInsert, EditDelete, DropFind, Drop
<1>7. CASE Rename(r) \/ Add(r)
  BY <1>7 DEF Rename, Add
<1>8. CASE CreateInsert(r) \/ CreatePage(r) \/ CreateDefault(r)
  BY <1>8 DEF CreateInsert, CreatePage, CreateDefault
<1>9. CASE MembersConnect(r) \/ AddPageKnown(r) \/ AddPageFind(r) \/ AddPage(r)
  BY <1>9 DEF MembersConnect, AddPageKnown, AddPageFind, AddPage
<1>10. CASE UpdateRead(r) \/ UpdateUnlink(r) \/ UpdateUpload(r)
  BY <1>10 DEF UpdateRead, UpdateUnlink, UpdateUpload
<1>13. CASE SetPage(r)
  BY <1>13 DEF SetPage
<1>11. CASE UpdateSave(r)
  BY <1>11 DEF UpdateSave
<1>14. CASE HireArrives(r) \/ Hire(r) \/ MoveArrives(r) \/ Move(r)
  BY <1>14 DEF HireArrives, Hire, MoveArrives, Move
<1> QED
  BY <1>1, <1>2, <1>3, <1>4, <1>5, <1>6, <1>7, <1>8, <1>9, <1>10, <1>11,
     <1>12, <1>13, <1>14, <1>15, <1>16,
     <1>17
  DEF Handle, CompaniesNext, CategoriesNext

\* Every step keeps what a request works on.
LEMMA InputsStep ==
  ASSUME DirectoryInv, NEW r \in Request, Handle(r) \/ Reject(r)
  PROVE  InputsOK'
<1> DEFINE Own ==
      /\ pc'[r] \notin {"idle", "company", "failed"} => target'[r] \in Company
      /\ pc'[r] = "company" => given'[r] \in Name
      /\ op'[r] = "updateCompany" /\ pc'[r] # "idle" =>
           given'[r] \in Name \cup {None}
      /\ pc'[r] \in {"findPage", "addPage", "setPage"} =>
           given'[r] \in Url \cup {"unset", None}
      /\ people'[r] # {} =>
           op'[r] \in {"addUsers", "createUser", "updateUser"}
      /\ pc'[r] \in {"add", "rename"} => given'[r] \in Label
      /\ pc'[r] \in {"rename", "find", "drop"} => item'[r] \in Category
      /\ op'[r] = "addCategory" /\ pc'[r] \in {"audit", "ok"} =>
           item'[r] \in Category
      /\ pc'[r] \in {"idle", "list"} => known'[r] = {}
<1>1. Own => InputsOK'
  BY OthersStay DEF DirectoryInv, InputsOK
<1> HIDE DEF Own
<1> SUFFICES Own
  BY <1>1
<1> USE DEF DirectoryInv, TypeOK, PhaseOK, InputsOK, Goto, Arrive, store, inputs,
            reads
<1>27. pc[r] = "idle" => people[r] = {}
  BY DirectoryAssumption DEF Operation
<1>2. CASE Audit(r)
  BY <1>2 DEF Audit, Own
<1>3. CASE Reject(r)
  BY <1>3 DEF Reject, Own
<1>4. CASE CreateArrives(r)
  BY <1>4, <1>27 DEF CreateArrives, Own
<1>5. CASE MembersArrive(r)
  BY <1>5 DEF MembersArrive, Exists, Own
<1>6. CASE AddPageArrives(r)
  BY <1>6, <1>27 DEF AddPageArrives, Exists, Own
<1>7. CASE SetPageArrives(r)
  BY <1>7, <1>27 DEF SetPageArrives, Exists, Own
<1>8. CASE UpdateArrives(r)
  BY <1>8, <1>27 DEF UpdateArrives, Exists, Own
<1>9. CASE AddArrives(r)
  BY <1>9, <1>27 DEF AddArrives, Exists, Own
<1>10. CASE RenameArrives(r)
  BY <1>10, <1>27 DEF RenameArrives, LabelsOK, Own
<1>11. CASE DropArrives(r)
  BY <1>11, <1>27 DEF DropArrives, LabelsOK, Own
<1>12. CASE EditArrives(r)
  BY <1>12, <1>27 DEF EditArrives, Exists, Own
<1>13. CASE EditRead(r) \/ EditUpdate(r)
  BY <1>13 DEF EditRead, EditUpdate, Own
<1>14. CASE EditInsert(r) \/ EditDelete(r)
  BY <1>14 DEF EditInsert, EditDelete, Own
<1>15. CASE DropFind(r) \/ Drop(r)
  BY <1>15 DEF DropFind, Drop, Own
<1>26. CASE Rename(r)
  BY <1>26 DEF Rename, Own
<1>16. CASE Add(r)
  <2>1. item'[r] \in Category
    BY <1>16, CategorySteps
  <2> QED
    BY <1>16, <2>1 DEF Add, Own
<1>17. CASE CreateInsert(r)
  BY <1>17 DEF CreateInsert, InsertCompany, Own
<1>18. CASE CreatePage(r)
  BY <1>18 DEF CreatePage, Own
<1>25. CASE CreateDefault(r)
  BY <1>25 DEF CreateDefault, Own
<1>19. CASE MembersConnect(r) \/ AddPageKnown(r)
  BY <1>19 DEF MembersConnect, AddPageKnown, Own
<1>20. CASE AddPageFind(r) \/ AddPage(r)
  BY <1>20 DEF AddPageFind, AddPage, Own
<1>21. CASE SetPage(r)
  BY <1>21 DEF SetPage, Own
<1>22. CASE UpdateRead(r)
  BY <1>22 DEF UpdateRead, Own
<1>23. CASE UpdateUnlink(r) \/ UpdateUpload(r)
  BY <1>23 DEF UpdateUnlink, UpdateUpload, Own
<1>24. CASE UpdateSave(r)
  BY <1>24 DEF UpdateSave, Own
<1>28. CASE HireArrives(r)
  BY <1>28 DEF HireArrives, Exists, Own
<1>30. CASE MoveArrives(r)
  BY <1>30 DEF MoveArrives, Exists, Own
<1>29. CASE Hire(r)
  BY <1>29 DEF Hire, Own
<1>31. CASE Move(r)
  BY <1>31 DEF Move, Own
<1> QED
  BY <1>1, <1>2, <1>3, <1>4, <1>5, <1>6, <1>7, <1>8, <1>9, <1>10, <1>11, <1>12,
     <1>13, <1>14, <1>15, <1>16, <1>17, <1>18, <1>19, <1>20, <1>21, <1>22,
     <1>23, <1>24, <1>25, <1>26, <1>28, <1>29, <1>30,
     <1>31
  DEF Handle, CompaniesNext, CategoriesNext

\* Labels are taken away by deletions only.
LEMMA LabelsKept ==
  ASSUME DirectoryInv, NEW r \in Request, Handle(r) \/ Reject(r)
  PROVE  /\ LabelsOK'
         /\ ~Drop(r) /\ ~EditDelete(r) =>
              \A k \in Category : label[k] # None => label'[k] # None
<1> DEFINE Kept == /\ LabelsOK'
                   /\ \A k \in Category : label[k] # None => label'[k] # None
<1> USE DEF DirectoryInv, LabelsOK
<1>1. CASE Drop(r) \/ EditDelete(r)
  BY <1>1 DEF Drop, EditDelete, DeleteCategories
<1>2. CASE CreateDefault(r) \/ Add(r) \/ Rename(r)
  BY <1>2, CategorySteps DEF LabelsWritten
<1>3. CASE EditUpdate(r) \/ EditInsert(r)
  BY <1>3, CategorySteps DEF LabelsWritten
<1>4. ASSUME UNCHANGED categories
      PROVE  Kept
  BY <1>4 DEF categories
<1> USE DEF store, categories, companies
<1>5. CASE Audit(r) \/ Reject(r)
  BY <1>4, <1>5 DEF Audit, Reject
<1>6. CASE CreateArrives(r) \/ MembersArrive(r) \/ AddPageArrives(r)
  BY <1>4, <1>6 DEF CreateArrives, MembersArrive, AddPageArrives
<1>7. CASE SetPageArrives(r) \/ UpdateArrives(r)
  BY <1>4, <1>7 DEF SetPageArrives, UpdateArrives
<1>8. CASE AddArrives(r) \/ RenameArrives(r) \/ DropArrives(r)
  BY <1>4, <1>8 DEF AddArrives, RenameArrives, DropArrives
<1>9. CASE EditArrives(r) \/ EditRead(r) \/ DropFind(r)
  BY <1>4, <1>9 DEF EditArrives, EditRead, DropFind
<1>10. CASE CreateInsert(r) \/ CreatePage(r)
  BY <1>4, <1>10 DEF CreateInsert, CreatePage
<1>11. CASE MembersConnect(r) \/ AddPageKnown(r) \/ AddPageFind(r) \/ AddPage(r)
  BY <1>4, <1>11 DEF MembersConnect, AddPageKnown, AddPageFind, AddPage
<1>12. CASE SetPage(r) \/ UpdateRead(r) \/ UpdateUnlink(r) \/ UpdateUpload(r)
  BY <1>4, <1>12 DEF SetPage, UpdateRead, UpdateUnlink, UpdateUpload
<1>13. CASE UpdateSave(r)
  BY <1>4, <1>13 DEF UpdateSave
<1>14. CASE HireArrives(r) \/ Hire(r) \/ MoveArrives(r) \/ Move(r)
  BY <1>4, <1>14 DEF HireArrives, Hire, MoveArrives, Move
<1> QED
  BY <1>1, <1>2, <1>3, <1>5, <1>6, <1>7, <1>8, <1>9, <1>10, <1>11, <1>12, <1>13,
     <1>14
  DEF Handle, CompaniesNext, CategoriesNext

\* What a request was sent, and what it has read, stays as it is.
LEMMA InputsKept ==
  ASSUME DirectoryInv, NEW r \in Request, Handle(r) \/ Reject(r),
         NEW q \in Request, pc[q] # "idle"
  PROVE  /\ pc'[q] # "idle" /\ op'[q] = op[q]
         /\ pc[q] \in Answered => pc'[q] = pc[q]
         /\ given'[q] = given[q] /\ image'[q] = image[q]
         /\ list'[q] = list[q] /\ people'[q] = people[q]
         /\ pc[q] # "company" => target'[q] = target[q]
         /\ pc[q] # "add" => item'[q] = item[q]
         /\ pc[q] # "list" => known'[q] = known[q]
         /\ pc[q] # "read" => oldKey'[q] = oldKey[q]
         /\ pc[q] # "upload" => newKey'[q] = newKey[q]
<1> USE DEF DirectoryInv, TypeOK, Goto, Arrive, Answered, store, inputs, reads
<1>1. CASE q # r
  BY <1>1, OthersStay
<1>2. CASE q = r
  <2>1. CASE Audit(r) \/ Reject(r)
    BY <1>2, <2>1 DEF Audit, Reject
  <2>2. /\ ~CreateArrives(r) /\ ~MembersArrive(r) /\ ~AddPageArrives(r)
        /\ ~SetPageArrives(r) /\ ~UpdateArrives(r) /\ ~AddArrives(r)
        /\ ~RenameArrives(r) /\ ~DropArrives(r) /\ ~EditArrives(r)
        /\ ~HireArrives(r) /\ ~MoveArrives(r)
    BY <1>2 DEF CreateArrives, MembersArrive, AddPageArrives, SetPageArrives,
      UpdateArrives, AddArrives, RenameArrives, DropArrives, EditArrives,
      HireArrives, MoveArrives
  <2>3. CASE EditRead(r) \/ EditUpdate(r)
    BY <1>2, <2>3 DEF EditRead, EditUpdate
  <2>4. CASE EditInsert(r) \/ EditDelete(r) \/ DropFind(r) \/ Drop(r)
    BY <1>2, <2>4 DEF EditInsert, EditDelete, DropFind, Drop
  <2>5. CASE Rename(r) \/ Add(r)
    BY <1>2, <2>5 DEF Rename, Add
  <2>6. CASE CreateInsert(r) \/ CreatePage(r) \/ CreateDefault(r)
    BY <1>2, <2>6 DEF CreateInsert, CreatePage, CreateDefault
  <2>7. CASE \/ MembersConnect(r) \/ AddPageKnown(r) \/ AddPageFind(r)
             \/ AddPage(r)
    BY <1>2, <2>7 DEF MembersConnect, AddPageKnown, AddPageFind, AddPage
  <2>8. CASE SetPage(r) \/ UpdateRead(r) \/ UpdateUnlink(r)
    BY <1>2, <2>8 DEF SetPage, UpdateRead, UpdateUnlink
  <2>9. CASE UpdateUpload(r) \/ UpdateSave(r)
    BY <1>2, <2>9 DEF UpdateUpload, UpdateSave
  <2>10. CASE Hire(r) \/ Move(r)
    BY <1>2, <2>10 DEF Hire, Move
  <2> QED
    BY <2>1, <2>2, <2>3, <2>4, <2>5, <2>6, <2>7, <2>8, <2>9, <2>10
    DEF Handle, CompaniesNext, CategoriesNext
<1> QED
  BY <1>1, <1>2

\* The inductive invariant: which handler a step belongs to, what it works on,
\* and that labels and owners go together.
THEOREM DirectoryInvariance == Spec => []DirectoryInv
<1>1. Init => DirectoryInv
  <2> SUFFICES ASSUME Init PROVE DirectoryInv
    OBVIOUS
  <2>1. /\ name \in [Company -> Name \cup {None}]
        /\ owner \in [Category -> Company \cup {None}]
        /\ label \in [Category -> Label \cup {None}]
        /\ member \in [User -> Company \cup {None}]
        /\ \A k \in Category : label[k] = None <=> owner[k] = None
    BY DEF Init, Found
  <2>2. /\ page \in [Company -> Url \cup {"unset", None}]
        /\ objects \subseteq Key /\ now \in Key
    BY DirectoryAssumption DEF Init, Found, Key
  <2>3. TypeOK
    BY <2>1, <2>2 DEF Init, TypeOK, Step
  <2>4. PhaseOK /\ InputsOK
    BY DEF Init, PhaseOK, InputsOK
  <2> QED
    BY <2>1, <2>3, <2>4 DEF DirectoryInv, LabelsOK
<1>2. DirectoryInv /\ [Next]_vars => DirectoryInv'
  <2> SUFFICES ASSUME DirectoryInv, [Next]_vars PROVE DirectoryInv'
    OBVIOUS
  <2>1. CASE UNCHANGED vars
    BY <2>1 DEF vars, store, companies, categories, inputs, reads, DirectoryInv,
      TypeOK, PhaseOK, InputsOK, LabelsOK
  <2>2. CASE Next
    BY <2>2, TypeStep, PhaseStep, InputsStep, LabelsKept DEF Next, DirectoryInv
  <2> QED
    BY <2>1, <2>2
<1> QED
  BY <1>1, <1>2, PTL DEF Spec

\* The tables and the requests keep their types.
THEOREM DirectoryTyping == Spec => []TypeOK
BY DirectoryInvariance, PTL DEF DirectoryInv

-----------------------------------------------------------------------------
(* Categories.                                                             *)

\* A request that may delete category k, or has: it works on k, or has read it
\* and was not sent it.
Deletes(q, k) == \/ op[q] = "deleteCategory" /\ item[q] = k
                 \/ op[q] = "editCategories" /\ k \in known[q] \ Sent(q)

\* A request that may have deleted a category stays one that may.
LEMMA DeletesKept ==
  ASSUME DirectoryInv, NEW r \in Request, Handle(r) \/ Reject(r),
         NEW q \in Request, NEW k \in Category, Deletes(q, k)
  PROVE  Deletes(q, k)'
<1>1. (pc[q] # "idle" /\ pc[q] # "list") \/ op[q] = "deleteCategory"
  BY DirectoryAssumption DEF Deletes, DirectoryInv, PhaseOK, InputsOK, Operation
<1>2. pc[q] # "idle"
  BY <1>1, DirectoryAssumption DEF DirectoryInv, PhaseOK, Operation
<1>3. op[q] = "deleteCategory" => pc[q] # "add"
  BY DEF DirectoryInv, PhaseOK
<1>4. op[q] = "editCategories" => known'[q] = known[q] /\ Sent(q)' = Sent(q)
  BY <1>1, <1>2, InputsKept DEF Sent
<1> QED
  BY <1>2, <1>3, <1>4, InputsKept DEF Deletes

\* A label that disappears was deleted by the request that moves.
LEMMA LabelsGo ==
  ASSUME DirectoryInv, NEW r \in Request, Handle(r) \/ Reject(r),
         NEW k \in Category, label[k] # None, label'[k] = None
  PROVE  /\ Deletes(r, k)'
         /\ op'[r] = "editCategories" => pc'[r] = "ok" /\ k \notin Sent(r)'
<1>1. Drop(r) \/ EditDelete(r)
  BY LabelsKept
<1>2. CASE Drop(r)
  BY <1>2 DEF Drop, DeleteCategories, Deletes, Goto, inputs, DirectoryInv,
    TypeOK, PhaseOK
<1>3. CASE EditDelete(r)
  BY <1>3 DEF EditDelete, DeleteCategories, Deletes, Goto, inputs, reads, Sent,
    DirectoryInv, TypeOK, PhaseOK
<1> QED
  BY <1>1, <1>2, <1>3

\* What happens to the category of an addition.
LEMMA AddedStep ==
  ASSUME DirectoryInv, AddedStays, NEW r \in Request, Handle(r) \/ Reject(r)
  PROVE  AddedStays'
<1> SUFFICES ASSUME NEW a \in Request, op'[a] = "addCategory",
                    pc'[a] \in {"audit", "ok"}
             PROVE  \/ label'[item'[a]] # None
                    \/ \E q \in Request : Deletes(q, item[a])'
  BY DEF AddedStays, Deletes
<1>1. CASE pc[a] \in {"audit", "ok"}
  <2>1. op[a] = "addCategory" /\ item'[a] = item[a] /\ item[a] \in Category
    BY <1>1, InputsKept DEF DirectoryInv, InputsOK
  <2>2. PICK k \in Category : k = item[a] /\ k = item'[a]
    BY <2>1
  <2>3. \/ label[k] # None
        \/ \E q \in Request : Deletes(q, k)
    BY <1>1, <2>1, <2>2 DEF AddedStays, Deletes
  <2>4. label'[k] # None \/ \E q \in Request : Deletes(q, k)'
    BY <2>3, LabelsGo, DeletesKept
  <2> QED
    BY <2>2, <2>4 DEF Deletes
<1>2. CASE pc[a] \notin {"audit", "ok"}
  <2>1. a = r
    BY <1>2, OthersStay DEF DirectoryInv
  <2>2. Add(r)
    <3> USE <1>2, <2>1 DEF DirectoryInv, TypeOK, PhaseOK, Goto, Arrive
    <3>1. ~CompaniesNext(r)
      BY DEF CompaniesNext, CreateArrives, CreateInsert, CreatePage,
        CreateDefault, MembersArrive, MembersConnect, AddPageArrives,
        AddPageKnown, AddPageFind, AddPage, SetPageArrives, SetPage,
        UpdateArrives, UpdateRead, UpdateUnlink, UpdateUpload, UpdateSave,
        HireArrives, Hire, MoveArrives, Move
    <3>2. CategoriesNext(r) => Add(r)
      BY DEF CategoriesNext, AddArrives, RenameArrives, Rename, DropArrives,
        DropFind, Drop, EditArrives, EditRead, EditUpdate, EditInsert,
        EditDelete
    <3>3. ~Audit(r) /\ ~Reject(r)
      BY DEF Audit, Reject
    <3> QED
      BY <3>1, <3>2, <3>3 DEF Handle
  <2> QED
    BY <2>1, <2>2, CategorySteps DEF LabelsWritten
<1> QED
  BY <1>1, <1>2

\* A category that was added stays until a request deletes it that knew it.
THEOREM AdditionsLast == Spec => []AddedStays
<1>1. Init => AddedStays
  BY DEF Init, AddedStays
<1>2. DirectoryInv /\ AddedStays /\ [Next]_vars => AddedStays'
  <2> SUFFICES ASSUME DirectoryInv, AddedStays, [Next]_vars PROVE AddedStays'
    OBVIOUS
  <2>1. CASE UNCHANGED vars
    BY <2>1 DEF vars, store, categories, inputs, reads, AddedStays, Sent
  <2> QED
    BY <2>1, AddedStep DEF Next
<1> QED
  BY <1>1, <1>2, DirectoryInvariance, PTL DEF Spec

\* Only the read of a bulk edit changes what requests know.
LEMMA KnownKept ==
  ASSUME NEW r \in Request, Handle(r) \/ Reject(r), ~EditRead(r)
  PROVE  known' = known
<1> USE DEF inputs, reads
<1>1. CASE CompaniesNext(r)
  BY <1>1 DEF CompaniesNext, CreateArrives, CreateInsert, CreatePage,
    CreateDefault, MembersArrive, MembersConnect, AddPageArrives, AddPageKnown,
    AddPageFind, AddPage, SetPageArrives, SetPage, UpdateArrives, UpdateRead,
    UpdateUnlink, UpdateUpload, UpdateSave, HireArrives, Hire, MoveArrives, Move
<1>2. CASE CategoriesNext(r)
  BY <1>2 DEF CategoriesNext, AddArrives, Add, RenameArrives, Rename,
    DropArrives, DropFind, Drop, EditArrives, EditUpdate, EditInsert, EditDelete
<1>3. CASE Audit(r) \/ Reject(r)
  BY <1>3 DEF Audit, Reject
<1> QED
  BY <1>1, <1>2, <1>3 DEF Handle

\* Every step keeps the categories that a bulk edit has found, or has a cause.
LEMMA RefusedStep ==
  ASSUME DirectoryInv, RefusedEditLosesNothing,
         NEW r \in Request, Handle(r) \/ Reject(r)
  PROVE  RefusedEditLosesNothing'
<1> SUFFICES ASSUME NEW e \in Request, NEW k \in Category,
                    op'[e] = "editCategories", k \in known'[e]
             PROVE  \/ label'[k] # None
                    \/ pc'[e] = "ok" /\ k \notin Sent(e)'
                    \/ \E q \in Request \ {e} : Deletes(q, k)'
  BY DEF RefusedEditLosesNothing, Deletes
<1>1. CASE k \in known[e]
  <2>1. pc[e] # "idle" /\ pc[e] # "list"
    BY <1>1 DEF DirectoryInv, InputsOK
  <2>2. op[e] = "editCategories" /\ Sent(e)' = Sent(e)
    BY <2>1, InputsKept DEF Sent
  <2>3. \/ label[k] # None
        \/ pc[e] = "ok" /\ k \notin Sent(e)
        \/ \E q \in Request \ {e} : Deletes(q, k)
    BY <1>1, <2>2 DEF RefusedEditLosesNothing, Deletes
  <2>4. CASE label[k] # None
    BY <2>4, LabelsGo DEF Deletes
  <2>5. CASE pc[e] = "ok" /\ k \notin Sent(e)
    BY <2>1, <2>2, <2>5, InputsKept DEF Answered
  <2>6. CASE \E q \in Request \ {e} : Deletes(q, k)
    BY <2>6, DeletesKept
  <2> QED
    BY <2>3, <2>4, <2>5, <2>6
<1>2. CASE k \notin known[e]
  <2>1. e = r
    BY <1>2, OthersStay DEF DirectoryInv
  <2>2. known'[r] # known[r]
    BY <1>2, <2>1
  <2>3. EditRead(r)
    BY <2>2, KnownKept
  <2>4. known'[e] = CategoriesOf(target[r]) /\ label' = label /\ pc[r] = "list"
    BY <2>1, <2>3
    DEF EditRead, store, categories, Goto, DirectoryInv, TypeOK
  <2>5. target[r] \in Company /\ owner[k] = target[r]
    BY <2>4 DEF CategoriesOf, DirectoryInv, InputsOK
  <2> QED
    BY <2>4, <2>5, DirectoryAssumption DEF DirectoryInv, LabelsOK
<1> QED
  BY <1>1, <1>2

\* A bulk edit that is refused half way has lost none of the categories it
\* found.
THEOREM RefusalsLoseNothing == Spec => []RefusedEditLosesNothing
<1>1. Init => RefusedEditLosesNothing
  BY DEF Init, RefusedEditLosesNothing
<1>2. DirectoryInv /\ RefusedEditLosesNothing /\ [Next]_vars
      => RefusedEditLosesNothing'
  <2> SUFFICES ASSUME DirectoryInv, RefusedEditLosesNothing, [Next]_vars
               PROVE  RefusedEditLosesNothing'
    OBVIOUS
  <2>1. CASE UNCHANGED vars
    BY <2>1 DEF vars, store, categories, inputs, reads,
      RefusedEditLosesNothing, Sent
  <2> QED
    BY <2>1, RefusedStep DEF Next
<1> QED
  BY <1>1, <1>2, DirectoryInvariance, PTL DEF Spec

-----------------------------------------------------------------------------
(* Companies.                                                              *)

\* Whose step it is.
LEMMA OpSteps ==
  ASSUME DirectoryInv, NEW r \in Request, Handle(r) \/ Reject(r)
  PROVE  /\ op'[r] = "createCompany" =>
              \/ CreateArrives(r) \/ CreateInsert(r) \/ CreatePage(r)
              \/ CreateDefault(r) \/ Audit(r) \/ Reject(r)
         /\ op'[r] = "addUsers" =>
              MembersArrive(r) \/ MembersConnect(r) \/ Reject(r)
         /\ op'[r] = "createUser" => HireArrives(r) \/ Hire(r) \/ Reject(r)
         /\ op'[r] = "updateUser" => MoveArrives(r) \/ Move(r) \/ Reject(r)
         /\ op'[r] = "addPage" =>
              \/ AddPageArrives(r) \/ AddPageKnown(r) \/ AddPageFind(r)
              \/ AddPage(r) \/ Audit(r) \/ Reject(r)
         /\ op'[r] = "updateCompany" =>
              \/ UpdateArrives(r) \/ UpdateRead(r) \/ UpdateUnlink(r)
              \/ UpdateUpload(r) \/ UpdateSave(r) \/ Audit(r) \/ Reject(r)
         /\ op'[r] = "editCategories" =>
              \/ EditArrives(r) \/ EditRead(r) \/ EditUpdate(r)
              \/ EditInsert(r) \/ EditDelete(r) \/ Reject(r)
         /\ pc'[r] = "ok" =>
              \/ Audit(r)
              \/ op'[r] \in {"addUsers", "createUser", "updateUser", "addPage",
                             "editPage", "editCategories"}
<1> USE DEF DirectoryInv, TypeOK, PhaseOK, Goto, Arrive
<1>1. ASSUME CreateArrives(r) \/ CreateInsert(r) \/ CreatePage(r) \/ CreateDefault(r)
      PROVE  op'[r] = "createCompany" /\ pc'[r] # "ok"
  BY <1>1 DEF CreateArrives, CreateInsert, CreatePage, CreateDefault
<1>2. ASSUME MembersArrive(r) \/ MembersConnect(r)
      PROVE  op'[r] = "addUsers"
  BY <1>2 DEF MembersArrive, MembersConnect
<1>3. ASSUME \/ AddPageArrives(r) \/ AddPageKnown(r) \/ AddPageFind(r)
             \/ AddPage(r)
      PROVE  op'[r] = "addPage"
  BY <1>3 DEF AddPageArrives, AddPageKnown, AddPageFind, AddPage
<1>4. ASSUME SetPageArrives(r)
      PROVE  op'[r] \in {"updatePage", "editPage"} /\ pc'[r] # "ok"
  BY <1>4 DEF SetPageArrives
<1>5. ASSUME SetPage(r)
      PROVE  /\ op'[r] \in {"updatePage", "editPage"}
             /\ pc'[r] = "ok" => op'[r] = "editPage"
  BY <1>5 DEF SetPage
<1>6. ASSUME UpdateArrives(r) \/ UpdateRead(r) \/ UpdateUnlink(r)
      PROVE  op'[r] = "updateCompany" /\ pc'[r] # "ok"
  BY <1>6 DEF UpdateArrives, UpdateRead, UpdateUnlink
<1>7. ASSUME UpdateUpload(r) \/ UpdateSave(r)
      PROVE  op'[r] = "updateCompany" /\ pc'[r] # "ok"
  BY <1>7 DEF UpdateUpload, UpdateSave
<1>8. ASSUME AddArrives(r) \/ Add(r) \/ RenameArrives(r) \/ Rename(r)
      PROVE  op'[r] \in {"addCategory", "renameCategory"} /\ pc'[r] # "ok"
  BY <1>8 DEF AddArrives, Add, RenameArrives, Rename
<1>9. ASSUME DropArrives(r) \/ DropFind(r) \/ Drop(r)
      PROVE  op'[r] = "deleteCategory" /\ pc'[r] # "ok"
  BY <1>9 DEF DropArrives, DropFind, Drop
<1>10. ASSUME \/ EditArrives(r) \/ EditRead(r) \/ EditUpdate(r)
              \/ EditInsert(r) \/ EditDelete(r)
       PROVE  op'[r] = "editCategories"
  BY <1>10 DEF EditArrives, EditRead, EditUpdate, EditInsert, EditDelete
<1>11. Audit(r) => op'[r] \notin {"addUsers", "createUser", "updateUser",
                                 "editPage", "editCategories"}
  BY DEF Audit
<1>12. Reject(r) => pc'[r] # "ok"
  BY DEF Reject
<1>13. HireArrives(r) \/ Hire(r) => op'[r] = "createUser"
  BY DEF HireArrives, Hire
<1>14. MoveArrives(r) \/ Move(r) => op'[r] = "updateUser"
  BY DEF MoveArrives, Move
<1> HIDE DEF DirectoryInv, TypeOK, PhaseOK, Goto, Arrive
<1> QED
  BY <1>1, <1>2, <1>3, <1>4, <1>5, <1>6, <1>7, <1>8, <1>9, <1>10, <1>11, <1>12,
     <1>13, <1>14
  DEF Handle, CompaniesNext, CategoriesNext

\* Which steps write what.
LEMMA Writes ==
  ASSUME NEW r \in Request, Handle(r) \/ Reject(r)
  PROVE  /\ UpdateSave(r) \/ logo' = logo
         /\ UpdateUnlink(r) \/ UpdateUpload(r) \/ objects' = objects
         /\ UpdateUpload(r) \/ newKey' = newKey
         /\ UpdateRead(r) \/ oldKey' = oldKey
         /\ CreatePage(r) \/ AddPage(r) \/ SetPage(r) \/ page' = page
         /\ MembersConnect(r) \/ Hire(r) \/ Move(r) \/ member' = member
         /\ CreateInsert(r) \/ UpdateSave(r) \/ name' = name
         /\ Audit(r) \/ audited' = audited
<1> DEFINE Same == UNCHANGED <<name, logo, page, member, objects, audited,
                               newKey, oldKey>>
<1> USE DEF store, companies, inputs, reads
<1>1. ASSUME CreateArrives(r) \/ CreateDefault(r)
      PROVE  Same
  BY <1>1 DEF CreateArrives, CreateDefault
<1>12. ASSUME CreateInsert(r)
       PROVE  UNCHANGED <<logo, page, member, objects, audited, newKey, oldKey>>
  BY <1>12 DEF CreateInsert
<1>13. ASSUME HireArrives(r) \/ MoveArrives(r)
       PROVE  Same
  BY <1>13 DEF HireArrives, MoveArrives
<1>2. ASSUME MembersArrive(r) \/ AddPageArrives(r) \/ AddPageKnown(r)
      PROVE  Same
  BY <1>2 DEF MembersArrive, AddPageArrives, AddPageKnown
<1>3. ASSUME AddPageFind(r) \/ SetPageArrives(r) \/ UpdateArrives(r) \/ Reject(r)
      PROVE  Same
  BY <1>3 DEF AddPageFind, SetPageArrives, UpdateArrives, Reject
<1>4. ASSUME CategoriesNext(r)
      PROVE  Same
  BY <1>4 DEF CategoriesNext, AddArrives, Add, RenameArrives, Rename,
    DropArrives, DropFind, Drop, EditArrives, EditRead, EditUpdate, EditInsert,
    EditDelete
<1>5. ASSUME CreatePage(r) \/ AddPage(r) \/ SetPage(r)
      PROVE  UNCHANGED <<name, logo, member, objects, audited, newKey, oldKey>>
  BY <1>5 DEF CreatePage, AddPage, SetPage
<1>6. ASSUME MembersConnect(r) \/ Hire(r) \/ Move(r)
      PROVE  UNCHANGED <<name, logo, page, objects, audited, newKey, oldKey>>
  BY <1>6 DEF MembersConnect, Hire, Move
<1>7. ASSUME Audit(r)
      PROVE  UNCHANGED <<name, logo, page, member, objects, newKey, oldKey>>
  BY <1>7 DEF Audit
<1>8. ASSUME UpdateRead(r)
      PROVE  UNCHANGED <<name, logo, page, member, objects, audited, newKey>>
  BY <1>8 DEF UpdateRead
<1>9. ASSUME UpdateUnlink(r)
      PROVE  UNCHANGED <<name, logo, page, member, audited, newKey, oldKey>>
  BY <1>9 DEF UpdateUnlink
<1>10. ASSUME UpdateUpload(r)
       PROVE  UNCHANGED <<name, logo, page, member, audited, oldKey>>
  BY <1>10 DEF UpdateUpload
<1>11. ASSUME UpdateSave(r)
       PROVE  UNCHANGED <<page, member, objects, audited, newKey, oldKey>>
  BY <1>11 DEF UpdateSave
<1> QED
  BY <1>1, <1>2, <1>3, <1>4, <1>5, <1>6, <1>7, <1>8, <1>9, <1>10, <1>11, <1>12,
     <1>13
  DEF Handle, CompaniesNext

\* An update that has saved the row stays one that has.
LEMMA SavedKept ==
  ASSUME DirectoryInv, NEW r \in Request, Handle(r) \/ Reject(r),
         NEW c, NEW q \in Saved(c)
  PROVE  q \in Saved(c)' /\ newKey'[q] = newKey[q] /\ image'[q] = image[q]
<1>1. /\ q \in Request /\ op[q] = "updateCompany" /\ target[q] = c
      /\ pc[q] \in {"audit", "ok", "failed"}
  BY DEF Saved
<1>2. /\ op'[q] = op[q] /\ target'[q] = target[q] /\ newKey'[q] = newKey[q]
      /\ image'[q] = image[q]
      /\ pc[q] # "audit" => pc'[q] = pc[q]
  BY <1>1, InputsKept DEF Answered
<1>3. pc[q] = "audit" => pc'[q] \in {"audit", "ok", "failed"}
  <2>1. CASE q # r
    BY <1>1, <2>1, OthersStay DEF DirectoryInv
  <2>2. CASE q = r /\ pc[q] = "audit"
    <3>1. Audit(r) \/ Reject(r)
      BY <1>1, <1>2, <2>2, OpSteps DEF UpdateArrives, UpdateRead, UpdateUnlink,
        UpdateUpload, UpdateSave, Goto, Arrive
    <3> QED
      BY <2>2, <3>1 DEF Audit, Reject, Goto, DirectoryInv, TypeOK
  <2> QED
    BY <2>1, <2>2
<1>4. pc'[q] \in {"audit", "ok", "failed"}
  BY <1>1, <1>2, <1>3
<1>5. q \in Saved(c)'
  BY <1>1, <1>2, <1>4 DEF Saved
<1> QED
  BY <1>2, <1>5

\* Keys are given out once to a request, so two requests that were given one
\* key stay so.
LEMMA ClashesStay ==
  ASSUME DirectoryInv, KeysOK, NEW r \in Request, Handle(r) \/ Reject(r),
         NEW k \in Key, Clashes(k)
  PROVE  Clashes(k)'
<1>1. PICK p, q \in Request : p # q /\ newKey[p] = k /\ newKey[q] = k
  BY DEF Clashes
<1>2. ASSUME NEW x \in Request, newKey[x] = k
      PROVE  newKey'[x] = k
  <2>1. pc[x] \notin {"idle", "upload"}
    BY <1>2, DirectoryAssumption DEF KeysOK
  <2> QED
    BY <1>2, <2>1, InputsKept
<1> QED
  BY <1>1, <1>2 DEF Clashes

\* Every step keeps the keys of an update in step with its phase.
LEMMA KeysStep ==
  ASSUME DirectoryInv, DirectoryInv', KeysOK,
         NEW r \in Request, Handle(r) \/ Reject(r)
  PROVE  KeysOK'
<1> DEFINE Own ==
      /\ pc'[r] \in {"idle", "read", "unlink", "upload"} => newKey'[r] = None
      /\ pc'[r] \in {"unlink", "upload"} => image'[r]
      /\ pc'[r] = "save" /\ image'[r] => newKey'[r] # None
      /\ oldKey'[r] # None => op'[r] = "updateCompany" /\ pc'[r] # "read"
<1>1. Own => KeysOK'
  BY OthersStay DEF DirectoryInv, KeysOK
<1> HIDE DEF Own
<1>2. CASE op'[r] = "updateCompany"
  <2> USE DEF DirectoryInv, TypeOK, Goto, Arrive, store, inputs, reads, KeysOK,
              PhaseOK
  <2>1. CASE UpdateArrives(r)
    <3>1. /\ pc[r] = "idle" /\ pc'[r] = "read" /\ newKey' = newKey
          /\ oldKey' = oldKey
      BY <2>1 DEF UpdateArrives
    <3>2. oldKey[r] = None
      BY <3>1, DirectoryAssumption DEF Operation
    <3> QED
      BY <1>1, <1>2, <3>1, <3>2 DEF Own
  <2>2. CASE UpdateRead(r)
    BY <1>2, <2>2 DEF UpdateRead, Own
  <2>3. CASE UpdateUnlink(r)
    BY <1>2, <2>3 DEF UpdateUnlink, Own
  <2>4. CASE UpdateUpload(r)
    <3>1. /\ pc'[r] = "save" /\ newKey'[r] = now' /\ oldKey' = oldKey
          /\ now' \in Key
      BY <2>4 DEF UpdateUpload
    <3> QED
      BY <1>1, <1>2, <3>1, DirectoryAssumption DEF Own
  <2>5. CASE UpdateSave(r)
    BY <1>2, <2>5 DEF UpdateSave, Own
  <2>6. CASE Audit(r) \/ Reject(r)
    BY <1>2, <2>6 DEF Audit, Reject, Own
  <2> QED
    BY <1>1, <1>2, <2>1, <2>2, <2>3, <2>4, <2>5, <2>6, OpSteps
<1>3. CASE op'[r] # "updateCompany"
  <2>1. pc'[r] \notin {"read", "unlink", "upload", "save"}
    BY <1>3 DEF DirectoryInv, PhaseOK
  <2>2. newKey' = newKey /\ oldKey' = oldKey
    <3> USE DEF DirectoryInv, TypeOK, PhaseOK, Goto
    <3>1. ~UpdateRead(r)
      BY <1>3 DEF UpdateRead
    <3>2. ~UpdateUpload(r)
      BY <1>3 DEF UpdateUpload
    <3> QED
      BY <3>1, <3>2, Writes
  <2>3. pc[r] = "idle" \/ op[r] # "updateCompany"
    BY <1>3, InputsKept
  <2>4. oldKey[r] = None
    BY <2>3, DirectoryAssumption DEF KeysOK, DirectoryInv, PhaseOK, Operation
  <2>5. pc'[r] = "idle" => pc[r] = "idle"
    BY InputsKept
  <2> QED
    BY <1>1, <2>1, <2>2, <2>4, <2>5 DEF Own, KeysOK
<1> QED
  BY <1>2, <1>3

\* Every step keeps the keys in rows those of saved updates.
LEMMA OriginStep ==
  ASSUME DirectoryInv, KeysOK, OriginOK,
         NEW r \in Request, Handle(r) \/ Reject(r)
  PROVE  OriginOK'
<1>1. ASSUME NEW c \in Company, logo'[c] # None
      PROVE  \E q \in Saved(c)' : newKey'[q] = logo'[c]
  <2>1. CASE logo'[c] = logo[c]
    <3>1. PICK q \in Saved(c) : newKey[q] = logo[c]
      BY <1>1, <2>1 DEF OriginOK
    <3> QED
      BY <2>1, <3>1, SavedKept
  <2>2. CASE logo'[c] # logo[c]
    <3>1. UpdateSave(r)
      BY <2>2, Writes
    <3>2. c = target[r] /\ image[r] /\ logo'[c] = newKey[r]
      BY <2>2, <3>1 DEF UpdateSave, DirectoryInv, TypeOK
    <3>3. r \in Saved(c)' /\ newKey'[r] = newKey[r]
      BY <3>1, <3>2
      DEF UpdateSave, Saved, Goto, inputs, reads, DirectoryInv, TypeOK, PhaseOK
    <3> QED
      BY <3>2, <3>3
  <2> QED
    BY <2>1, <2>2
<1>2. ASSUME NEW x \in Request, oldKey'[x] # None
      PROVE  \E q \in Saved(target[x])' : newKey'[q] = oldKey'[x]
  <2> DEFINE c == target[x]
  <2>1. PICK q \in Request : q \in Saved(target[x]) /\ newKey[q] = oldKey'[x]
    <3>1. CASE oldKey'[x] = oldKey[x]
      BY <1>2, <3>1 DEF OriginOK, Saved
    <3>2. CASE oldKey'[x] # oldKey[x]
      <4>1. x = r /\ UpdateRead(r)
        BY <3>2, OthersStay, Writes DEF DirectoryInv
      <4>2. oldKey'[x] = logo[target[x]] /\ target[x] \in Company
        BY <4>1 DEF UpdateRead, Goto, DirectoryInv, TypeOK, InputsOK
      <4> QED
        BY <1>2, <4>2 DEF OriginOK, Saved
    <3> QED
      BY <3>1, <3>2
  <2>2. target'[x] = target[x]
    <3>1. op'[x] = "updateCompany" /\ pc[x] # "idle"
      <4>1. oldKey[x] # None \/ UpdateRead(x)
        BY <1>2, OthersStay, Writes DEF DirectoryInv
      <4>2. op[x] = "updateCompany" /\ pc[x] # "idle"
        BY <4>1, DirectoryAssumption
        DEF UpdateRead, Goto, KeysOK, DirectoryInv, PhaseOK, Operation
      <4> QED
        BY <4>2, InputsKept
    <3>2. pc[x] # "company"
      BY <3>1, InputsKept DEF DirectoryInv, PhaseOK
    <3> QED
      BY <3>1, <3>2, InputsKept
  <2>3. PICK d : d = target[x]
    OBVIOUS
  <2>4. q \in Saved(d)' /\ newKey'[q] = newKey[q]
    BY <2>1, <2>3, SavedKept
  <2> QED
    BY <2>1, <2>2, <2>3, <2>4 DEF Saved
<1> QED
  BY <1>1, <1>2 DEF OriginOK

\* An update that may have deleted an object stays one.
LEMMA UnlinkersStay ==
  ASSUME DirectoryInv, KeysOK, NEW r \in Request, Handle(r) \/ Reject(r),
         NEW k \in Key, NEW q \in Unlinkers(k)
  PROVE  q \in Unlinkers(k)'
<1>1. /\ q \in Request /\ op[q] = "updateCompany" /\ image[q] /\ oldKey[q] = k
      /\ pc[q] \in {"upload", "save", "audit", "ok", "failed"}
  BY DEF Unlinkers
<1>2. /\ op'[q] = op[q] /\ image'[q] = image[q] /\ oldKey'[q] = oldKey[q]
      /\ pc[q] \in {"ok", "failed"} => pc'[q] = pc[q]
  BY <1>1, InputsKept DEF Answered
<1>3. pc'[q] \in {"upload", "save", "audit", "ok", "failed"}
  <2>1. CASE q # r
    BY <1>1, <2>1, OthersStay DEF DirectoryInv
  <2>2. CASE q = r
    <3> USE DEF Goto, DirectoryInv, TypeOK
    <3>1. ~UpdateArrives(r) /\ ~UpdateRead(r) /\ ~UpdateUnlink(r)
      BY <1>1, <2>2 DEF UpdateArrives, UpdateRead, UpdateUnlink, Arrive
    <3>2. UpdateUpload(r) \/ UpdateSave(r) \/ Audit(r) \/ Reject(r)
      BY <1>1, <1>2, <2>2, <3>1, OpSteps
    <3> QED
      BY <2>2, <3>2 DEF UpdateUpload, UpdateSave, Audit, Reject
  <2> QED
    BY <2>1, <2>2
<1> QED
  BY <1>1, <1>2, <1>3 DEF Unlinkers

\* Every step keeps objects until an update that has read their key deletes them.
LEMMA ObjectsStep ==
  ASSUME DirectoryInv, DirectoryInv', LogosInv,
         NEW r \in Request, Handle(r) \/ Reject(r)
  PROVE  ObjectsOK'
<1> USE DEF LogosInv
<1>1. ASSUME NEW x \in Request, newKey'[x] # None, ~Clashes(newKey[x])'
      PROVE  newKey'[x] \in objects' \/ Unlinkers(newKey[x])' # {}
  <2>1. PICK k \in Key : k = newKey'[x]
    BY <1>1 DEF DirectoryInv, TypeOK
  <2>2. CASE newKey[x] # k
    <3>1. x = r /\ UpdateUpload(r)
      BY <2>1, <2>2, OthersStay, Writes DEF DirectoryInv
    <3>2. newKey'[x] = now' /\ now' \in objects'
      BY <3>1 DEF UpdateUpload, DirectoryInv, TypeOK
    <3> QED
      BY <3>2
  <2>3. CASE newKey[x] = k
    <3>1. ~Clashes(k)
      BY <1>1, <2>1, ClashesStay DEF Clashes
    <3>2. k \in objects \/ \E q \in Unlinkers(k) : TRUE
      BY <2>3, <3>1, DirectoryAssumption DEF ObjectsOK
    <3>3. CASE \E q \in Unlinkers(k) : TRUE
      BY <2>1, <3>3, UnlinkersStay DEF Unlinkers
    <3>4. CASE k \in objects /\ k \notin objects'
      <4>1. UpdateUnlink(r)
        <5>1. UpdateUnlink(r) \/ UpdateUpload(r)
          BY <3>4, Writes
        <5> QED
          BY <3>4, <5>1 DEF UpdateUpload
      <4>2. oldKey[r] = k
        BY <3>4, <4>1 DEF UpdateUnlink
      <4>3. /\ op'[r] = "updateCompany" /\ image'[r] /\ oldKey'[r] = k
            /\ pc'[r] = "upload"
        BY <4>1, <4>2 DEF UpdateUnlink, Goto, inputs, reads, KeysOK,
          DirectoryInv, TypeOK, PhaseOK
      <4> QED
        BY <2>1, <4>3 DEF Unlinkers
    <3> QED
      BY <2>1, <3>2, <3>3, <3>4
  <2> QED
    BY <2>2, <2>3
<1>2. ASSUME NEW x \in Request, op'[x] = "updateCompany", image'[x],
             pc'[x] \in {"audit", "ok"}, oldKey'[x] # None, ~Clashes(oldKey[x])'
      PROVE  logo'[target'[x]] # oldKey'[x]
  <2>1. /\ pc[x] \notin {"idle", "read", "upload", "company"}
        /\ op[x] = "updateCompany" /\ pc[x] \in {"audit", "ok", "save"}
    <3> USE <1>2 DEF Goto, Arrive, DirectoryInv, TypeOK, PhaseOK
    <3>1. CASE x = r
      <4>1. ~UpdateArrives(r) /\ ~UpdateRead(r) /\ ~UpdateUnlink(r)
        BY <3>1 DEF UpdateArrives, UpdateRead, UpdateUnlink
      <4>2. ~UpdateUpload(r) /\ ~Reject(r)
        BY <3>1 DEF UpdateUpload, Reject
      <4>3. UpdateSave(r) \/ Audit(r)
        BY <3>1, <4>1, <4>2, OpSteps
      <4> QED
        BY <3>1, <4>3 DEF UpdateSave, Audit
    <3>2. CASE x # r
      BY <3>2, OthersStay
    <3> QED
      BY <3>1, <3>2
  <2>2. /\ image[x] /\ oldKey'[x] = oldKey[x] /\ target'[x] = target[x]
    BY <1>2, <2>1, InputsKept
  <2>3. PICK k \in Key, c \in Company : k = oldKey[x] /\ c = target[x]
    BY <1>2, <2>1, <2>2 DEF DirectoryInv, TypeOK, InputsOK
  <2>4. ~Clashes(k)' /\ ~Clashes(k)
    <3>1. ~Clashes(k)'
      BY <1>2, <2>2, <2>3 DEF Clashes
    <3> QED
      BY <3>1, ClashesStay
  <2>5. PICK s \in Saved(c) : newKey[s] = k
    BY <1>2, <2>2, <2>3 DEF OriginOK
  <2>6. CASE UpdateSave(r) /\ c = target[r] /\ image[r]
    <3>1. logo'[c] = newKey[r] /\ pc[r] = "save"
      BY <2>6 DEF UpdateSave, Goto, DirectoryInv, TypeOK
    <3>2. s # r /\ s \in Request
      BY <3>1 DEF Saved
    <3>3. newKey[r] # k
      BY <2>4, <2>5, <3>2 DEF Clashes
    <3> QED
      BY <2>2, <2>3, <3>1, <3>3
  <2>7. CASE ~(UpdateSave(r) /\ c = target[r] /\ image[r])
    <3>1. logo'[c] = logo[c]
      BY <2>7, Writes DEF UpdateSave, DirectoryInv, TypeOK
    <3>2. pc[x] # "save"
      <4>1. ASSUME pc[x] = "save"
            PROVE  FALSE
        <5>1. x = r
          BY <1>2, <4>1, OthersStay DEF DirectoryInv
        <5>2. UpdateSave(r)
          BY <1>2, <4>1, <5>1, OpSteps DEF UpdateArrives, UpdateRead,
            UpdateUnlink, UpdateUpload, Audit, Reject, Goto, Arrive,
            DirectoryInv, TypeOK
        <5> QED
          BY <2>2, <2>3, <2>7, <5>1, <5>2
      <4> QED
        BY <4>1
    <3>3. logo[c] # k
      BY <1>2, <2>1, <2>2, <2>3, <2>4, <3>2 DEF ObjectsOK
    <3> QED
      BY <2>2, <2>3, <3>1, <3>3
  <2> QED
    BY <2>6, <2>7
<1> QED
  BY <1>1, <1>2 DEF ObjectsOK, Clashes, Unlinkers

\* The inductive invariant of logos.
LEMMA LogosInvariance == Spec => []LogosInv
<1>1. Init => LogosInv
  <2> SUFFICES ASSUME Init PROVE LogosInv
    OBVIOUS
  <2> USE DEF Init
  <2>1. KeysOK
    BY DEF KeysOK
  <2>2. OriginOK
    BY DEF OriginOK
  <2>3. ObjectsOK
    BY DEF ObjectsOK
  <2> QED
    BY <2>1, <2>2, <2>3 DEF LogosInv
<1>2. DirectoryInv /\ DirectoryInv' /\ LogosInv /\ [Next]_vars => LogosInv'
  <2> SUFFICES ASSUME DirectoryInv, DirectoryInv', LogosInv, [Next]_vars
               PROVE  LogosInv'
    OBVIOUS
  <2>1. CASE UNCHANGED vars
    <3> USE <2>1 DEF vars, store, companies, inputs, reads, LogosInv
    <3>1. KeysOK'
      BY DEF KeysOK
    <3>2. OriginOK'
      BY DEF OriginOK, Saved
    <3>3. ObjectsOK'
      BY DEF ObjectsOK, Clashes, Unlinkers
    <3> QED
      BY <3>1, <3>2, <3>3
  <2>2. CASE Next
    BY <2>2, KeysStep, OriginStep, ObjectsStep DEF Next, LogosInv
  <2> QED
    BY <2>1, <2>2
<1> QED
  BY <1>1, <1>2, DirectoryInvariance, PTL DEF Spec

\* The logo of a company is in the bucket, except while the update that deletes
\* it is under way, or if that update has failed.
THEOREM LogosStayIntact == Spec => []LogoIntact
<1>1. DirectoryInv /\ LogosInv => LogoIntact
  <2> SUFFICES ASSUME DirectoryInv, LogosInv, NEW c \in Company,
                      logo[c] # None, ~Clashes(logo[c]), logo[c] \notin objects
               PROVE  \E r \in Request :
                        /\ target[r] = c /\ oldKey[r] = logo[c]
                        /\ image[r] /\ pc[r] \in {"upload", "save", "failed"}
    BY DEF LogoIntact
  <2>1. PICK s \in Saved(c) : newKey[s] = logo[c]
    BY DEF LogosInv, OriginOK
  <2>2. s \in Request
    BY DEF Saved
  <2>3. PICK q \in Unlinkers(logo[c]) : TRUE
    BY <2>1, <2>2 DEF LogosInv, ObjectsOK
  <2>4. /\ q \in Request /\ op[q] = "updateCompany" /\ image[q]
        /\ oldKey[q] = logo[c]
        /\ pc[q] \in {"upload", "save", "audit", "ok", "failed"}
    BY DEF Unlinkers
  <2>5. PICK t \in Saved(target[q]) : newKey[t] = logo[c]
    BY <2>4 DEF LogosInv, OriginOK
  <2>6. t = s
    BY <2>1, <2>2, <2>5 DEF Saved, Clashes
  <2>7. target[q] = c
    BY <2>5, <2>6 DEF Saved
  <2>8. pc[q] \notin {"audit", "ok"}
    BY <2>4, <2>7 DEF LogosInv, ObjectsOK
  <2> QED
    BY <2>4, <2>7, <2>8
<1> QED
  BY <1>1, DirectoryInvariance, LogosInvariance, PTL

-----------------------------------------------------------------------------
(* Answers.                                                                *)

\* A page is written, and never taken away.
LEMMA PagesStay ==
  ASSUME DirectoryInv, NEW r \in Request, Handle(r) \/ Reject(r),
         NEW c \in Company
  PROVE  /\ page[c] # None => page'[c] # None
         /\ CreatePage(r) \/ AddPage(r) => page'[target[r]] # None
<1> USE DirectoryAssumption DEF DirectoryInv, TypeOK, InputsOK, Goto
<1>1. CASE CreatePage(r)
  BY <1>1 DEF CreatePage, InsertPage, Exists
<1>2. CASE AddPage(r)
  BY <1>2 DEF AddPage, InsertPage, Exists
<1>3. CASE SetPage(r) /\ ~CreatePage(r) /\ ~AddPage(r)
  BY <1>3 DEF SetPage, UpdatePage
<1> QED
  BY <1>1, <1>2, <1>3, Writes

\* Every step keeps the pages that were inserted.
LEMMA PagesStep ==
  ASSUME DirectoryInv, PagesOK, NEW r \in Request, Handle(r) \/ Reject(r)
  PROVE  PagesOK'
<1> DEFINE Due(x) ==
      \/ op[x] = "createCompany" /\ pc[x] \in {"default", "audit", "ok"}
      \/ op[x] = "addPage" /\ pc[x] \in {"audit", "ok"}
<1> SUFFICES ASSUME NEW x \in Request, Due(x)'
             PROVE  page'[target'[x]] # None
  BY DEF PagesOK
<1> USE DEF DirectoryInv, TypeOK, PhaseOK, Goto, Arrive
<1>1. CASE Due(x)
  <2>1. pc[x] \notin {"idle", "company"} /\ target[x] \in Company
    BY <1>1 DEF InputsOK
  <2>2. target'[x] = target[x] /\ page[target[x]] # None
    BY <1>1, <2>1, InputsKept DEF PagesOK
  <2> QED
    BY <2>1, <2>2, PagesStay
<1>2. CASE ~Due(x)
  <2>1. x = r
    BY <1>2, OthersStay
  <2>2. CASE op'[r] = "createCompany"
    <3>1. ~CreateArrives(r) /\ ~CreateInsert(r) /\ ~Reject(r)
      BY <2>1, <2>2 DEF CreateArrives, CreateInsert, Reject
    <3>2. ~CreateDefault(r) /\ ~Audit(r)
      BY <1>2, <2>1, <2>2 DEF CreateDefault, Audit
    <3>3. CreatePage(r)
      BY <2>2, <3>1, <3>2, OpSteps
    <3>4. target'[r] = target[r] /\ target[r] \in Company
      BY <3>3 DEF CreatePage, inputs, InputsOK
    <3> QED
      BY <2>1, <3>3, <3>4, PagesStay
  <2>3. CASE op'[r] = "addPage"
    <3>1. ~AddPageArrives(r) /\ ~AddPageFind(r) /\ ~Reject(r) /\ ~Audit(r)
      BY <1>2, <2>1, <2>3 DEF AddPageArrives, AddPageFind, Reject, Audit
    <3>2. CASE AddPageKnown(r)
      BY <2>1, <3>2 DEF AddPageKnown, store, companies, inputs
    <3>3. CASE AddPage(r)
      <4>1. target'[r] = target[r] /\ target[r] \in Company
        BY <3>3 DEF AddPage, inputs, InputsOK
      <4> QED
        BY <2>1, <3>3, <4>1, PagesStay
    <3> QED
      BY <2>3, <3>1, <3>2, <3>3, OpSteps
  <2> QED
    BY <2>1, <2>2, <2>3
<1> QED
  BY <1>1, <1>2

\* Every step keeps a saved logo, or replaces it by a saved one.
LEMMA LogosStep ==
  ASSUME DirectoryInv, DirectoryInv', KeysOK, LogosOK,
         NEW r \in Request, Handle(r) \/ Reject(r)
  PROVE  LogosOK'
<1> SUFFICES ASSUME NEW x \in Request, op'[x] = "updateCompany", image'[x],
                    pc'[x] \in {"audit", "ok"}
             PROVE  \E q \in Request :
                      /\ op'[q] = "updateCompany" /\ target'[q] = target'[x]
                      /\ pc'[q] \in {"audit", "ok", "failed"}
                      /\ image'[q] /\ logo'[target'[x]] = newKey'[q]
  BY DEF LogosOK, Saved
<1> USE DEF DirectoryInv, TypeOK, PhaseOK, Goto, Arrive
<1>1. ASSUME UpdateSave(r), image[r]
      PROVE  /\ r \in Saved(target[r])' /\ image'[r] /\ newKey'[r] = newKey[r]
             /\ logo'[target[r]] = newKey[r]
             /\ op'[r] = "updateCompany" /\ target'[r] = target[r]
             /\ pc'[r] = "audit"
  BY <1>1 DEF UpdateSave, Saved, inputs, reads, InputsOK
<1>2. CASE x = r /\ UpdateSave(r)
  <2>1. image[r]
    BY <1>2 DEF UpdateSave, inputs
  <2> QED
    BY <1>1, <1>2, <2>1
<1>3. CASE ~(x = r /\ UpdateSave(r))
  <2>1. op[x] = "updateCompany" /\ pc[x] \in {"audit", "ok"}
    <3>1. CASE x # r
      BY <3>1, OthersStay
    <3>2. CASE x = r
      <4>1. ~UpdateArrives(r) /\ ~UpdateRead(r) /\ ~UpdateUnlink(r)
        BY <3>2 DEF UpdateArrives, UpdateRead, UpdateUnlink
      <4>2. ~UpdateUpload(r) /\ ~Reject(r)
        BY <3>2 DEF UpdateUpload, Reject
      <4>3. Audit(r)
        BY <1>3, <3>2, <4>1, <4>2, OpSteps
      <4> QED
        BY <3>2, <4>3 DEF Audit
    <3> QED
      BY <3>1, <3>2
  <2>2. image[x] /\ target'[x] = target[x] /\ target[x] \in Company
    BY <2>1, InputsKept DEF InputsOK
  <2>3. PICK c \in Company : c = target[x]
    BY <2>2
  <2>4. PICK q \in Saved(c) : image[q] /\ logo[c] = newKey[q]
    BY <2>1, <2>2, <2>3 DEF LogosOK
  <2>5. q \in Saved(c)' /\ newKey'[q] = newKey[q] /\ image'[q] = image[q]
    BY SavedKept
  <2>6. /\ q \in Request /\ op'[q] = "updateCompany" /\ target'[q] = c
        /\ pc'[q] \in {"audit", "ok", "failed"}
    BY <2>5 DEF Saved
  <2>7. target'[x] = c
    BY <2>2, <2>3
  <2>8. CASE logo'[c] = logo[c]
    BY <2>4, <2>5, <2>6, <2>7, <2>8
  <2>9. CASE logo'[c] # logo[c]
    <3>1. UpdateSave(r)
      BY <2>9, Writes
    <3>2. c = target[r] /\ image[r]
      BY <2>9, <3>1 DEF UpdateSave
    <3> QED
      BY <1>1, <2>7, <3>1, <3>2
  <2> QED
    BY <2>8, <2>9
<1> QED
  BY <1>2, <1>3

\* Users are where the last request that was answered has put them.
MembersOK == \A r \in Request : pc[r] = "ok" => \A u \in people[r] : Placed(u) # {}

\* The three statements that put users into a company.
LEMMA MembersWritten ==
  ASSUME DirectoryInv, NEW r \in Request,
         MembersConnect(r) \/ Hire(r) \/ Move(r)
  PROVE  /\ op'[r] \in {"addUsers", "createUser", "updateUser"}
         /\ pc'[r] = "ok" /\ people' = people /\ target' = target /\ op' = op
         /\ \A u \in User : member'[u] = IF u \in people[r] THEN target[r]
                                         ELSE member[u]
BY DEF MembersConnect, Hire, Move, inputs, DirectoryInv, TypeOK, PhaseOK, Goto

\* Every step keeps users where the last of them has put them.
LEMMA MembersStep ==
  ASSUME DirectoryInv, DirectoryInv', MembersOK,
         NEW r \in Request, Handle(r) \/ Reject(r)
  PROVE  MembersOK'
<1> DEFINE Puts(q, u) == /\ op[q] \in {"addUsers", "createUser", "updateUser"}
                         /\ pc[q] = "ok" /\ u \in people[q]
                         /\ target[q] = member[u]
<1>1. \A u \in User : Placed(u) # {} <=> \E q \in Request : Puts(q, u)
  BY DEF Placed
<1>2. \A x \in Request : people[x] \subseteq User /\ people'[x] \subseteq User
  BY DEF DirectoryInv, TypeOK
<1> SUFFICES ASSUME NEW x \in Request, NEW u \in User,
                    pc'[x] = "ok", u \in people'[x]
             PROVE  \E q \in Request : Puts(q, u)'
  BY <1>2 DEF MembersOK, Placed
<1>3. CASE MembersConnect(r) \/ Hire(r) \/ Move(r)
  <2>1. /\ op'[r] \in {"addUsers", "createUser", "updateUser"}
        /\ pc'[r] = "ok" /\ people' = people /\ target' = target /\ op' = op
        /\ member'[u] = IF u \in people[r] THEN target[r] ELSE member[u]
    BY <1>3, MembersWritten
  <2>2. \A q \in Request \ {r} : pc'[q] = pc[q]
    BY OthersStay DEF DirectoryInv
  <2>3. CASE u \in people[r]
    BY <2>1, <2>3
  <2>4. CASE u \notin people[r]
    <3>1. x # r /\ pc[x] = "ok" /\ u \in people[x]
      BY <2>1, <2>2, <2>4
    <3>2. PICK q \in Request : Puts(q, u)
      BY <1>1, <3>1 DEF MembersOK
    <3> QED
      BY <2>1, <2>2, <2>4, <3>2
  <2> QED
    BY <2>3, <2>4
<1>4. CASE ~(MembersConnect(r) \/ Hire(r) \/ Move(r))
  <2>1. pc[x] = "ok"
    <3>1. CASE x # r
      BY <3>1, OthersStay DEF DirectoryInv
    <3>2. CASE x = r
      <4>1. op'[r] \in {"addUsers", "createUser", "updateUser"}
        BY <3>2 DEF DirectoryInv, InputsOK
      <4>2. MembersArrive(r) \/ HireArrives(r) \/ MoveArrives(r) \/ Reject(r)
        BY <1>4, <4>1, OpSteps
      <4> QED
        BY <3>2, <4>2 DEF MembersArrive, HireArrives, MoveArrives, Reject,
          Arrive, DirectoryInv, TypeOK
    <3> QED
      BY <3>1, <3>2
  <2>2. people'[x] = people[x]
    BY <2>1, InputsKept
  <2>3. PICK q \in Request : Puts(q, u)
    BY <1>1, <2>1, <2>2 DEF MembersOK
  <2>4. /\ op'[q] = op[q] /\ pc'[q] = pc[q] /\ people'[q] = people[q]
        /\ target'[q] = target[q]
    BY <2>3, InputsKept DEF Answered
  <2>5. member' = member
    BY <1>4, Writes
  <2> QED
    BY <2>3, <2>4, <2>5
<1> QED
  BY <1>3, <1>4

\* What is audited before it is answered is in the log.
LogOK ==
  \A r \in Request :
    /\ pc[r] = "ok"
    /\ op[r] \in {"createCompany", "updateCompany", "updatePage", "addCategory",
                  "renameCategory", "deleteCategory"}
    => r \in audited

\* Every step keeps what was answered in the audit log.
LEMMA LogStep ==
  ASSUME DirectoryInv, LogOK, NEW r \in Request, Handle(r) \/ Reject(r)
  PROVE  LogOK'
<1> SUFFICES ASSUME NEW x \in Request, pc'[x] = "ok",
                    op'[x] \in {"createCompany", "updateCompany", "updatePage",
                                "addCategory", "renameCategory",
                                "deleteCategory"}
             PROVE  x \in audited'
  BY DEF LogOK
<1>1. audited \subseteq audited' /\ (Audit(r) => r \in audited')
  BY Writes DEF Audit
<1>2. CASE x = r
  BY <1>1, <1>2, OpSteps
<1>3. CASE x # r
  BY <1>1, <1>3, OthersStay DEF LogOK, DirectoryInv
<1> QED
  BY <1>2, <1>3

\* What was answered has been done, also when other requests work on the same
\* company.
THEOREM AnswersAreDone == Spec => []AnsweredIsDone
<1> DEFINE Done == PagesOK /\ LogosOK /\ MembersOK /\ LogOK
<1>1. Init => Done
  BY DEF Init, PagesOK, LogosOK, MembersOK, LogOK
<1>2. DirectoryInv /\ DirectoryInv' /\ LogosInv /\ Done /\ [Next]_vars => Done'
  <2> SUFFICES ASSUME DirectoryInv, DirectoryInv', LogosInv, Done, [Next]_vars
               PROVE  Done'
    OBVIOUS
  <2>1. CASE UNCHANGED vars
    <3> USE <2>1 DEF vars, store, companies, inputs, reads
    <3>1. PagesOK' /\ MembersOK' /\ LogOK'
      BY DEF PagesOK, MembersOK, LogOK, Placed
    <3>2. LogosOK'
      BY DEF LogosOK, Saved
    <3> QED
      BY <3>1, <3>2
  <2>2. CASE Next
    BY <2>2, PagesStep, LogosStep, MembersStep, LogStep DEF Next, LogosInv
  <2> QED
    BY <2>1, <2>2
<1>3. Done => AnsweredIsDone
  BY DEF PagesOK, LogosOK, MembersOK, LogOK, AnsweredIsDone
<1> QED
  BY <1>1, <1>2, <1>3, DirectoryInvariance, LogosInvariance, PTL DEF Spec

\* Rows of companies are inserted by the first statement of a creation only, and
\* none is deleted.
LEMMA CompaniesStay ==
  ASSUME DirectoryInv, NEW r \in Request, Handle(r) \/ Reject(r),
         NEW c \in Company, name'[c] # None
  PROVE  \/ name[c] # None
         \/ /\ op'[r] = "createCompany" /\ target'[r] = c
            /\ pc'[r] = "page"
<1> USE DEF DirectoryInv, TypeOK, PhaseOK, Goto
<1>1. CASE CreateInsert(r)
  BY <1>1 DEF CreateInsert, InsertCompany
<1>2. CASE UpdateSave(r)
  BY <1>2 DEF UpdateSave, Exists
<1> QED
  BY <1>1, <1>2, Writes

\* Every step keeps the pages of companies, or has a creation to blame.
LEMMA CreatedStep ==
  ASSUME DirectoryInv, CreatedWhole, NEW r \in Request, Handle(r) \/ Reject(r)
  PROVE  CreatedWhole'
<1> SUFFICES ASSUME NEW c \in Company, name'[c] # None, page'[c] = None
             PROVE  \E q \in Request : /\ op'[q] = "createCompany"
                                      /\ target'[q] = c
                                      /\ pc'[q] \in {"page", "failed"}
  BY DEF CreatedWhole, Exists
<1>1. CASE name[c] = None
  BY <1>1, CompaniesStay
<1>2. CASE name[c] # None
  <2>1. page[c] = None /\ ~(CreatePage(r) /\ target[r] = c)
    BY PagesStay
  <2>2. PICK q \in Request : /\ op[q] = "createCompany" /\ target[q] = c
                             /\ pc[q] \in {"page", "failed"}
    BY <1>2, <2>1 DEF CreatedWhole, Exists
  <2>3. /\ op'[q] = "createCompany" /\ target'[q] = c
        /\ pc[q] = "failed" => pc'[q] = "failed"
    BY <2>2, InputsKept DEF Answered
  <2>4. pc'[q] \in {"page", "failed"}
    <3> USE DEF DirectoryInv, TypeOK, Goto, Arrive
    <3>1. CASE q # r
      BY <2>2, <3>1, OthersStay
    <3>2. CASE q = r /\ pc[q] = "page"
      <4>1. ~CreateArrives(r) /\ ~CreateInsert(r) /\ ~CreateDefault(r) /\ ~Audit(r)
        BY <3>2 DEF CreateArrives, CreateInsert, CreateDefault, Audit
      <4>2. Reject(r)
        BY <2>1, <2>2, <2>3, <3>2, <4>1, OpSteps
      <4> QED
        BY <3>2, <4>2 DEF Reject
    <3>3. CASE q = r /\ pc[q] # "page"
      BY <2>2, <2>3, <3>3
    <3> QED
      BY <3>1, <3>2, <3>3
  <2> QED
    BY <2>3, <2>4
<1> QED
  BY <1>1, <1>2

\* A company has its page, except while it is being created, or if that failed.
THEOREM CompaniesAreWhole == Spec => []CreatedWhole
<1>1. Init => CreatedWhole
  BY DirectoryAssumption DEF Init, Found, CreatedWhole, Exists
<1>2. DirectoryInv /\ CreatedWhole /\ [Next]_vars => CreatedWhole'
  <2> SUFFICES ASSUME DirectoryInv, CreatedWhole, [Next]_vars
               PROVE  CreatedWhole'
    OBVIOUS
  <2>1. CASE UNCHANGED vars
    BY <2>1 DEF vars, store, companies, inputs, CreatedWhole, Exists
  <2> QED
    BY <2>1, CreatedStep DEF Next
<1> QED
  BY <1>1, <1>2, DirectoryInvariance, PTL DEF Spec

-----------------------------------------------------------------------------
(* A bulk edit that no other request overlaps.                             *)

\* What bulk edit r has done, as long as the requests S are all that have come.
EditAlone(r, S) ==
  /\ S \subseteq Started
  /\ Started = S =>
       /\ r \in S /\ op[r] = "editCategories"
       /\ \A q \in S \ {r} : pc[q] \in Answered
       /\ pc[r] \in {"update", "insert"} =>
            \A k \in Category : owner[k] = target[r] <=> k \in known[r]
       /\ pc[r] = "insert" =>
            \A k \in Sent(r) \cap known[r] : label[k] = list[r][k]
       /\ pc[r] = "delete" =>
            \A k \in Category : owner[k] = target[r] <=> k \in known[r] \cup Sent(r)
       /\ pc[r] = "ok" =>
            \A k \in Category : owner[k] = target[r] <=> k \in Sent(r)
       /\ pc[r] \in {"delete", "ok"} =>
            \A k \in Sent(r) : label[k] = list[r][k]

\* A request that has started has started for good; an answered one is still.
LEMMA StartedStays ==
  ASSUME DirectoryInv, NEW r \in Request, Handle(r) \/ Reject(r)
  PROVE  /\ Started \subseteq Started' /\ r \in Started'
         /\ pc[r] \notin Answered
<1> USE DEF DirectoryInv, TypeOK, Goto, Arrive, Answered
<1>1. pc'[r] # "idle" /\ pc[r] \notin Answered
  <2>1. CASE Audit(r) \/ Reject(r)
    BY <2>1 DEF Audit, Reject
  <2>2. CASE CreateArrives(r) \/ MembersArrive(r) \/ AddPageArrives(r)
    BY <2>2 DEF CreateArrives, MembersArrive, AddPageArrives
  <2>3. CASE SetPageArrives(r) \/ UpdateArrives(r)
    BY <2>3 DEF SetPageArrives, UpdateArrives
  <2>4. CASE AddArrives(r) \/ RenameArrives(r) \/ DropArrives(r)
    BY <2>4 DEF AddArrives, RenameArrives, DropArrives
  <2>5. CASE EditArrives(r) \/ EditRead(r) \/ EditUpdate(r)
    BY <2>5 DEF EditArrives, EditRead, EditUpdate
  <2>6. CASE EditInsert(r) \/ EditDelete(r) \/ DropFind(r) \/ Drop(r)
    BY <2>6 DEF EditInsert, EditDelete, DropFind, Drop
  <2>7. CASE Rename(r) \/ Add(r)
    BY <2>7 DEF Rename, Add
  <2>8. CASE CreateInsert(r) \/ CreatePage(r) \/ CreateDefault(r)
    BY <2>8 DEF CreateInsert, CreatePage, CreateDefault
  <2>9. CASE MembersConnect(r) \/ AddPageKnown(r) \/ AddPageFind(r) \/ AddPage(r)
    BY <2>9 DEF MembersConnect, AddPageKnown, AddPageFind, AddPage
  <2>10. CASE SetPage(r) \/ UpdateRead(r) \/ UpdateUnlink(r) \/ UpdateUpload(r)
    BY <2>10 DEF SetPage, UpdateRead, UpdateUnlink, UpdateUpload
  <2>11. CASE UpdateSave(r)
    BY <2>11 DEF UpdateSave
  <2>12. CASE HireArrives(r) \/ Hire(r) \/ MoveArrives(r) \/ Move(r)
    BY <2>12 DEF HireArrives, Hire, MoveArrives, Move
  <2> QED
    BY <2>1, <2>2, <2>3, <2>4, <2>5, <2>6, <2>7, <2>8, <2>9, <2>10, <2>11,
       <2>12
    DEF Handle, CompaniesNext, CategoriesNext
<1>2. \A q \in Request \ {r} : pc'[q] = pc[q]
  BY OthersStay
<1> QED
  BY <1>1, <1>2 DEF Started

\* Every step of a bulk edit does its part of the list, if it is alone.
LEMMA EditAloneStep ==
  ASSUME DirectoryInv, NEW S, NEW r, EditAlone(r, S), [Next]_vars
  PROVE  EditAlone(r, S)'
<1>1. CASE UNCHANGED vars
  BY <1>1 DEF vars, store, categories, inputs, reads, EditAlone, Started, Sent
<1>2. ASSUME NEW q \in Request, Handle(q) \/ Reject(q)
      PROVE  EditAlone(r, S)'
  <2>1. /\ Started \subseteq Started' /\ q \in Started'
        /\ pc[q] \notin Answered
    BY <1>2, StartedStays
  <2>2. S \subseteq Started'
    BY <2>1 DEF EditAlone
  <2>3. CASE Started' # S
    BY <2>2, <2>3 DEF EditAlone
  <2>4. CASE Started' = S
    <3>1. Started = S /\ q = r /\ pc[r] # "idle" /\ op[r] = "editCategories"
      BY <2>1, <2>4 DEF EditAlone, Started
    <3>2. /\ r \in Request /\ op'[r] = op[r] /\ list'[r] = list[r]
          /\ pc[r] # "company" /\ target'[r] = target[r]
          /\ pc[r] # "list" => known'[r] = known[r]
          /\ Sent(r)' = Sent(r)
      BY <1>2, <3>1, InputsKept DEF DirectoryInv, PhaseOK, Sent
    <3>3. \A p \in S \ {r} : pc'[p] \in Answered
      BY <1>2, <3>1, OthersStay DEF EditAlone, Started, DirectoryInv
    <3> DEFINE Rows == known[r] \cup Sent(r)
    <3>4. /\ pc[r] \in {"update", "insert"} =>
               \A k \in Category : owner[k] = target[r] <=> k \in known[r]
          /\ pc[r] = "insert" =>
               \A k \in Sent(r) \cap known[r] : label[k] = list[r][k]
          /\ pc[r] = "delete" =>
               /\ \A k \in Category : owner[k] = target[r] <=> k \in Rows
               /\ \A k \in Sent(r) : label[k] = list[r][k]
      BY <3>1 DEF EditAlone
    <3> USE DEF DirectoryInv, TypeOK, Goto
    <3> DEFINE Done ==
          /\ pc'[r] \in {"update", "insert"} =>
               \A k \in Category : owner'[k] = target[r] <=> k \in known'[r]
          /\ pc'[r] = "insert" =>
               \A k \in Sent(r) \cap known'[r] : label'[k] = list[r][k]
          /\ pc'[r] = "delete" =>
               \A k \in Category : owner'[k] = target[r] <=>
                                    k \in known'[r] \cup Sent(r)
          /\ pc'[r] = "ok" =>
               \A k \in Category : owner'[k] = target[r] <=> k \in Sent(r)
          /\ pc'[r] \in {"delete", "ok"} =>
               \A k \in Sent(r) : label'[k] = list[r][k]
    <3> SUFFICES Done
      BY <2>4, <3>1, <3>2, <3>3 DEF EditAlone
    <3>5. CASE EditRead(r)
      BY <3>1, <3>5 DEF EditRead, CategoriesOf, store, categories
    <3>6. CASE EditUpdate(r)
      <4>1. /\ pc[r] = "update" /\ pc'[r] = "insert" /\ known' = known
            /\ UpdateCategories(target[r],
                                [k \in Sent(r) \cap known[r] |-> list[r][k]])
        BY <3>1, <3>6 DEF EditUpdate, reads
      <4>2. /\ label' = [k \in Category |-> IF k \in Sent(r) \cap known[r]
                                            THEN list[r][k] ELSE label[k]]
            /\ owner' = [k \in Category |-> IF k \in Sent(r) \cap known[r]
                                            THEN target[r] ELSE owner[k]]
        BY <4>1, Updated
      <4> QED
        BY <3>4, <4>1, <4>2 DEF Sent
    <3>7. CASE EditInsert(r)
      <4>1. /\ pc[r] = "insert" /\ pc'[r] = "delete" /\ known' = known
            /\ InsertCategories(target[r],
                                [k \in Sent(r) \ known[r] |-> list[r][k]])
        BY <3>1, <3>7 DEF EditInsert, reads
      <4>2. /\ label' = [k \in Category |-> IF k \in Sent(r) \ known[r]
                                            THEN list[r][k] ELSE label[k]]
            /\ owner' = [k \in Category |-> IF k \in Sent(r) \ known[r]
                                            THEN target[r] ELSE owner[k]]
        BY <4>1, Inserted
      <4> QED
        BY <3>4, <4>1, <4>2 DEF Sent
    <3>8. CASE EditDelete(r)
      <4>1. /\ pc[r] = "delete" /\ pc'[r] = "ok" /\ target[r] \in Company
            /\ label' = [k \in Category |-> IF k \in known[r] \ Sent(r)
                                            THEN None ELSE label[k]]
            /\ owner' = [k \in Category |-> IF k \in known[r] \ Sent(r)
                                            THEN None ELSE owner[k]]
        BY <3>1, <3>8 DEF EditDelete, DeleteCategories, InputsOK
      <4> QED
        BY <3>4, <4>1, DirectoryAssumption DEF Sent
    <3>9. CASE Reject(r)
      BY <3>1, <3>9 DEF Reject
    <3>10. ~EditArrives(r)
      BY <3>1 DEF EditArrives, Arrive
    <3> HIDE DEF Done
    <3> QED
      BY <1>2, <3>1, <3>2, <3>5, <3>6, <3>7, <3>8, <3>9, <3>10, OpSteps
  <2> QED
    BY <2>3, <2>4
<1> QED
  BY <1>1, <1>2 DEF Next

\* "Category updates succeeded": a bulk edit that no other request overlaps
\* leaves the categories it was sent, with their labels, and no others.
THEOREM EditsAreStored == Spec => EditedIsStored
<1> DEFINE Asked(r, S) == /\ pc[r] = "list" /\ Started = S
                          /\ \A q \in S \ {r} : pc[q] \in Answered
           Stored(r, S) == pc[r] = "ok" /\ Started = S =>
                             /\ CategoriesOf(target[r]) = Sent(r)
                             /\ \A k \in Sent(r) : label[k] = list[r][k]
<1>1. ASSUME NEW r \in Request, NEW S \in SUBSET Request
      PROVE  Spec => [](Asked(r, S) => []Stored(r, S))
  <2>1. DirectoryInv /\ Asked(r, S) => EditAlone(r, S)
    BY DEF DirectoryInv, PhaseOK, EditAlone, Started
  <2>2. DirectoryInv /\ EditAlone(r, S) /\ [Next]_vars => EditAlone(r, S)'
    BY EditAloneStep
  <2>3. EditAlone(r, S) => Stored(r, S)
    BY DEF EditAlone, CategoriesOf, Sent
  <2> HIDE DEF Asked, Stored
  <2> QED
    BY <2>1, <2>2, <2>3, DirectoryInvariance, PTL DEF Spec
<1> QED
  BY <1>1 DEF EditedIsStored
=============================================================================

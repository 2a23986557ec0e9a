--------------------------- MODULE DirectorySystem ---------------------------
(***************************************************************************)
(* The services that keep companies, their logos, reporting pages and      *)
(* categories, composed.                                                   *)
(***************************************************************************)
EXTENDS Companies, Categories

Handle(r) == CompaniesNext(r) \/ CategoriesNext(r) \/ Audit(r)

Next == \E r \in Request : Handle(r) \/ Reject(r)

Spec == Init /\ [][Next]_vars

-----------------------------------------------------------------------------
\* Updates of company c that have written the row.
Saved(c) ==
  {r \in Request : /\ op[r] = "updateCompany" /\ target[r] = c
                   /\ pc[r] \in {"audit", "ok", "failed"}}

\* Answered requests that put user u where it is.
Placed(u) ==
  {r \in Request : /\ op[r] \in {"addUsers", "createUser", "updateUser"}
                   /\ pc[r] = "ok" /\ u \in people[r] /\ target[r] = member[u]}

\* What was answered has been done, also when other requests work on the same
\* company: a company that was created has its page, a user that was put into a
\* company is there unless another request that was answered has put it into
\* another one, a logo that was sent is that of the company unless another
\* update has replaced it, and the audit log knows.
AnsweredIsDone ==
  \A r \in Request : pc[r] = "ok" =>
    /\ op[r] \in {"createCompany", "updateCompany", "updatePage", "addCategory",
                  "renameCategory", "deleteCategory"} => r \in audited
    /\ op[r] \in {"createCompany", "addPage"} => page[target[r]] # None
    /\ \A u \in people[r] : Placed(u) # {}
    /\ op[r] = "updateCompany" /\ image[r] =>
         \E q \in Saved(target[r]) : image[q] /\ logo[target[r]] = newKey[q]

\* A company has its reporting page, which anonymous reports come through,
\* except between the statements of the request that creates it, or if that
\* request has failed after the first of them; another request may have added
\* the page meanwhile.
CreatedWhole ==
  \A c \in Company : Exists(c) /\ page[c] = None =>
    \E r \in Request : /\ op[r] = "createCompany" /\ target[r] = c
                       /\ pc[r] \in {"page", "failed"}

\* Two uploads at the same time were given one key.
Clashes(k) == \E r, q \in Request : r # q /\ newKey[r] = k /\ newKey[q] = k

\* The logo of a company is in the bucket, except while the update that deletes
\* it is under way, or if that update has failed, which may leave the row
\* without an object: updates of one company that overlap do not take each
\* other's logos away.  Logos uploaded at one time under one key are left out.
LogoIntact ==
  \A c \in Company : logo[c] # None /\ ~Clashes(logo[c]) =>
    \/ logo[c] \in objects
    \/ \E r \in Request : /\ target[r] = c /\ oldKey[r] = logo[c]
                          /\ image[r] /\ pc[r] \in {"upload", "save", "failed"}

-----------------------------------------------------------------------------
\* A category that was added stays until a request deletes it that knew it: a
\* bulk edit does not delete what was added after it had read the categories.
AddedStays ==
  \A r \in Request : op[r] = "addCategory" /\ pc[r] \in {"audit", "ok"} =>
    \/ label[item[r]] # None
    \/ \E q \in Request :
         \/ op[q] = "deleteCategory" /\ item[q] = item[r]
         \/ op[q] = "editCategories" /\ item[r] \in known[q] \ Sent(q)

\* A bulk edit that is refused half way, be it by the database or because the
\* list takes the label of a category that it also deletes, has lost none of the
\* categories it found: only the edit that answers has deleted some.
RefusedEditLosesNothing ==
  \A r \in Request, k \in Category :
    op[r] = "editCategories" /\ k \in known[r] =>
      \/ label[k] # None
      \/ pc[r] = "ok" /\ k \notin Sent(r)
      \/ \E q \in Request \ {r} :
           \/ op[q] = "deleteCategory" /\ item[q] = k
           \/ op[q] = "editCategories" /\ k \in known[q] \ Sent(q)

Started == {r \in Request : pc[r] # "idle"}

\* "Category updates succeeded": a bulk edit that no other request overlaps
\* leaves the categories it was sent, with their labels, and no others.
EditedIsStored ==
  \A r \in Request, S \in SUBSET Request :
    []((/\ pc[r] = "list" /\ Started = S
        /\ \A q \in S \ {r} : pc[q] \in Answered)
       => [](pc[r] = "ok" /\ Started = S =>
               /\ CategoriesOf(target[r]) = Sent(r)
               /\ \A k \in Sent(r) : label[k] = list[r][k]))
=============================================================================

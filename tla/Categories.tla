------------------------------ MODULE Categories ------------------------------
(***************************************************************************)
(* The categories of a company: added, renamed and deleted one by one by   *)
(* CompaniesService, or replaced by a list by CategoriesService.           *)
(***************************************************************************)
EXTENDS DirectoryStore

\* POST companies/:companyId/categories.
AddArrives(r) ==
  /\ Arrive(r, "addCategory", "add")
  /\ \E c \in Company : Exists(c) /\ target' = [target EXCEPT ![r] = c]
  /\ \E l \in Label : given' = [given EXCEPT ![r] = l]
  /\ UNCHANGED <<store, item, image, list, people, reads>>

Add(r) ==
  /\ Goto(r, "add", "audit")
  /\ \E k \in Category : /\ InsertCategories(target[r], [j \in {k} |-> given[r]])
                         /\ item' = [item EXCEPT ![r] = k]
  /\ UNCHANGED <<companies, objects, now, audited, target, given, image, list,
                 people, reads>>

\* PATCH companies/:companyId/categories/:categoryId.
RenameArrives(r) ==
  /\ Arrive(r, "renameCategory", "rename")
  /\ \E k \in Category : /\ label[k] # None
                         /\ item' = [item EXCEPT ![r] = k]
                         /\ target' = [target EXCEPT ![r] = owner[k]]
  /\ \E l \in Label : given' = [given EXCEPT ![r] = l]
  /\ UNCHANGED <<store, image, list, people, reads>>

\* A nested update: the category must be one of the company.
Rename(r) ==
  /\ Goto(r, "rename", "audit")
  /\ item[r] \in CategoriesOf(target[r])
  /\ UpdateCategories(target[r], [k \in {item[r]} |-> given[r]])
  /\ UNCHANGED <<companies, objects, now, audited, inputs, reads>>

\* DELETE companies/:companyId/categories/:categoryId.
DropArrives(r) ==
  /\ Arrive(r, "deleteCategory", "find")
  /\ \E k \in Category : /\ label[k] # None
                         /\ item' = [item EXCEPT ![r] = k]
                         /\ target' = [target EXCEPT ![r] = owner[k]]
  /\ UNCHANGED <<store, given, image, list, people, reads>>

DropFind(r) ==
  /\ Goto(r, "find", "drop")
  /\ item[r] \in CategoriesOf(target[r])
  /\ UNCHANGED <<store, inputs, reads>>

\* category.delete by id: rejects when the row is gone.
Drop(r) ==
  /\ Goto(r, "drop", "audit")
  /\ label[item[r]] # None
  /\ DeleteCategories({item[r]})
  /\ UNCHANGED <<companies, objects, now, audited, inputs, reads>>

-----------------------------------------------------------------------------
(* PATCH categories/:companyId/update-categories with a list of ids and    *)
(* labels: an id the company has is updated, another one is inserted, and  *)
(* what is not in the list is deleted.                                     *)

Sent(r) == {k \in Category : list[r][k] # None}

EditArrives(r) ==
  /\ Arrive(r, "editCategories", "list")
  /\ \E c \in Company : Exists(c) /\ target' = [target EXCEPT ![r] = c]
  /\ \E l \in [Category -> Label \cup {None}] : list' = [list EXCEPT ![r] = l]
  /\ UNCHANGED <<store, given, item, image, people, reads>>

\* findMany: the differences are taken with what is read here.
EditRead(r) ==
  /\ Goto(r, "list", "update")
  /\ known' = [known EXCEPT ![r] = CategoriesOf(target[r])]
  /\ UNCHANGED <<store, inputs, oldKey, newKey>>

\* Mutant: what is not in the list is deleted in the transaction already.
EditUpdateDeleting(r) ==
  LET gone == known[r] \ Sent(r)
  IN  /\ Goto(r, "update", "insert")
      /\ owner' = [k \in Category |-> IF k \in gone THEN None ELSE owner[k]]
      /\ label' = [k \in Category |-> IF k \in gone THEN None
                     ELSE IF k \in known[r] THEN list[r][k] ELSE label[k]]
      /\ UNCHANGED <<companies, objects, now, audited, inputs, reads>>

\* The transaction.  If a later statement is refused, it stays committed.
EditUpdate(r) ==
  /\ Goto(r, "update", "insert")
  /\ UpdateCategories(target[r], [k \in Sent(r) \cap known[r] |-> list[r][k]])
  /\ UNCHANGED <<companies, objects, now, audited, inputs, reads>>

EditInsert(r) ==
  /\ Goto(r, "insert", "delete")
  /\ InsertCategories(target[r], [k \in Sent(r) \ known[r] |-> list[r][k]])
  /\ UNCHANGED <<companies, objects, now, audited, inputs, reads>>

\* Mutant: what was not updated is deleted, insertions included.
EditDeleteRest(r) ==
  /\ Goto(r, "delete", "ok")
  /\ DeleteCategories(CategoriesOf(target[r]) \ (Sent(r) \cap known[r]))
  /\ UNCHANGED <<companies, objects, now, audited, inputs, reads>>

EditDelete(r) ==
  /\ Goto(r, "delete", "ok")
  /\ DeleteCategories(known[r] \ Sent(r))
  /\ UNCHANGED <<companies, objects, now, audited, inputs, reads>>

CategoriesNext(r) ==
  \/ AddArrives(r) \/ Add(r)
  \/ RenameArrives(r) \/ Rename(r)
  \/ DropArrives(r) \/ DropFind(r) \/ Drop(r)
  \/ EditArrives(r) \/ EditRead(r) \/ EditUpdate(r) \/ EditInsert(r)
  \/ EditDelete(r)
=============================================================================

-------------------------- MODULE DirectoryInvariant --------------------------
(***************************************************************************)
(* The inductive invariant of DirectorySystem, by the question each part   *)
(* answers.  The properties of DirectorySystem follow from it.             *)
(***************************************************************************)
EXTENDS DirectorySystem

\* Which handler a request is in, from the step it is at.
PhaseOK ==
  \A r \in Request :
    /\ pc[r] = "idle" => op[r] = None
    /\ pc[r] \in {"company", "page", "default"} => op[r] = "createCompany"
    /\ pc[r] = "members" => op[r] = "addUsers"
    /\ pc[r] = "hire" => op[r] = "createUser"
    /\ pc[r] = "move" => op[r] = "updateUser"
    /\ pc[r] \in {"findPage", "addPage"} => op[r] = "addPage"
    /\ pc[r] = "setPage" => op[r] \in {"updatePage", "editPage"}
    /\ pc[r] \in {"read", "unlink", "upload", "save"} =>
         op[r] = "updateCompany"
    /\ pc[r] = "add" => op[r] = "addCategory"
    /\ pc[r] = "rename" => op[r] = "renameCategory"
    /\ pc[r] \in {"find", "drop"} => op[r] = "deleteCategory"
    /\ pc[r] \in {"list", "update", "insert", "delete"} =>
         op[r] = "editCategories"
    /\ pc[r] = "audit" =>
         op[r] \notin {"addUsers", "createUser", "updateUser", "editPage",
                      "editCategories"}

\* What it works on, and what it was sent.
InputsOK ==
  \A r \in Request :
    /\ pc[r] \notin {"idle", "company", "failed"} => target[r] \in Company
    /\ pc[r] = "company" => given[r] \in Name
    /\ op[r] = "updateCompany" /\ pc[r] # "idle" => given[r] \in Name \cup {None}
    /\ pc[r] \in {"findPage", "addPage", "setPage"} =>
         given[r] \in Url \cup {"unset", None}
    /\ people[r] # {} =>
         op[r] \in {"addUsers", "createUser", "updateUser"}
    /\ pc[r] \in {"add", "rename"} => given[r] \in Label
    /\ pc[r] \in {"rename", "find", "drop"} => item[r] \in Category
    /\ op[r] = "addCategory" /\ pc[r] \in {"audit", "ok"} =>
         item[r] \in Category
    /\ pc[r] \in {"idle", "list"} => known[r] = {}

\* A category has a label as long as it has a company.
LabelsOK == \A k \in Category : label[k] = None <=> owner[k] = None

DirectoryInv == TypeOK /\ PhaseOK /\ InputsOK /\ LabelsOK

\* A page that was inserted stays.
PagesOK ==
  \A r \in Request :
    \/ op[r] = "createCompany" /\ pc[r] \in {"default", "audit", "ok"}
    \/ op[r] = "addPage" /\ pc[r] \in {"audit", "ok"}
    => page[target[r]] # None

\* An update draws one key, if it was sent a logo.
KeysOK ==
  \A r \in Request :
    /\ pc[r] \in {"idle", "read", "unlink", "upload"} => newKey[r] = None
    /\ pc[r] \in {"unlink", "upload"} => image[r]
    /\ pc[r] = "save" /\ image[r] => newKey[r] # None
    /\ oldKey[r] # None => op[r] = "updateCompany" /\ pc[r] # "read"

\* The key in a row, and one that was read in it, is of an update that has
\* saved it.
OriginOK ==
  /\ \A c \in Company : logo[c] # None =>
       \E q \in Saved(c) : newKey[q] = logo[c]
  /\ \A r \in Request : oldKey[r] # None =>
       \E q \in Saved(target[r]) : newKey[q] = oldKey[r]

\* The updates that may have deleted the object under key k.
Unlinkers(k) ==
  {r \in Request : /\ op[r] = "updateCompany" /\ image[r] /\ oldKey[r] = k
                   /\ pc[r] \in {"upload", "save", "audit", "ok", "failed"}}

\* An object is deleted by an update that has read its key, and once that
\* update has saved another one no row has the key again.
ObjectsOK ==
  \A r \in Request :
    /\ newKey[r] # None /\ ~Clashes(newKey[r]) =>
         newKey[r] \in objects \/ Unlinkers(newKey[r]) # {}
    /\ /\ op[r] = "updateCompany" /\ image[r] /\ pc[r] \in {"audit", "ok"}
       /\ oldKey[r] # None /\ ~Clashes(oldKey[r])
       => logo[target[r]] # oldKey[r]

LogosInv == KeysOK /\ OriginOK /\ ObjectsOK

\* A logo that was saved is replaced by another one only.
LogosOK ==
  \A r \in Request :
    op[r] = "updateCompany" /\ image[r] /\ pc[r] \in {"audit", "ok"} =>
      \E q \in Saved(target[r]) : image[q] /\ logo[target[r]] = newKey[q]
=============================================================================

----------------------------- MODULE MCDirectory -----------------------------
(***************************************************************************)
(* Instances of DirectorySystem for TLC.                                   *)
(***************************************************************************)
EXTENDS DirectoryInvariant, TLC

\* Names are chosen for what they are compared with, categories and companies
\* are any rows.
Anyone == Permutations(Request) \cup Permutations(Company)
            \cup Permutations(Category) \cup Permutations(User)
            \cup Permutations(Url) \cup Permutations(Name)

CompanyOps  == {"createCompany", "updateCompany", "addPage", "addUsers",
                "createUser", "updateUser"}
CategoryOps == {"createCompany", "updatePage", "editPage", "addCategory",
                "renameCategory", "deleteCategory", "editCategories"}
=============================================================================

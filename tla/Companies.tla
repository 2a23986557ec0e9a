------------------------------ MODULE Companies ------------------------------
(***************************************************************************)
(* CompaniesService: createCompany, addUsersToCompany, updateCompany and   *)
(* the reporting page, which ReportingPageService updates as well, and the *)
(* companyId that UsersService writes (its other columns are in Users).    *)
(* Of a page only the address is kept, which is unique.                    *)
(***************************************************************************)
EXTENDS DirectoryStore

\* POST companies.
CreateArrives(r) ==
  /\ Arrive(r, "createCompany", "company")
  /\ \E n \in Name : given' = [given EXCEPT ![r] = n]
  /\ UNCHANGED <<store, target, item, image, list, people, reads>>

\* Mutant: the page is left to addReportingPageToCompany.
CreateInsertUnpaged(r) ==
  /\ Goto(r, "company", "default")
  /\ \E c \in Company : /\ InsertCompany(c, given[r])
                        /\ target' = [target EXCEPT ![r] = c]
  /\ UNCHANGED <<logo, page, member, categories, objects, now, audited, given,
                 item, image, list, people, reads>>

CreateInsert(r) ==
  /\ Goto(r, "company", "page")
  /\ \E c \in Company : /\ InsertCompany(c, given[r])
                        /\ target' = [target EXCEPT ![r] = c]
  /\ UNCHANGED <<logo, page, member, categories, objects, now, audited, given,
                 item, image, list, people, reads>>

CreatePage(r) ==
  /\ Goto(r, "page", "default")
  /\ InsertPage(target[r], "unset")
  /\ UNCHANGED <<name, logo, member, categories, objects, now, audited, inputs,
                 reads>>

\* Mutant: the wrong name.
CreateDefaultNamed(r) ==
  /\ Goto(r, "default", "audit")
  /\ \E k \in Category : InsertCategories(target[r], [j \in {k} |-> given[r]])
  /\ UNCHANGED <<companies, objects, now, audited, inputs, reads>>

CreateDefault(r) ==
  /\ Goto(r, "default", "audit")
  /\ \E k \in Category : InsertCategories(target[r], [j \in {k} |-> Default])
  /\ UNCHANGED <<companies, objects, now, audited, inputs, reads>>

-----------------------------------------------------------------------------
\* POST companies/:companyId/users.
MembersArrive(r) ==
  /\ Arrive(r, "addUsers", "members")
  /\ \E c \in Company : Exists(c) /\ target' = [target EXCEPT ![r] = c]
  /\ \E U \in SUBSET User : people' = [people EXCEPT ![r] = U]
  /\ UNCHANGED <<store, given, item, image, list, reads>>

\* Mutant: users that are in a company already stay where they are.
MembersConnectNew(r) ==
  /\ Goto(r, "members", "ok")
  /\ member' = [u \in User |-> IF u \in people[r] /\ member[u] = None
                               THEN target[r] ELSE member[u]]
  /\ UNCHANGED <<name, logo, page, categories, objects, now, audited, inputs,
                 reads>>

\* One update connects all users; each must have a row.
MembersConnect(r) ==
  /\ Goto(r, "members", "ok")
  /\ \A u \in people[r] : member[u] # None
  /\ member' = [u \in User |-> IF u \in people[r] THEN target[r] ELSE member[u]]
  /\ UNCHANGED <<name, logo, page, categories, objects, now, audited, inputs,
                 reads>>

\* POST users: the body must name a company.
HireArrives(r) ==
  /\ Arrive(r, "createUser", "hire")
  /\ \E c \in Company : Exists(c) /\ target' = [target EXCEPT ![r] = c]
  /\ \E u \in User : people' = [people EXCEPT ![r] = {u}]
  /\ UNCHANGED <<store, given, item, image, list, reads>>

Hire(r) ==
  /\ Goto(r, "hire", "ok")
  /\ Exists(target[r])
  /\ \A u \in people[r] : member[u] = None
  /\ member' = [u \in User |-> IF u \in people[r] THEN target[r] ELSE member[u]]
  /\ UNCHANGED <<name, logo, page, categories, objects, now, audited, inputs,
                 reads>>

\* PATCH users/:id with a companyId, which is written like any other column.
MoveArrives(r) ==
  /\ Arrive(r, "updateUser", "move")
  /\ \E c \in Company : Exists(c) /\ target' = [target EXCEPT ![r] = c]
  /\ \E u \in User : /\ member[u] # None
                     /\ people' = [people EXCEPT ![r] = {u}]
  /\ UNCHANGED <<store, given, item, image, list, reads>>

Move(r) ==
  /\ Goto(r, "move", "ok")
  /\ Exists(target[r])
  /\ \A u \in people[r] : member[u] # None
  /\ member' = [u \in User |-> IF u \in people[r] THEN target[r] ELSE member[u]]
  /\ UNCHANGED <<name, logo, page, categories, objects, now, audited, inputs,
                 reads>>

-----------------------------------------------------------------------------
\* POST companies/:companyId/reporting-page.
AddPageArrives(r) ==
  /\ Arrive(r, "addPage", "findPage")
  /\ \E c \in Company : Exists(c) /\ target' = [target EXCEPT ![r] = c]
  /\ \E u \in Url \cup {None} : given' = [given EXCEPT ![r] = u]
  /\ UNCHANGED <<store, item, image, list, people, reads>>

\* A company that has a page is answered as it is.
AddPageKnown(r) ==
  /\ Goto(r, "findPage", "ok")
  /\ page[target[r]] # None
  /\ UNCHANGED <<store, inputs, reads>>

AddPageFind(r) ==
  /\ Goto(r, "findPage", "addPage")
  /\ page[target[r]] = None
  /\ UNCHANGED <<store, inputs, reads>>

AddPage(r) ==
  /\ Goto(r, "addPage", "audit")
  /\ InsertPage(target[r], IF given[r] = None THEN "unset" ELSE given[r])
  /\ UNCHANGED <<name, logo, member, categories, objects, now, audited, inputs,
                 reads>>

\* PATCH companies/:companyId/reporting-page and PATCH reporting-page/:companyId.
SetPageArrives(r) ==
  /\ \E o \in {"updatePage", "editPage"} : Arrive(r, o, "setPage")
  /\ \E c \in Company : Exists(c) /\ target' = [target EXCEPT ![r] = c]
  /\ \E u \in Url \cup {"unset", None} : given' = [given EXCEPT ![r] = u]
  /\ UNCHANGED <<store, item, image, list, people, reads>>

\* Mutant: neither service keeps an audit log.
SetPageUnlogged(r) ==
  /\ Goto(r, "setPage", "ok")
  /\ UpdatePage(target[r], given[r])
  /\ UNCHANGED <<name, logo, member, categories, objects, now, audited, inputs,
                 reads>>

\* Only CompaniesService keeps an audit log.
SetPage(r) ==
  /\ Goto(r, "setPage", IF op[r] = "updatePage" THEN "audit" ELSE "ok")
  /\ UpdatePage(target[r], given[r])
  /\ UNCHANGED <<name, logo, member, categories, objects, now, audited, inputs,
                 reads>>

-----------------------------------------------------------------------------
\* PATCH companies/:companyId with a logo, which may be an empty file, and
\* perhaps a name.
UpdateArrives(r) ==
  /\ Arrive(r, "updateCompany", "read")
  /\ \E c \in Company : Exists(c) /\ target' = [target EXCEPT ![r] = c]
  /\ \E n \in Name \cup {None} : given' = [given EXCEPT ![r] = n]
  /\ \E b \in BOOLEAN : image' = [image EXCEPT ![r] = b]
  /\ UNCHANGED <<store, item, list, people, reads>>

\* findUnique: the logo that will be replaced is the one read here.
UpdateRead(r) ==
  /\ Goto(r, "read", IF ~image[r] THEN "save"
                     ELSE IF logo[target[r]] # None THEN "unlink" ELSE "upload")
  /\ oldKey' = [oldKey EXCEPT ![r] = logo[target[r]]]
  /\ UNCHANGED <<store, inputs, newKey, known>>

UpdateUnlink(r) ==
  /\ Goto(r, "unlink", "upload")
  /\ objects' = objects \ {oldKey[r]}
  /\ UNCHANGED <<companies, categories, now, audited, inputs, reads>>

\* The clock is read for the key, here and nowhere else.
UpdateUpload(r) ==
  /\ Goto(r, "upload", "save")
  /\ now' \in now..MaxTime
  /\ objects' = objects \cup {now'}
  /\ newKey' = [newKey EXCEPT ![r] = now']
  /\ UNCHANGED <<companies, categories, audited, inputs, oldKey, known>>

\* Mutant: the key that was read is written back when there is no new one.
UpdateSaveBack(r) ==
  LET c == target[r]
  IN  /\ Goto(r, "save", "audit")
      /\ \A d \in Company \ {c} : given[r] # None => name[d] # given[r]
      /\ name' = [name EXCEPT ![c] = IF given[r] = None THEN @ ELSE given[r]]
      /\ logo' = [logo EXCEPT ![c] = IF image[r] THEN newKey[r] ELSE oldKey[r]]
      /\ UNCHANGED <<page, member, categories, objects, now, audited, inputs,
                     reads>>

\* company.update; without a new logo, the key is undefined and stays.
UpdateSave(r) ==
  LET c == target[r]
  IN  /\ Goto(r, "save", "audit")
      /\ Exists(c)
      /\ \A d \in Company \ {c} : given[r] # None => name[d] # given[r]
      /\ name' = [name EXCEPT ![c] = IF given[r] = None THEN @ ELSE given[r]]
      /\ logo' = [logo EXCEPT ![c] = IF image[r] THEN newKey[r] ELSE @]
      /\ UNCHANGED <<page, member, categories, objects, now, audited, inputs,
                     reads>>

CompaniesNext(r) ==
  \/ CreateArrives(r) \/ CreateInsert(r) \/ CreatePage(r) \/ CreateDefault(r)
  \/ MembersArrive(r) \/ MembersConnect(r)
  \/ HireArrives(r) \/ Hire(r) \/ MoveArrives(r) \/ Move(r)
  \/ AddPageArrives(r) \/ AddPageKnown(r) \/ AddPageFind(r) \/ AddPage(r)
  \/ SetPageArrives(r) \/ SetPage(r)
  \/ UpdateArrives(r) \/ UpdateRead(r) \/ UpdateUnlink(r) \/ UpdateUpload(r)
  \/ UpdateSave(r)
=============================================================================

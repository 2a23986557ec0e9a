---------------------------- MODULE DirectoryStore ----------------------------
(***************************************************************************)
(* What the services that keep companies share: the Company, ReportingPage *)
(* and Category tables of prisma/schema.prisma with their unique indexes,  *)
(* the logos in the R2 bucket, and the HTTP requests in flight.  Requests  *)
(* move as in CaseStore: one action per awaited call.                      *)
(***************************************************************************)
EXTENDS Naturals, SequencesExt

CONSTANTS
  Request,   \* requests; each is used for one call, which bounds a run
  Company, Category,   \* uuids of rows
  Name, Label, Url,    \* names of companies and categories, page addresses
  User,      \* staff members
  Default,   \* the category every company starts with
  MaxTime,   \* bound on the clock, in ticks of Date.now()
  Ops,       \* the operations clients use in this instance
  None

\* The key of a logo is its upload time; all logos have one file name here.
Key == 0..MaxTime

Operation == {"createCompany", "updateCompany", "addPage", "updatePage",
              "editPage", "addUsers", "createUser", "updateUser",
              "addCategory", "renameCategory", "deleteCategory",
              "editCategories"}

ASSUME DirectoryAssumption ==
  /\ Ops \subseteq Operation /\ None \notin Operation
  /\ MaxTime \in Nat /\ Default \in Label
  /\ None \notin Company /\ None \notin Key /\ None \notin Name
  /\ None \notin Label /\ None \notin Url /\ "unset" \notin Url
  /\ "unset" # None

VARIABLES
  name,      \* name[c], or None if there is no Company row c
  logo,      \* logo[c]: logoKey of row c
  page,      \* page[c]: reportingPageUrl of the page of c, "unset" if the
             \*          row has none, None if there is no row
  owner,     \* owner[k]: companyId of the Category row k
  label,     \* label[k]: its categoryName
  member,    \* member[u]: companyId of row u of User, None if there is none
  objects,   \* keys of the logos in the bucket
  now,       \* Date.now()
  audited,   \* requests that wrote an AuditLog row
  pc, op,    \* where request r is, and which operation it runs
  target,    \* target[r]: the company it works on
  given,     \* given[r]: the name, label or url it was sent, if any
  item,      \* item[r]: the category it works on, or has added
  image,     \* image[r]: was it sent a logo that is not empty
  oldKey,    \* oldKey[r]: the logoKey it has read
  newKey,    \* newKey[r]: the key of its upload
  list,      \* list[r]: the categories it was sent, None for those left out
  known,     \* known[r]: the categories it has read
  people     \* people[r]: the users it names

companies == <<name, logo, page, member>>
categories == <<owner, label>>
store == <<companies, categories, objects, now, audited>>
inputs == <<target, given, item, image, list, people>>
reads == <<oldKey, newKey, known>>
vars == <<store, pc, op, inputs, reads>>

Step == {"idle", "company", "page", "default", "members", "hire", "move",
         "add", "find", "drop", "rename", "findPage", "addPage", "setPage",
         "read", "unlink", "upload", "save", "list", "update", "insert",
         "delete", "audit", "ok", "failed"}

TypeOK ==
  /\ name \in [Company -> Name \cup {None}]
  /\ logo \in [Company -> Key \cup {None}]
  /\ page \in [Company -> Url \cup {"unset", None}]
  /\ owner \in [Category -> Company \cup {None}]
  /\ label \in [Category -> Label \cup {None}]
  /\ member \in [User -> Company \cup {None}]
  /\ objects \subseteq Key /\ now \in Key
  /\ audited \subseteq Request
  /\ pc \in [Request -> Step]
  /\ op \in [Request -> Ops \cup {None}]
  /\ target \in [Request -> Company \cup {None}]
  /\ given \in [Request -> Name \cup Label \cup Url \cup {"unset", None}]
  /\ item \in [Request -> Category \cup {None}]
  /\ image \in [Request -> BOOLEAN]
  /\ oldKey \in [Request -> Key \cup {None}]
  /\ newKey \in [Request -> Key \cup {None}]
  /\ list \in [Request -> [Category -> Label \cup {None}]]
  /\ known \in [Request -> SUBSET Category]
  /\ people \in [Request -> SUBSET User]

\* What earlier requests may have left: companies without logos, their pages
\* without addresses, and their users and categories.
Found ==
  /\ name \in {f \in [Company -> Name \cup {None}] :
                \A c, d \in Company : c # d /\ f[c] # None => f[c] # f[d]}
  /\ page = [c \in Company |-> IF name[c] = None THEN None ELSE "unset"]
  /\ member \in [User -> {c \in Company : name[c] # None} \cup {None}]
  /\ owner \in [Category -> {c \in Company : name[c] # None} \cup {None}]
  /\ label \in {f \in [Category -> Label \cup {None}] : \A j, k \in Category :
                 /\ f[k] = None <=> owner[k] = None
                 /\ j # k /\ owner[j] = owner[k] /\ f[k] # None => f[j] # f[k]}

Init ==
  /\ Found
  /\ logo = [c \in Company |-> None]
  /\ objects = {} /\ now = 0 /\ audited = {}
  /\ pc = [r \in Request |-> "idle"]
  /\ op = [r \in Request |-> None]
  /\ target = [r \in Request |-> None]
  /\ given = [r \in Request |-> None]
  /\ item = [r \in Request |-> None]
  /\ image = [r \in Request |-> FALSE]
  /\ oldKey = [r \in Request |-> None]
  /\ newKey = [r \in Request |-> None]
  /\ list = [r \in Request |-> [k \in Category |-> None]]
  /\ known = [r \in Request |-> {}]
  /\ people = [r \in Request |-> {}]

-----------------------------------------------------------------------------
(* SQL statements, with the unique indexes that may refuse them.           *)

Exists(c) == c \in Company /\ name[c] # None

CategoriesOf(c) == {k \in Category : owner[k] = c}

InsertCompany(c, n) ==
  /\ ~Exists(c)
  /\ \A d \in Company : name[d] # n
  /\ name' = [name EXCEPT ![c] = n]

InsertPage(c, u) ==
  /\ Exists(c) /\ page[c] = None
  /\ u = "unset" \/ \A d \in Company : page[d] # u
  /\ page' = [page EXCEPT ![c] = u]

\* A null takes the address away; one that was left out stays.
UpdatePage(c, u) ==
  /\ page[c] # None
  /\ u \in {"unset", None} \/ \A d \in Company \ {c} : page[d] # u
  /\ page' = [page EXCEPT ![c] = IF u = None THEN @ ELSE u]

\* One statement for rows F of company c, with a label for each: the ids are
\* free, and labels are unique within the company.
InsertCategories(c, F) ==
  LET new == DOMAIN F
  IN  /\ Exists(c)
      /\ \A k \in new : /\ label[k] = None
                        /\ \A j \in CategoriesOf(c) : label[j] # F[k]
                        /\ \A j \in new \ {k} : F[j] # F[k]
      /\ owner' = [k \in Category |-> IF k \in new THEN c ELSE owner[k]]
      /\ label' = [k \in Category |-> IF k \in new THEN F[k] ELSE label[k]]

\* The updates of a transaction run one after the other, and the index on
\* company and label is checked after each.
UpdateCategories(c, F) ==
  /\ \A k \in DOMAIN F : label[k] # None
  /\ \E s \in SetToSeqs(DOMAIN F) :
       \A n \in DOMAIN s :
         LET done == {s[m] : m \in 1..(n - 1)}
             Now(j) == IF j \in done THEN F[j] ELSE label[j]
         IN  \A j \in (CategoriesOf(c) \cup done) \ {s[n]} :
               Now(j) # F[s[n]]
  /\ label' = [k \in Category |-> IF k \in DOMAIN F THEN F[k] ELSE label[k]]
  /\ owner' = [k \in Category |-> IF k \in DOMAIN F THEN c ELSE owner[k]]

DeleteCategories(S) ==
  /\ owner' = [k \in Category |-> IF k \in S THEN None ELSE owner[k]]
  /\ label' = [k \in Category |-> IF k \in S THEN None ELSE label[k]]

-----------------------------------------------------------------------------
(* Requests.                                                               *)

Answered == {"ok", "failed"}

Arrive(r, o, step) ==
  /\ pc[r] = "idle"
  /\ o \in Ops
  /\ op' = [op EXCEPT ![r] = o]
  /\ pc' = [pc EXCEPT ![r] = step]

Goto(r, from, to) ==
  /\ pc[r] = from
  /\ pc' = [pc EXCEPT ![r] = to]
  /\ UNCHANGED op

\* An awaited call rejects, or the process dies: nothing is undone.
Reject(r) ==
  /\ pc[r] \notin Answered \cup {"idle"}
  /\ pc' = [pc EXCEPT ![r] = "failed"]
  /\ UNCHANGED <<store, op, inputs, reads>>

\* auditLog.createAuditLog, the last call of most handlers.
Audit(r) ==
  /\ Goto(r, "audit", "ok")
  /\ audited' = audited \cup {r}
  /\ UNCHANGED <<companies, categories, objects, now, inputs, reads>>
=============================================================================

------------------------------- MODULE Listings -------------------------------
(***************************************************************************)
(* The paginated reads.  Each answers one page of a table, newest rows     *)
(* first, and how many rows there are: two statements, with nothing        *)
(* between them that keeps the table still.  A behaviour is about one of   *)
(* the listings, the table it reads, and one client that walks its pages,  *)
(* from the first to the last one the answers speak of.                    *)
(***************************************************************************)
EXTENDS Naturals, SequencesExt

CONSTANTS
  Row,     \* uuids of rows
  Kinds,   \* the listings in this instance
  Limit,   \* page sizes clients ask for
  None, Gone

ASSUME ListingAssumption ==
  /\ Kinds \subseteq {"companies", "users", "companyUsers", "incidents",
                     "companyIncidents", "auditLogs", "handlerIncidents"}
  /\ Limit \subseteq 1..100
  /\ None \notin Nat /\ Gone \notin Nat /\ None # Gone

VARIABLES
  kind,     \* the listing this behaviour is about
  limit,    \* the page size and
  searching,   \* whether there is a search text, which the client keeps to
  created,  \* created[x]: createdAt of row x, None if it was never inserted,
            \*             Gone if it was deleted
  mine,     \* rows of the company, or of the handler, the client asks for
  hits,     \* rows its search text matches
  now,      \* Date.now()
  pc,       \* is the client "idle", "walking", or "done" with all pages
  page,     \* the page it asks for
  todo,     \* the statements of the page that have not been answered
  total,    \* meta.total of the page
  shown     \* shown[p]: the rows of page p

question == <<kind, limit, searching>>
table == <<created, mine, hits, now>>
walk == <<pc, page, todo, total, shown>>
vars == <<question, table, walk>>

-----------------------------------------------------------------------------
(* The services' functions.  scoped: the where clause names the company or *)
(* the handler; searched: it has the search text; ordered: by createdAt,   *)
(* descending; awaited: each call in the list given to Promise.all is      *)
(* awaited there, so the count is sent when the rows are back.             *)

\* Mutant: the count is sent with the query.
getCompaniesAtOnce == [table |-> "Company", scoped |-> FALSE, searched |-> TRUE,
                       ordered |-> TRUE, awaited |-> FALSE]
getCompanies == [table |-> "Company", scoped |-> FALSE, searched |-> TRUE,
                 ordered |-> TRUE, awaited |-> TRUE]

getUsers == [table |-> "User", scoped |-> FALSE, searched |-> TRUE,
             ordered |-> TRUE, awaited |-> TRUE]

getCompanyUsers == [table |-> "User", scoped |-> TRUE, searched |-> TRUE,
                    ordered |-> TRUE, awaited |-> TRUE]

getIncidents == [table |-> "Incident", scoped |-> FALSE, searched |-> TRUE,
                 ordered |-> TRUE, awaited |-> TRUE]

\* The company is looked up, and is not part of the where clause.
getCompanyIncidents == [table |-> "Incident", scoped |-> FALSE,
                        searched |-> TRUE, ordered |-> TRUE, awaited |-> TRUE]

getCompanyAuditLogs == [table |-> "AuditLog", scoped |-> TRUE,
                        searched |-> FALSE, ordered |-> TRUE, awaited |-> FALSE]

getHandlerIncidents == [table |-> "Incident", scoped |-> TRUE,
                        searched |-> TRUE, ordered |-> FALSE, awaited |-> FALSE]

Listing ==
  [companies        |-> getCompanies,        users     |-> getUsers,
   companyUsers     |-> getCompanyUsers,     incidents |-> getIncidents,
   companyIncidents |-> getCompanyIncidents, auditLogs |-> getCompanyAuditLogs,
   handlerIncidents |-> getHandlerIncidents][kind]

-----------------------------------------------------------------------------
(* The table, as other requests change it.                                 *)

Existing == {x \in Row : created[x] \notin {None, Gone}}

\* A row is inserted, perhaps in the same millisecond as the one before, or
\* behind newer ones: createdAt is taken before the row is committed.  A new
\* report has no handlers.
Insert(x) ==
  /\ created[x] = None
  /\ now' \in {now, now + 1}
  /\ \E t \in 0..now' : created' = [created EXCEPT ![x] = t]
  /\ \/ UNCHANGED mine
     \/ kind \in {"companyUsers", "companyIncidents", "auditLogs"}
          /\ mine' = mine \cup {x}
  /\ \/ UNCHANGED hits
     \/ searching /\ hits' = hits \cup {x}
  /\ UNCHANGED <<question, walk>>

\* deleteIncident: only reports nobody is assigned to go.
Delete(x) ==
  /\ Listing.table = "Incident" /\ x \in Existing
  /\ kind = "handlerIncidents" => x \notin mine
  /\ created' = [created EXCEPT ![x] = Gone]
  /\ UNCHANGED <<question, mine, hits, now, walk>>

\* addUsersToCompany moves a user in or out, a handler is put on a report or
\* taken off.  The row keeps its createdAt.
Move(x) ==
  /\ kind \in {"companyUsers", "handlerIncidents"} /\ x \in Existing
  /\ mine' = IF x \in mine THEN mine \ {x} ELSE mine \cup {x}
  /\ UNCHANGED <<question, created, hits, now, walk>>

\* An update changes what the search text is compared with.
Edit(x) ==
  /\ searching /\ x \in Existing
  /\ hits' = IF x \in hits THEN hits \ {x} ELSE hits \cup {x}
  /\ UNCHANGED <<question, created, mine, now, walk>>

-----------------------------------------------------------------------------
(* The client and the handler of its request.                              *)

\* The rows the where clause selects.
Where == {x \in Existing : /\ Listing.scoped => x \in mine
                           /\ searching => x \in hits}

\* Mutant: (page - 1), the limit forgotten.
SkipPages == page - 1
Skip == (page - 1) * limit

TotalPages == (total + limit - 1) \div limit

Start ==
  /\ pc = "idle"
  /\ pc' = "walking"
  /\ page' = 1 /\ todo' = {"find", "count"}
  /\ UNCHANGED <<question, table, total, shown>>

\* The database may answer the rows in any order that the query leaves open:
\* orderBy says nothing of rows that were created at the same time.
Decided(s) ==
  Listing.ordered => \A m, n \in DOMAIN s : m < n => created[s[m]] >= created[s[n]]

OnPage(s) == {s[n] : n \in {m \in DOMAIN s : Skip < m /\ m <= Skip + limit}}

\* The pages findMany may answer.
Pages == {OnPage(s) : s \in {s \in SetToSeqs(Where) : Decided(s)}}

Find ==
  /\ "find" \in todo
  /\ \E P \in Pages : shown' = Append(shown, P)
  /\ todo' = todo \ {"find"}
  /\ UNCHANGED <<question, table, pc, page, total>>

\* Mutant: res?._count.users without a company.
CountMaybe ==
  /\ "count" \in todo
  /\ Listing.awaited => "find" \notin todo
  /\ total' \in {Cardinality(Where), None}
  /\ todo' = todo \ {"count"}
  /\ UNCHANGED <<question, table, pc, page, shown>>

Count ==
  /\ "count" \in todo
  /\ Listing.awaited => "find" \notin todo
  /\ total' = Cardinality(Where)
  /\ todo' = todo \ {"count"}
  /\ UNCHANGED <<question, table, pc, page, shown>>

NextPage ==
  /\ pc = "walking" /\ todo = {} /\ page < TotalPages
  /\ page' = page + 1 /\ todo' = {"find", "count"} /\ total' = 0
  /\ UNCHANGED <<question, table, pc, shown>>

LastPage ==
  /\ pc = "walking" /\ todo = {} /\ page >= TotalPages
  /\ pc' = "done"
  /\ UNCHANGED <<question, table, page, todo, total, shown>>

Init ==
  /\ kind \in Kinds /\ limit \in Limit
  /\ searching \in {FALSE, Listing.searched}
  /\ created = [x \in Row |-> None]
  /\ mine = {} /\ hits = {} /\ now = 0
  /\ pc = "idle"
  /\ page = 0 /\ todo = {} /\ total = 0 /\ shown = <<>>

Others == \E x \in Row : Insert(x) \/ Delete(x) \/ Move(x) \/ Edit(x)

Client == Start \/ Find \/ Count \/ NextPage \/ LastPage
=============================================================================

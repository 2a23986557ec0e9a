---------------------------- MODULE ListingSystem ----------------------------
(***************************************************************************)
(* A walk through the pages of a listing while the table changes, with the *)
(* history its promises are about.                                         *)
(***************************************************************************)
EXTENDS Listings

CONSTANT MaxChanges   \* bound on how often rows come and go during the walk

ASSUME ChangesAssumption == MaxChanges \in Nat

VARIABLES
  stayed,   \* rows that have been in the listing since the walk started
  added,    \* how often a row has come into it since
  removed,  \* how often a row has left it since
  decided   \* did the order of the rows decide what is on each page

history == <<stayed, added, removed, decided>>

WalkInit == Init /\ stayed = {} /\ added = 0 /\ removed = 0 /\ decided = TRUE

Remember ==
  /\ stayed' = IF pc = "idle" THEN Where' ELSE stayed \cap Where'
  /\ IF pc = "idle"
     THEN UNCHANGED <<added, removed>>
     ELSE /\ added' = added + Cardinality(Where' \ Where)
          /\ removed' = removed + Cardinality(Where \ Where')
  /\ decided' = (shown' = shown \/ Cardinality(Pages) = 1)

\* When the client is done, nothing else matters; when a page is a matter of
\* luck, as with two rows of one millisecond, nothing is promised.
Next ==
  /\ pc # "done" /\ decided
  /\ Client \/ (added + removed < MaxChanges /\ Others)
  /\ Remember

Spec == WalkInit /\ [][Next]_<<vars, history>>

-----------------------------------------------------------------------------
TypeOK ==
  /\ kind \in Kinds
  /\ created \in [Row -> Nat \cup {None, Gone}]
  /\ mine \subseteq Row /\ hits \subseteq Row
  /\ now \in Nat
  /\ pc \in {"idle", "walking", "done"}
  /\ limit \in Limit /\ page \in Nat /\ searching \in BOOLEAN
  /\ todo \subseteq {"find", "count"}
  /\ total \in Nat
  /\ \A p \in DOMAIN shown : shown[p] \subseteq Row
  /\ stayed \subseteq Row /\ added \in Nat /\ removed \in Nat /\ decided \in BOOLEAN

Seen == UNION Range(shown)

Showings == UNION {{p} \X shown[p] : p \in DOMAIN shown}

\* A walk that has reached the last page has shown every row that was there all
\* the time, except one for every row that left the listing meanwhile: what
\* comes in pushes rows to pages that are still to be read.  Where the count
\* does not wait for the rows, what comes in can also hide the last page.
MissesAtMostRemoved ==
  pc = "done" =>
    Cardinality(stayed \ Seen) <=
      removed + IF kind \in {"auditLogs", "handlerIncidents"} THEN added ELSE 0

\* A walk shows no row again, except one for every row that came in meanwhile.
RepeatsAtMostAdded ==
  decided => Cardinality(Showings) <= Cardinality(Seen) + added

\* "get a company's incidents: paginated": what is shown is the company's.
ShowsOwnIncidents == kind = "companyIncidents" => Seen \subseteq mine
=============================================================================

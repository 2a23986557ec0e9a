--------------------------- MODULE ListingInvariant ---------------------------
(***************************************************************************)
(* The inductive invariant of ListingSystem.  A walk has read the rows in  *)
(* front of a place in the order, and not those behind it; the parts say   *)
(* what the changes of the table can have carried over that place.         *)
(***************************************************************************)
EXTENDS ListingSystem

\* The rows in front of those created before t.  Where the rows have no order
\* there is nothing in front of anything but the whole listing.
InFront(t) == {x \in Where : Listing.ordered => created[x] >= t}

Missed == stayed \ Seen

\* How many rows the pages that were read had room for.
Room == Len(shown) * limit

ShownOK ==
  /\ IsFiniteSet(Existing) /\ stayed \subseteq Where
  /\ shown \in Seq(SUBSET Row)
  /\ IsFiniteSet(Seen) /\ IsFiniteSet(Showings)

\* Where in the walk the client is.
WalkOK ==
  /\ pc = "idle" => todo = {} /\ shown = <<>> /\ stayed = Where
  /\ pc # "idle" => page >= 1 /\ Len(shown) = page - (IF "find" \in todo THEN 1 ELSE 0)
  /\ pc = "done" => decided /\ todo = {} /\ total <= page * limit
  /\ Listing.awaited /\ "find" \in todo => "count" \in todo

\* Of the rows in front of any place, those that were missed have been pulled
\* forward by one that left, or are still to be read.
MissesOK ==
  \A t \in Nat :
    \/ Cardinality(Missed \cap InFront(t)) <= removed
    \/ Cardinality(Missed \cap InFront(t)) + Room <= removed + Cardinality(InFront(t))

\* The rows behind any place that were shown, and will be again, have been
\* pushed back by one that came, or the pages have gone past that place.
RepeatsOK ==
  /\ Cardinality(Showings) <= Cardinality(Seen) + added
  /\ \A t \in Nat :
       LET again == Cardinality(Showings) + Cardinality((Seen \cap Where) \ InFront(t))
       IN  \/ again <= Cardinality(Seen) + added
           \/ again + Cardinality(InFront(t)) <= Cardinality(Seen) + added + Room

\* What a count that makes this page the last one says about what was missed.
CountOK ==
  pc # "idle" /\ "count" \notin todo /\ total <= page * limit =>
    IF "find" \in todo
    THEN Cardinality(Where) <= total + added
    ELSE Cardinality(Missed) <= removed + IF Listing.awaited THEN 0 ELSE added

ListingInv ==
  /\ TypeOK /\ ShownOK /\ WalkOK
  /\ decided => MissesOK /\ RepeatsOK /\ CountOK
=============================================================================

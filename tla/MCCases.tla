------------------------------- MODULE MCCases -------------------------------
(***************************************************************************)
(* Instances of CaseSystem for TLC.                                        *)
(***************************************************************************)
EXTENDS CaseInvariant, TLC

CONSTANT photo

\* Two uploads with one name clash when they share a tick of the clock.
OneName == [f \in File |-> photo]

\* Requests run the same code, and nothing orders the other sets.  Of the
\* files, an empty one is unlike the others.
Anyone == Permutations(Request) \cup Permutations(Incident)
            \cup Permutations(File \ EmptyFiles) \cup Permutations(Code)
            \cup Permutations(Handler)

EvidenceOps == {"create", "update", "attach", "delete"}
PeopleOps   == {"create", "assign", "assignMany", "deassign", "delete",
                "message", "login", "refresh"}
AllOps      == EvidenceOps \cup PeopleOps
=============================================================================

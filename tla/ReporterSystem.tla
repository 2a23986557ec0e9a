---------------------------- MODULE ReporterSystem ----------------------------
(***************************************************************************)
(* CaseSystem with a history variable: which reporters were late.  Deciding*)
(* whether a request came too late compares three reads of one report with *)
(* deletions in between, and the tables forget the deleted report.         *)
(***************************************************************************)
EXTENDS CaseSystem

\* Requests for tokens whose report was gone before login read it for the
\* last time.
VARIABLE late

\* The report that the codes or the token of request r are for.
OwnReport(r) == target[cred[r]]

\* Requests for tokens that have yet to read a report.
Asking == {r \in Request : pc[r] \in {"verify", "renew", "issue"}}

Notice == late' = late \cup {r \in Asking' : ~Live(OwnReport(r))'}

ReporterSpec == (Init /\ late = {}) /\ [][Next /\ Notice]_<<vars, late>>

-----------------------------------------------------------------------------
\* The reporter of a deleted report gets no tokens, neither for that report
\* nor for the one that has its display code now, and whether the deletion
\* came before the request, between validateReporter and login, or between
\* refresh and login.  One that comes while login signs comes too late:
\* the tokens still go out.
LateGetNoTokens == late \cap Sessions = {}
=============================================================================

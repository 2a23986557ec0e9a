--------------------------- MODULE AccountInvariant ---------------------------
(***************************************************************************)
(* The inductive invariant of AccountSystem, by the question each part     *)
(* answers.  The properties of AccountSystem follow from it.               *)
(***************************************************************************)
EXTENDS AccountSystem

\* Which handler a request is in, from the step it is at, and what was sent
\* with it.
PhaseOK ==
  \A r \in Request :
    /\ pc[r] = "idle" <=> op[r] = None
    /\ pc[r] = "idle" => who[r] = None
    /\ pc[r] = "create" => op[r] = "createUser"
    /\ pc[r] = "update" => op[r] \in {"updateUser", "deactivate"}
    /\ pc[r] \in {"lookup", "invited"} => op[r] = "invite"
    /\ pc[r] \in {"draw", "mail"} => op[r] \in {"invite", "reset"}
    /\ pc[r] \in {"find", "password", "check", "mark", "activate"}
         => op[r] = "verify"
    /\ pc[r] = "refused" => op[r] \in {"verify", "call"}
    /\ pc[r] = "validate" => op[r] = "login"
    /\ pc[r] = "renew" => op[r] = "refresh"
    /\ pc[r] = "sign" => op[r] \in {"login", "refresh"}
    /\ pc[r] = "guard" => op[r] = "call"
    /\ op[r] = "deactivate" => /\ body[r].status = "INACTIVE"
                               /\ body[r].password = None
    /\ op[r] = "verify" => /\ body[r].status = None
                           /\ body[r].password \in Password
    /\ op[r] = "login" => body[r].password \in Password
    /\ op[r] \in {"createUser", "updateUser", "deactivate", "invite", "reset",
                  "login", "refresh", "call"} => who[r] \in User

\* Whose a token is: of the account it was drawn for, whatever is done with it.
TokensOK ==
  /\ \A t \in mailed : holder[t] # None
  /\ \A r \in Request :
       /\ pc[r] \in {"mail", "invited"} =>
            tok[r] \in Token /\ holder[tok[r]] = who[r]
       /\ pc[r] = "invited" => tok[r] \in mailed
       /\ op[r] = "verify" =>
            /\ tok[r] \in mailed
            /\ pc[r] = "find" => who[r] = None
            /\ pc[r] \in {"password", "check", "mark", "activate", "ok",
                          "refused"} => who[r] = holder[tok[r]]
            /\ who[r] \in {None, holder[tok[r]]}
            /\ pc[r] \in {"activate", "ok"} => tok[r] \in used

\* A request that has written to a row has found it.
RowsOK ==
  /\ \A u \in renewable : Account(u)
  /\ \A r \in Request :
       \/ op[r] = "createUser" /\ pc[r] = "ok"
       \/ op[r] = "verify" /\ pc[r] \in {"check", "mark", "activate", "ok",
                                         "refused"}
       \/ op[r] = "updateUser"
       => Account(who[r])

AccountsInv == TypeOK /\ PhaseOK /\ TokensOK /\ RowsOK


\* Where the token of a request comes from.
OriginOK ==
  \A r \in Request :
    /\ op[r] = "refresh" =>
         \E q \in Request : op[q] = "login" /\ pc[q] = "ok" /\ who[q] = who[r]
    /\ op[r] \in {"refresh", "call"} =>
         source[r] \in SignedIn /\ who[source[r]] = who[r]
    /\ op[r] = "call" => claim[r] = claim[source[r]]
    /\ op[r] = "login" /\ pc[r] \in {"sign", "ok"} =>
         \E q \in Writers(who[r]) : body[q].password = body[r].password

\* What a sign-in has read is remembered.
HeldOK ==
  /\ held \in [Request -> SUBSET (Role \cup {None})]
  /\ \A r \in Request :
       pc[r] = "sign" \/ r \in SignedIn => claim[r] \in held[r]
=============================================================================

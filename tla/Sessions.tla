------------------------------- MODULE Sessions -------------------------------
(***************************************************************************)
(* AuthService: login and refreshToken, and the guards of the other        *)
(* controllers.  The row keeps a bcrypt hash of the last refresh token,    *)
(* and bcrypt looks at 72 bytes: the header of a JWT and the start of its  *)
(* payload, where the email is.  Two tokens of a user differ only behind   *)
(* that, so any of them matches the stored hash.                           *)
(***************************************************************************)
EXTENDS AccountStore

\* Requests whose answer gave out tokens.
SignedIn == {q \in Request : op[q] \in {"login", "refresh"} /\ pc[q] = "ok"}

\* POST auth/login.
LoginArrives(r) ==
  /\ Arrive(r, "login", "validate")
  /\ \E u \in User, p \in Password :
       /\ who' = [who EXCEPT ![r] = u]
       /\ body' = [body EXCEPT ![r] = Only(None, p)]
  /\ UNCHANGED <<users, tokens, tok, sawUsed, session>>

\* Mutant: a user is found by email, and nothing is compared.
ValidateAnyone(r) ==
  /\ Goto(r, "validate", "sign")
  /\ Account(who[r])
  /\ claim' = [claim EXCEPT ![r] = role[who[r]]]
  /\ UNCHANGED <<users, tokens, who, tok, sawUsed, body, source, need>>

\* validateUser compares the password and does not look at the status.  The
\* payload that login signs is made of the row that is read here.
Validate(r) ==
  /\ Goto(r, "validate", "sign")
  /\ Account(who[r]) /\ password[who[r]] = body[r].password
  /\ claim' = [claim EXCEPT ![r] = role[who[r]]]
  /\ UNCHANGED <<users, tokens, who, tok, sawUsed, body, source, need>>

\* The token of a session: the account and the role are in its payload.
Carry(r, q) ==
  /\ source' = [source EXCEPT ![r] = q]
  /\ who' = [who EXCEPT ![r] = who[q]]
  /\ claim' = [claim EXCEPT ![r] = claim[q]]

\* POST auth/refresh with the refresh token of a session.
RefreshArrives(r) ==
  /\ Arrive(r, "refresh", "renew")
  /\ \E q \in SignedIn : Carry(r, q)
  /\ UNCHANGED <<users, tokens, tok, sawUsed, body, need>>

\* Mutant: the payload that was verified is signed again.
RenewPayload(r) ==
  /\ Goto(r, "renew", "sign")
  /\ who[r] \in renewable
  /\ UNCHANGED <<users, tokens, locals>>

\* The role is read again.
Renew(r) ==
  /\ Goto(r, "renew", "sign")
  /\ who[r] \in renewable
  /\ claim' = [claim EXCEPT ![r] = role[who[r]]]
  /\ UNCHANGED <<users, tokens, who, tok, sawUsed, body, source, need>>

\* login signs and stores the hash of the refresh token it gives out.
Sign(r) ==
  /\ Goto(r, "sign", "ok")
  /\ Account(who[r])
  /\ renewable' = renewable \cup {who[r]}
  /\ UNCHANGED <<status, password, role, tokens, locals>>

-----------------------------------------------------------------------------
(* Any route with @UseGuards(JwtAuthGuard, RolesGuard), whatever its       *)
(* handler does.  A token that has expired is Reject.                      *)

\* The lists of roles that @Roles is given.
Routes == {N \cap Role : N \in {{"SUPER_ADMIN"}, {"SUPER_ADMIN", "ADMIN"},
                                {"SUPER_ADMIN", "ADMIN", "HANDLER"}}}

CallArrives(r) ==
  /\ Arrive(r, "call", "guard")
  /\ \E q \in SignedIn : Carry(r, q)
  /\ \E N \in Routes : need' = [need EXCEPT ![r] = N]
  /\ UNCHANGED <<users, tokens, tok, sawUsed, body>>

\* Mutant: a user with any role is let through.
PassAnyRole(r) ==
  /\ Goto(r, "guard", "ok")
  /\ claim[r] # None
  /\ UNCHANGED <<users, tokens, locals>>

\* canActivate: the role is that of the token.
Pass(r) ==
  /\ Goto(r, "guard", "ok")
  /\ claim[r] \in need[r]
  /\ UNCHANGED <<users, tokens, locals>>

Forbid(r) ==
  /\ Goto(r, "guard", "refused")
  /\ claim[r] \notin need[r]
  /\ UNCHANGED <<users, tokens, locals>>

SessionsNext(r) ==
  \/ LoginArrives(r) \/ Validate(r) \/ RefreshArrives(r) \/ Renew(r) \/ Sign(r)
  \/ CallArrives(r) \/ Pass(r) \/ Forbid(r)
=============================================================================

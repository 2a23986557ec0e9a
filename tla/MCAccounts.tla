------------------------------ MODULE MCAccounts ------------------------------
(***************************************************************************)
(* Instances of AccountSystem for TLC.                                     *)
(***************************************************************************)
EXTENDS AccountInvariant, TLC

Anyone == Permutations(Request) \cup Permutations(User) \cup Permutations(Token)
            \cup Permutations(Password)

\* A null comes alone.
Given(b) == {f \in {"status", "password", "role"} : b[f] # None}
Sole(b) == Cardinality(Given(b)) = IF b.token THEN 0 ELSE 1
NullsAlone(b) == Null \in {b.status, b.password, b.role} => Sole(b)

\* Bodies that set a status, a password or both.
StatusBodies == {b \in Body : b.role = None /\ ~b.token /\ NullsAlone(b)}

\* Bodies that set one of password, role and refreshToken, or make an ADMIN
\* with a password; users are created HANDLERs unless the body says more.
RoleBodies ==
  {b \in Body : /\ b.status = None
                /\ Sole(b) \/ (b.password \in Password /\ b.role = "ADMIN"
                                 /\ ~b.token)}

VerifyOps  == {"createUser", "reset", "verify"}
AccountOps == VerifyOps \cup {"invite", "deactivate", "updateUser"}
SignInOps  == {"createUser", "updateUser", "login", "refresh", "call"}
=============================================================================

-------------------------------- MODULE Users --------------------------------
(***************************************************************************)
(* UsersService: createUser, updateUser, deactivateUser and                *)
(* sendPasswordResetEmail.  Names and email addresses are left out; the    *)
(* company that createUser and updateUser write is in Companies.           *)
(***************************************************************************)
EXTENDS AccountStore

\* POST users.
CreateUserArrives(r) ==
  /\ Arrive(r, "createUser", "create")
  /\ \E u \in User : who' = [who EXCEPT ![r] = u]
  /\ \E b \in Bodies : ~b.token /\ body' = [body EXCEPT ![r] = b]
  /\ UNCHANGED <<users, tokens, tok, sawUsed, session>>

\* email is unique; a row is INACTIVE and a HANDLER unless the body says more,
\* and a null says that it is neither.
CreateUser(r) ==
  /\ Goto(r, "create", "ok")
  /\ ~Account(who[r])
  /\ status' = [status EXCEPT ![who[r]] = Overwrite("INACTIVE", body[r].status)]
  /\ password' = [password EXCEPT ![who[r]] = Overwrite(None, body[r].password)]
  /\ role' = [role EXCEPT ![who[r]] = Overwrite("HANDLER", body[r].role)]
  /\ UNCHANGED <<renewable, tokens, locals>>

\* PATCH users/:id.
UpdateUserArrives(r) ==
  /\ Arrive(r, "updateUser", "update")
  /\ \E u \in User : Account(u) /\ who' = [who EXCEPT ![r] = u]
  /\ \E b \in Bodies : body' = [body EXCEPT ![r] = b]
  /\ UNCHANGED <<users, tokens, tok, sawUsed, session>>

\* DELETE users/:id.
DeactivateArrives(r) ==
  /\ Arrive(r, "deactivate", "update")
  /\ \E u \in User : Account(u) /\ who' = [who EXCEPT ![r] = u]
  /\ body' = [body EXCEPT ![r] = Only("INACTIVE", None)]
  /\ UNCHANGED <<users, tokens, tok, sawUsed, session>>

WriteUser(r) ==
  /\ Goto(r, "update", "ok")
  /\ UpdateUser(who[r], body[r])
  /\ UNCHANGED <<tokens, locals>>

\* POST users/password-reset: findUnique, then a token like that of an invite.
ResetArrives(r) ==
  /\ Arrive(r, "reset", "draw")
  /\ \E u \in User : Account(u) /\ who' = [who EXCEPT ![r] = u]
  /\ UNCHANGED <<users, tokens, tok, sawUsed, body, session>>

ResetMail(r) ==
  /\ op[r] = "reset"
  /\ Goto(r, "mail", "ok")
  /\ MailToken(tok[r])
  /\ UNCHANGED <<users, holder, used, expired, locals>>

UsersNext(r) ==
  \/ CreateUserArrives(r) \/ CreateUser(r)
  \/ UpdateUserArrives(r) \/ DeactivateArrives(r) \/ WriteUser(r)
  \/ ResetArrives(r) \/ ResetMail(r)
=============================================================================

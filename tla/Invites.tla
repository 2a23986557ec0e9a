------------------------------- MODULE Invites -------------------------------
(***************************************************************************)
(* InvitesService: createInvite and verifyInvite.  incidentInvite is       *)
(* reached by no controller.                                               *)
(***************************************************************************)
EXTENDS AccountStore

\* POST invites/create/:companyId.
InviteArrives(r) ==
  /\ Arrive(r, "invite", "lookup")
  /\ \E u \in User : who' = [who EXCEPT ![r] = u]
  /\ UNCHANGED <<users, tokens, tok, sawUsed, body, session>>

\* getUserByEmail: "User already active" answers without a token.
InviteActive(r) ==
  /\ Goto(r, "lookup", "ok")
  /\ Account(who[r]) /\ status[who[r]] = "ACTIVE"
  /\ UNCHANGED <<users, tokens, locals>>

InviteLookup(r) ==
  /\ Goto(r, "lookup", "draw")
  /\ Account(who[r]) /\ status[who[r]] # "ACTIVE"
  /\ UNCHANGED <<users, tokens, locals>>

\* Mutant: the status is set before the email is sent.
DrawTokenEarly(r) ==
  /\ Goto(r, "draw", "mail")
  /\ InsertToken(r, who[r])
  /\ status' = [status EXCEPT ![who[r]] =
                  IF op[r] = "invite" THEN "INVITED" ELSE @]
  /\ UNCHANGED <<password, role, renewable, used, expired, mailed, who, sawUsed,
                 body, session>>

\* The same statement in createInvite and in sendPasswordResetEmail.
DrawToken(r) ==
  /\ Goto(r, "draw", "mail")
  /\ InsertToken(r, who[r])
  /\ UNCHANGED <<users, used, expired, mailed, who, sawUsed, body,
                 session>>

InviteMail(r) ==
  /\ op[r] = "invite"
  /\ Goto(r, "mail", "invited")
  /\ MailToken(tok[r])
  /\ UNCHANGED <<users, holder, used, expired, locals>>

\* The status is written whatever it has become since it was read.
InviteMark(r) ==
  /\ Goto(r, "invited", "ok")
  /\ UpdateUser(who[r], Only("INVITED", None))
  /\ UNCHANGED <<tokens, locals>>

-----------------------------------------------------------------------------
\* POST invites/verify with a token from an email and a new password.
VerifyArrives(r) ==
  /\ Arrive(r, "verify", "find")
  /\ \E t \in mailed, p \in Password :
       /\ tok' = [tok EXCEPT ![r] = t]
       /\ body' = [body EXCEPT ![r] = Only(None, p)]
  /\ UNCHANGED <<users, tokens, who, sawUsed, session>>

\* The row of the token is read once, and not read again.
VerifyRead(r) ==
  /\ Goto(r, "find", "password")
  /\ who' = [who EXCEPT ![r] = holder[tok[r]]]
  /\ sawUsed' = [sawUsed EXCEPT ![r] = tok[r] \in used]
  /\ UNCHANGED <<users, tokens, tok, body, session>>

VerifyPassword(r) ==
  /\ Goto(r, "password", "check")
  /\ UpdateUser(who[r], body[r])
  /\ UNCHANGED <<tokens, locals>>

\* InviteTokenExpiredException or InviteAlreadyUsedException.
VerifyRefuse(r) ==
  /\ Goto(r, "check", "refused")
  /\ tok[r] \in expired \/ sawUsed[r]
  /\ UNCHANGED <<users, tokens, locals>>

\* Mutant: only the date is checked.
VerifyAcceptUsed(r) ==
  /\ Goto(r, "check", "mark")
  /\ tok[r] \notin expired
  /\ UNCHANGED <<users, tokens, locals>>

\* Mutant: the invite is not marked.
VerifyAcceptUnmarked(r) ==
  /\ Goto(r, "check", "activate")
  /\ tok[r] \notin expired /\ ~sawUsed[r]
  /\ UNCHANGED <<users, tokens, locals>>

VerifyAccept(r) ==
  /\ Goto(r, "check", "mark")
  /\ tok[r] \notin expired /\ ~sawUsed[r]
  /\ UNCHANGED <<users, tokens, locals>>

VerifyMark(r) ==
  /\ Goto(r, "mark", "activate")
  /\ used' = used \cup {tok[r]}
  /\ UNCHANGED <<users, holder, expired, mailed, locals>>

\* Mutant: the status is not among what is written.
VerifyActivateNot(r) ==
  /\ Goto(r, "activate", "ok")
  /\ UpdateUser(who[r], body[r])
  /\ UNCHANGED <<tokens, locals>>

VerifyActivate(r) ==
  /\ Goto(r, "activate", "ok")
  /\ UpdateUser(who[r], Only("ACTIVE", None))
  /\ UNCHANGED <<tokens, locals>>

InvitesNext(r) ==
  \/ InviteArrives(r) \/ InviteActive(r) \/ InviteLookup(r) \/ DrawToken(r)
  \/ InviteMail(r) \/ InviteMark(r)
  \/ VerifyArrives(r) \/ VerifyRead(r) \/ VerifyPassword(r) \/ VerifyRefuse(r)
  \/ VerifyAccept(r) \/ VerifyMark(r) \/ VerifyActivate(r)
=============================================================================

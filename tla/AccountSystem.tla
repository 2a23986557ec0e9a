---------------------------- MODULE AccountSystem ----------------------------
(***************************************************************************)
(* The services that keep staff accounts, composed.                        *)
(***************************************************************************)
EXTENDS Users, Invites, Sessions, FiniteSets

Handle(r) == UsersNext(r) \/ InvitesNext(r) \/ SessionsNext(r)

VARIABLE held   \* held[r]: roles its account had while sign-in r was under way

\* The roles of the account of a login or a renewal, from its arrival on.
Remember ==
  held' = [r \in Request |->
             held[r] \cup {role'[u] : u \in {u \in User :
                 /\ op'[r] \in {"login", "refresh"} /\ pc[r] \notin Answered
                 /\ u = who'[r] /\ status'[u] # "absent"}}]

Move == \/ \E r \in Request : Handle(r) \/ Reject(r)
        \/ \E t \in Token : Expire(t)

Next == Move /\ Remember

SystemInit == Init /\ held = [r \in Request |-> {}]

Spec == SystemInit /\ [][Next]_<<vars, held>>

-----------------------------------------------------------------------------
\* Requests with which an administrator has written the status s of u.
SetByAdmin(u, s) ==
  \E r \in Request : /\ op[r] \in {"createUser", "updateUser"} /\ pc[r] = "ok"
                     /\ who[r] = u /\ body[r].status = s

\* Nobody is INVITED who was not sent a link, unless an administrator has
\* written so: createInvite sets the status when the email has gone out.
InvitedWasMailed ==
  \A u \in User : status[u] = "INVITED" =>
    \/ SetByAdmin(u, "INVITED")
    \/ \E t \in mailed : holder[t] = u

\* An account becomes ACTIVE by an administrator or by a token that was sent to
\* it, and that token is spent: no order of invites, resets, deactivations and
\* verifications activates an account otherwise.
ActiveHasCause ==
  \A u \in User : status[u] = "ACTIVE" =>
    \/ SetByAdmin(u, "ACTIVE")
    \/ \E t \in mailed \cap used : holder[t] = u

\* Requests that have written another status than ACTIVE for u when it had one:
\* updates, deactivations, and invites that had found u not ACTIVE.
Overrulings(u) ==
  {r \in Request :
     /\ who[r] = u /\ pc[r] = "ok"
     /\ \/ /\ op[r] \in {"updateUser", "deactivate"}
           /\ body[r].status \notin {None, "ACTIVE"}
        \/ op[r] = "invite" /\ tok[r] # None}

\* Whoever was told that the invite is accepted is ACTIVE, unless a request
\* for the same account has written another status: an administrator's, or an
\* invite that had looked the account up when it was not ACTIVE.  Resets,
\* logins and other verifications take nobody's status away.
JoinedIsActive ==
  \A r \in Request : op[r] = "verify" /\ pc[r] = "ok" =>
    status[who[r]] = "ACTIVE" \/ Overrulings(who[r]) # {}

\* Requests that have written a password for u; a verification that failed may
\* have, or have failed before.
Writers(u) ==
  {r \in Request :
     /\ who[r] = u /\ body[r].password \in Password
     /\ \/ op[r] \in {"createUser", "updateUser"} /\ pc[r] = "ok"
        \/ /\ op[r] = "verify"
           /\ pc[r] \in {"check", "mark", "activate", "ok", "refused", "failed"}}

\* An administrator has taken the password of u away: an update with a null or
\* an empty one.
Cleared(u) ==
  \E r \in Request : /\ op[r] = "updateUser" /\ pc[r] = "ok"
                     /\ who[r] = u /\ body[r].password = Null

\* The password of an account is one that a request has set for it, and once
\* one is set the account has a password until an update takes it away:
\* writes of the status, of the session and of other accounts leave it alone.
\* Verifications set it only with a link that was sent to the account.
PasswordHasCause ==
  \A u \in User :
    /\ password[u] # None => \E r \in Writers(u) : body[r].password = password[u]
    /\ (\E r \in Writers(u) : pc[r] # "failed") => password[u] # None \/ Cleared(u)
    /\ \A r \in Writers(u) : op[r] = "verify" =>
         tok[r] \in mailed /\ holder[tok[r]] = u

\* Nobody is signed in with a password that no request has written for the
\* account, and no session is renewed that did not start with such a login,
\* whatever writes reach the row of the user in between.
SessionsHaveCause ==
  \A r \in Request : pc[r] \in {"sign", "ok"} =>
    /\ op[r] = "login" =>
         \E q \in Writers(who[r]) : body[q].password = body[r].password
    /\ op[r] = "refresh" =>
         \E q \in Request : op[q] = "login" /\ pc[q] = "ok" /\ who[q] = who[r]

\* A token says what its account was while the token was being obtained: a
\* demotion that was answered before a login or a renewal arrived is in what
\* they sign, although the row is read before bcrypt and signed after it.
ClaimsAreRecent == \A r \in SignedIn : claim[r] \in held[r]

\* A call gets past the guards only with a role that its account had when it
\* signed in, or renewed its session, for the token it was sent with.
CallsAreBacked ==
  \A r \in Request : op[r] = "call" /\ pc[r] = "ok" =>
    /\ source[r] \in SignedIn /\ who[source[r]] = who[r]
    /\ held[source[r]] \cap need[r] # {}

\* Verifications as visits of InviteBook: one that has read its row before the
\* invite was marked has opened the link.
Stage(r) ==
  IF op[r] # "verify" \/ pc[r] = "find" THEN "out"
  ELSE IF pc[r] \in {"password", "check"} /\ ~sawUsed[r] THEN "open"
  ELSE IF pc[r] = "mark" THEN "admitted"
  ELSE IF pc[r] = "activate" THEN "joining"
  ELSE IF pc[r] = "ok" THEN "joined"
  ELSE "over"

Invitations == INSTANCE InviteBook WITH
  Visit <- Request, Link <- Token, Person <- User, Nobody <- None,
  sent <- [t \in Token |-> IF t \in mailed THEN holder[t] ELSE None],
  lapsed <- expired, spent <- used,
  stage <- [r \in Request |-> Stage(r)],
  opened <- [r \in Request |->
               IF Stage(r) \in {"out", "over"} THEN None ELSE tok[r]]

\* verifyInvite uses invites as the book says, in whatever order invites and
\* resets draw, send and expire links, and however many verifications of one
\* link overlap: none succeeds that opened it when it was spent, and none that
\* has not spent it.
InvitationsSpec == Invitations!Spec

\* "This invite has already been used" (InviteAlreadyUsedException): of the
\* verifications of one invite, one succeeds.
InviteUsedOnce ==
  \A r, q \in Request :
    (r # q /\ {op[r], op[q]} = {"verify"} /\ tok[r] = tok[q])
      => ~(pc[r] = "ok" /\ pc[q] = "ok")

\* "Invite token has expired", "This invite has already been used": an invite
\* that is refused does not set the password it came with.
RefusedInviteSetsNothing ==
  \A r \in Request :
    (/\ pc[r] = "refused"
     /\ \A q \in Request \ {r} : body[q].password # body[r].password)
      => password[who[r]] # body[r].password
=============================================================================

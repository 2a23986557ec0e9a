---------------------------- MODULE AccountProofs ----------------------------
(***************************************************************************)
(* Theorems about AccountSystem, for every choice of its constants.        *)
(***************************************************************************)
EXTENDS AccountInvariant, TLAPS

-----------------------------------------------------------------------------
(* Types, phases and tokens.                                               *)

\* A body with one field holds nothing else.
LEMMA OnlyBody ==
  /\ Empty \in Body
  /\ \A s \in Status : Only(s, None) \in Body
  /\ \A p \in Password : Only(None, p) \in Body
BY DEF Empty, Only, Body

\* The steps of UsersService keep the types.
LEMMA UsersType ==
  ASSUME AccountsInv, NEW r \in Request, UsersNext(r)
  PROVE  TypeOK'
<1> USE AccountAssumption DEF AccountsInv, TypeOK, Goto, Arrive, Step, Account,
        users, tokens, locals, session
<1>1. CASE CreateUserArrives(r)
  BY <1>1 DEF CreateUserArrives
<1>2. CASE CreateUser(r)
  <2>1. body[r] \in Body
    OBVIOUS
  <2> QED
    BY <1>2, <2>1 DEF CreateUser, Overwrite, Body, Status
<1>3. CASE UpdateUserArrives(r)
  BY <1>3 DEF UpdateUserArrives
<1>4. CASE DeactivateArrives(r)
  BY <1>4, OnlyBody DEF DeactivateArrives, Status
<1>5. CASE WriteUser(r)
  <2>1. body[r] \in Body
    OBVIOUS
  <2> QED
    BY <1>5, <2>1 DEF WriteUser, UpdateUser, Overwrite, Body
<1>6. CASE ResetArrives(r)
  BY <1>6 DEF ResetArrives
<1>7. CASE ResetMail(r)
  BY <1>7 DEF ResetMail, MailToken, TokensOK
<1> QED
  BY <1>1, <1>2, <1>3, <1>4, <1>5, <1>6, <1>7 DEF UsersNext

\* So do those of InvitesService.
LEMMA InvitesType ==
  ASSUME AccountsInv, NEW r \in Request, InvitesNext(r)
  PROVE  TypeOK'
<1> USE AccountAssumption DEF AccountsInv, TypeOK, Goto, Arrive, Step, Account,
        users, tokens, locals, session
<1>1. CASE InviteArrives(r)
  BY <1>1 DEF InviteArrives
<1>2. CASE InviteActive(r) \/ InviteLookup(r)
  BY <1>2 DEF InviteActive, InviteLookup
<1>3. CASE DrawToken(r)
  BY <1>3 DEF DrawToken, InsertToken
<1>4. CASE InviteMail(r)
  BY <1>4 DEF InviteMail, MailToken, TokensOK
<1>5. CASE InviteMark(r)
  BY <1>5 DEF InviteMark, UpdateUser, Overwrite, Only, Status
<1>6. CASE VerifyArrives(r)
  BY <1>6, OnlyBody DEF VerifyArrives
<1>7. CASE VerifyRead(r)
  BY <1>7 DEF VerifyRead, TokensOK, PhaseOK
<1>8. CASE VerifyPassword(r)
  <2>1. body[r] \in Body
    OBVIOUS
  <2> QED
    BY <1>8, <2>1 DEF VerifyPassword, UpdateUser, Overwrite, Body
<1>9. CASE VerifyRefuse(r) \/ VerifyAccept(r)
  BY <1>9 DEF VerifyRefuse, VerifyAccept
<1>10. CASE VerifyMark(r)
  BY <1>10 DEF VerifyMark, TokensOK, PhaseOK
<1>11. CASE VerifyActivate(r)
  BY <1>11 DEF VerifyActivate, UpdateUser, Overwrite, Only, Status
<1> QED
  BY <1>1, <1>2, <1>3, <1>4, <1>5, <1>6, <1>7, <1>8, <1>9, <1>10, <1>11
  DEF InvitesNext

\* So do those of AuthService and of guarded calls.
LEMMA SessionsType ==
  ASSUME AccountsInv, NEW r \in Request, SessionsNext(r)
  PROVE  TypeOK'
<1> USE DEF AccountsInv, TypeOK, Goto, Arrive, Step, Account,
        users, tokens, locals, session
<1>1. CASE LoginArrives(r)
  BY <1>1, OnlyBody DEF LoginArrives
<1>2. CASE Validate(r)
  BY <1>2 DEF Validate
<1>3. CASE RefreshArrives(r)
  BY <1>3 DEF RefreshArrives, Carry, SignedIn
<1>4. CASE Renew(r)
  BY <1>4 DEF Renew
<1>5. CASE Sign(r)
  BY <1>5 DEF Sign
<1>6. CASE CallArrives(r)
  BY <1>6 DEF CallArrives, Carry, SignedIn, Routes
<1>7. CASE Pass(r) \/ Forbid(r)
  BY <1>7 DEF Pass, Forbid
<1> QED
  BY <1>1, <1>2, <1>3, <1>4, <1>5, <1>6, <1>7 DEF SessionsNext

\* Every step keeps the types.
LEMMA TypeStep ==
  ASSUME AccountsInv, Move
  PROVE  TypeOK'
<1>1. ASSUME NEW r \in Request, Handle(r) PROVE TypeOK'
  BY <1>1, UsersType, InvitesType, SessionsType DEF Handle
<1>2. ASSUME NEW r \in Request, Reject(r) PROVE TypeOK'
  BY <1>2 DEF Reject, AccountsInv, TypeOK, Step, users, tokens, locals, session
<1>3. ASSUME NEW t \in Token, Expire(t) PROVE TypeOK'
  BY <1>3 DEF Expire, AccountsInv, TypeOK, users, locals, session
<1> QED
  BY <1>1, <1>2, <1>3 DEF Move

\* Every step keeps a request within its handler.
LEMMA PhaseStep ==
  ASSUME AccountsInv, Move
  PROVE  PhaseOK'
<1> USE AccountAssumption DEF AccountsInv, TypeOK, PhaseOK, Goto, Arrive, Step,
        Account, Only, Operation, users, tokens, locals, session
<1>1. ASSUME NEW r \in Request, UsersNext(r)
      PROVE  PhaseOK'
  BY <1>1 DEF UsersNext, CreateUserArrives, CreateUser, UpdateUserArrives,
    DeactivateArrives, WriteUser, ResetArrives, ResetMail
<1>2. ASSUME NEW r \in Request, InvitesNext(r)
      PROVE  PhaseOK'
  BY <1>2 DEF InvitesNext, InviteArrives, InviteActive, InviteLookup, DrawToken,
    InviteMail, InviteMark, VerifyArrives, VerifyRead, VerifyPassword,
    VerifyRefuse, VerifyAccept, VerifyMark, VerifyActivate
<1>3. ASSUME NEW r \in Request, SessionsNext(r)
      PROVE  PhaseOK'
  BY <1>3 DEF SessionsNext, LoginArrives, Validate, RefreshArrives, Renew, Sign,
    CallArrives, Carry, SignedIn, Pass, Forbid
<1>4. ASSUME NEW r \in Request, Reject(r)
      PROVE  PhaseOK'
  BY <1>4 DEF Reject
<1>5. ASSUME NEW t \in Token, Expire(t)
      PROVE  PhaseOK'
  BY <1>5 DEF Expire
<1> QED
  BY <1>1, <1>2, <1>3, <1>4, <1>5 DEF Move, Handle

\* Every step leaves each token with one account.
LEMMA TokensStep ==
  ASSUME AccountsInv, TypeOK', Move
  PROVE  TokensOK'
<1> USE AccountAssumption DEF AccountsInv, TypeOK, PhaseOK, TokensOK, Goto,
        Arrive, users, tokens, locals, session
<1>1. ASSUME NEW r \in Request, UsersNext(r)
      PROVE  TokensOK'
  BY <1>1 DEF UsersNext, CreateUserArrives, CreateUser, UpdateUserArrives,
    DeactivateArrives, WriteUser, ResetArrives, ResetMail, MailToken
<1>2. ASSUME NEW r \in Request, InvitesNext(r)
      PROVE  TokensOK'
  <2>1. CASE DrawToken(r)
    BY <2>1 DEF DrawToken, InsertToken, Account
  <2>2. CASE InviteMail(r)
    BY <2>2 DEF InviteMail, MailToken
  <2>3. CASE VerifyMark(r)
    BY <2>3 DEF VerifyMark
  <2>4. CASE VerifyArrives(r)
    BY <2>4 DEF VerifyArrives
  <2>5. CASE VerifyRead(r)
    <3>1. /\ who' = [who EXCEPT ![r] = holder[tok[r]]]
          /\ UNCHANGED <<holder, used, mailed, tok>>
      BY <2>5 DEF VerifyRead
    <3>2. pc[r] = "find" /\ pc' = [pc EXCEPT ![r] = "password"] /\ op' = op
      BY <2>5 DEF VerifyRead
    <3> QED
      BY <3>1, <3>2
  <2> QED
    BY <1>2, <2>1, <2>2, <2>3, <2>4, <2>5 DEF InvitesNext, InviteArrives, InviteActive,
      InviteLookup, InviteMark, VerifyPassword, VerifyRefuse, VerifyAccept,
      VerifyActivate
<1>3. ASSUME NEW r \in Request, SessionsNext(r)
      PROVE  TokensOK'
  BY <1>3 DEF SessionsNext, LoginArrives, Validate, RefreshArrives, Renew, Sign,
    CallArrives, Carry, Pass, Forbid
<1>4. ASSUME NEW r \in Request, Reject(r)
      PROVE  TokensOK'
  BY <1>4 DEF Reject, Answered
<1>5. ASSUME NEW t \in Token, Expire(t)
      PROVE  TokensOK'
  BY <1>5 DEF Expire
<1> QED
  BY <1>1, <1>2, <1>3, <1>4, <1>5 DEF Move, Handle

\* The accounts that requests have worked on stay on file.
LEMMA RowsStep ==
  ASSUME AccountsInv, TypeOK', Move
  PROVE  RowsOK'
<1> USE AccountAssumption DEF AccountsInv, TypeOK, PhaseOK, RowsOK, Goto,
        Arrive, Account, users, tokens, locals, session
<1>1. ASSUME NEW r \in Request, UsersNext(r)
      PROVE  RowsOK'
  <2>1. body[r].status \in Status \cup {None, Null}
    BY <1>1 DEF Body
  <2>2. CASE CreateUser(r)
    BY <2>1, <2>2 DEF CreateUser, Overwrite, Status
  <2>3. CASE WriteUser(r)
    BY <2>1, <2>3 DEF WriteUser, UpdateUser, Overwrite, Status
  <2>4. CASE UpdateUserArrives(r)
    BY <2>4 DEF UpdateUserArrives
  <2>5. CASE CreateUserArrives(r)
    BY <2>5 DEF CreateUserArrives
  <2>6. CASE DeactivateArrives(r)
    BY <2>6 DEF DeactivateArrives
  <2>7. CASE ResetArrives(r)
    BY <2>7 DEF ResetArrives
  <2>8. CASE ResetMail(r)
    BY <2>8 DEF ResetMail
  <2> QED
    BY <1>1, <2>2, <2>3, <2>4, <2>5, <2>6, <2>7, <2>8 DEF UsersNext
<1>2. ASSUME NEW r \in Request, InvitesNext(r)
      PROVE  RowsOK'
  BY <1>2 DEF InvitesNext, InviteArrives, InviteActive, InviteLookup, DrawToken,
    InviteMail, InviteMark, VerifyArrives, VerifyRead, VerifyPassword,
    VerifyRefuse, VerifyAccept, VerifyMark, VerifyActivate, UpdateUser,
    Overwrite, Only
<1>3. ASSUME NEW r \in Request, SessionsNext(r)
      PROVE  RowsOK'
  BY <1>3 DEF SessionsNext, LoginArrives, Validate, RefreshArrives, Renew, Sign,
    CallArrives, Carry, Pass, Forbid
<1>4. ASSUME NEW r \in Request, Reject(r)
      PROVE  RowsOK'
  BY <1>4 DEF Reject, Answered
<1>5. ASSUME NEW t \in Token, Expire(t)
      PROVE  RowsOK'
  BY <1>5 DEF Expire
<1> QED
  BY <1>1, <1>2, <1>3, <1>4, <1>5 DEF Move, Handle

\* Requests are at steps of their own handlers, tokens belong to one account,
\* and rows that were written stay, in every reachable state.
THEOREM AccountsInvariant == Spec => []AccountsInv
<1>1. SystemInit => AccountsInv
  BY AccountAssumption, OnlyBody DEF SystemInit, Init, AccountsInv, TypeOK, Step,
    PhaseOK, TokensOK, RowsOK, Operation
<1>2. ASSUME AccountsInv, [Next]_<<vars, held>> PROVE AccountsInv'
  <2>1. CASE Move
    BY <1>2, <2>1, TypeStep, PhaseStep, TokensStep, RowsStep DEF AccountsInv
  <2>2. CASE UNCHANGED vars
    BY <1>2, <2>2 DEF vars, users, tokens, locals, session, AccountsInv, TypeOK,
      PhaseOK, TokensOK, RowsOK, Account
  <2> QED
    BY <1>2, <2>1, <2>2 DEF Next
<1> QED
  BY <1>1, <1>2, PTL DEF Spec

\* Every row, token and request is what the tables and the code can hold.
THEOREM AccountTyping == Spec => []TypeOK
BY AccountsInvariant, PTL DEF AccountsInv

-----------------------------------------------------------------------------
(* What steps of others leave alone.                                       *)

\* A step of one request leaves the others as they are.
LEMMA RequestsKept ==
  ASSUME AccountsInv, Move, NEW q \in Request, pc[q] # "idle"
  PROVE  /\ pc'[q] # "idle" /\ op'[q] = op[q] /\ body'[q] = body[q]
         /\ source'[q] = source[q] /\ need'[q] = need[q]
         /\ who[q] # None => who'[q] = who[q]
         /\ pc[q] \in Answered =>
              pc'[q] = pc[q] /\ claim'[q] = claim[q] /\ tok'[q] = tok[q]
<1> DEFINE Kept == /\ pc'[q] # "idle" /\ op'[q] = op[q] /\ body'[q] = body[q]
                   /\ source'[q] = source[q] /\ need'[q] = need[q]
                   /\ who[q] # None => who'[q] = who[q]
                   /\ pc[q] \in Answered => /\ pc'[q] = pc[q]
                                            /\ claim'[q] = claim[q]
                                            /\ tok'[q] = tok[q]
<1> USE AccountAssumption DEF AccountsInv, TypeOK, PhaseOK, TokensOK, Goto,
        Arrive, Answered, locals, session
<1>1. ASSUME NEW r \in Request, UsersNext(r)
      PROVE  Kept
  BY <1>1 DEF UsersNext, CreateUserArrives, CreateUser, UpdateUserArrives,
    DeactivateArrives, WriteUser, ResetArrives, ResetMail
<1>2. ASSUME NEW r \in Request, InvitesNext(r)
      PROVE  Kept
  BY <1>2 DEF InvitesNext, InviteArrives, InviteActive, InviteLookup, DrawToken,
    InviteMail, InviteMark, VerifyArrives, VerifyRead, VerifyPassword,
    VerifyRefuse, VerifyAccept, VerifyMark, VerifyActivate, InsertToken
<1>3. ASSUME NEW r \in Request, SessionsNext(r)
      PROVE  Kept
  BY <1>3 DEF SessionsNext, LoginArrives, Validate, RefreshArrives, Renew, Sign,
    CallArrives, Carry, Pass, Forbid
<1>4. ASSUME NEW r \in Request, Reject(r)
      PROVE  Kept
  BY <1>4 DEF Reject
<1>5. ASSUME NEW t \in Token, Expire(t)
      PROVE  Kept
  BY <1>5 DEF Expire
<1> QED
  BY <1>1, <1>2, <1>3, <1>4, <1>5 DEF Move, Handle

\* Tokens that were mailed or used stay so, with their account.
LEMMA TokensKept ==
  ASSUME AccountsInv, Move
  PROVE  /\ \A t \in Token : holder[t] # None => holder'[t] = holder[t]
         /\ mailed \subseteq mailed' /\ used \subseteq used'
         /\ expired \subseteq expired'
<1> USE DEF AccountsInv, TypeOK, tokens
<1>1. ASSUME NEW r \in Request, UsersNext(r)
      PROVE  UNCHANGED <<holder, used, expired>> /\ mailed \subseteq mailed'
  BY <1>1 DEF UsersNext, CreateUserArrives, CreateUser, UpdateUserArrives,
    DeactivateArrives, WriteUser, ResetArrives, ResetMail, MailToken
<1>2. ASSUME NEW r \in Request, InvitesNext(r)
      PROVE  /\ \A t \in Token : holder[t] # None => holder'[t] = holder[t]
             /\ mailed \subseteq mailed' /\ used \subseteq used'
             /\ expired' = expired
  BY <1>2 DEF InvitesNext, InviteArrives, InviteActive, InviteLookup, DrawToken,
    InsertToken, InviteMail, MailToken, InviteMark, VerifyArrives, VerifyRead,
    VerifyPassword, VerifyRefuse, VerifyAccept, VerifyMark, VerifyActivate
<1>3. ASSUME NEW r \in Request, SessionsNext(r)
      PROVE  UNCHANGED tokens
  BY <1>3 DEF SessionsNext, LoginArrives, Validate, RefreshArrives, Renew, Sign,
    CallArrives, Pass, Forbid
<1>4. ASSUME NEW r \in Request, Reject(r)
      PROVE  UNCHANGED tokens
  BY <1>4 DEF Reject
<1>5. ASSUME NEW t \in Token, Expire(t)
      PROVE  UNCHANGED <<holder, used, mailed>> /\ expired \subseteq expired'
  BY <1>5 DEF Expire
<1> QED
  BY <1>1, <1>2, <1>3, <1>4, <1>5 DEF Move, Handle

\* The statements that write to a row of User, apart from its refreshToken.
LEMMA UsersWritten ==
  ASSUME Move
  PROVE  \/ UNCHANGED <<status, password, role>>
         \/ \E r \in Request : \/ CreateUser(r) \/ WriteUser(r) \/ InviteMark(r)
                              \/ VerifyPassword(r) \/ VerifyActivate(r)
<1>1. ASSUME NEW r \in Request, SessionsNext(r)
      PROVE  UNCHANGED <<status, password, role>>
  BY <1>1 DEF SessionsNext, LoginArrives, Validate, RefreshArrives, Renew, Sign,
    CallArrives, Pass, Forbid, users
<1>2. ASSUME NEW r \in Request,
             \/ CreateUserArrives(r) \/ UpdateUserArrives(r)
             \/ DeactivateArrives(r) \/ ResetArrives(r) \/ ResetMail(r)
             \/ InviteArrives(r) \/ InviteActive(r) \/ InviteLookup(r)
             \/ DrawToken(r) \/ InviteMail(r) \/ VerifyArrives(r)
             \/ VerifyRead(r) \/ VerifyRefuse(r) \/ VerifyAccept(r)
             \/ VerifyMark(r) \/ Reject(r)
      PROVE  UNCHANGED <<status, password, role>>
  BY <1>2 DEF CreateUserArrives, UpdateUserArrives, DeactivateArrives,
    ResetArrives, ResetMail, InviteArrives, InviteActive, InviteLookup,
    DrawToken, InviteMail, VerifyArrives, VerifyRead, VerifyRefuse,
    VerifyAccept, VerifyMark, Reject, users
<1>3. ASSUME NEW t \in Token, Expire(t)
      PROVE  UNCHANGED <<status, password, role>>
  BY <1>3 DEF Expire, users
<1> QED
  BY <1>1, <1>2, <1>3 DEF Move, Handle, UsersNext, InvitesNext

-----------------------------------------------------------------------------
(* Statuses.                                                               *)

\* A status that changes was set by an administrator, a deactivation, an invite
\* that was mailed or one that was spent.
LEMMA StatusWritten ==
  ASSUME AccountsInv, AccountsInv', Move, NEW u \in User, status'[u] # status[u]
  PROVE  \/ status'[u] \in {"INACTIVE", None}
         \/ SetByAdmin(u, status[u])'
         \/ /\ status'[u] = "INVITED"
            /\ \E t \in mailed' : holder'[t] = u
         \/ /\ status'[u] = "ACTIVE"
            /\ \E t \in mailed' \cap used' : holder'[t] = u
<1> DEFINE Goal == \/ status'[u] \in {"INACTIVE", None}
                   \/ SetByAdmin(u, status[u])'
                   \/ /\ status'[u] = "INVITED"
                      /\ \E t \in mailed' : holder'[t] = u
                   \/ /\ status'[u] = "ACTIVE"
                      /\ \E t \in mailed' \cap used' : holder'[t] = u
<1> USE AccountAssumption DEF AccountsInv, TypeOK, PhaseOK, Goto, users,
        tokens, locals, session
<1>1. ASSUME NEW r \in Request, CreateUser(r) PROVE Goal
  BY <1>1 DEF CreateUser, Overwrite, SetByAdmin
<1>2. ASSUME NEW r \in Request, WriteUser(r) PROVE Goal
  BY <1>2 DEF WriteUser, UpdateUser, Overwrite, SetByAdmin
<1>3. ASSUME NEW r \in Request, InviteMark(r) PROVE Goal
  <2>1. status'[u] = "INVITED" /\ who[r] = u
    BY <1>3 DEF InviteMark, UpdateUser, Overwrite, Only, Status
  <2>2. tok[r] \in mailed' /\ holder'[tok[r]] = u
    BY <1>3, <2>1 DEF InviteMark, TokensOK
  <2> QED
    BY <2>1, <2>2
<1>4. ASSUME NEW r \in Request, VerifyPassword(r) PROVE FALSE
  BY <1>4 DEF VerifyPassword, UpdateUser, Overwrite
<1>5. ASSUME NEW r \in Request, VerifyActivate(r) PROVE Goal
  <2>1. status'[u] = "ACTIVE" /\ who[r] = u
    BY <1>5 DEF VerifyActivate, UpdateUser, Overwrite, Only, Status
  <2>2. tok[r] \in mailed' \cap used' /\ holder'[tok[r]] = u
    BY <1>5, <2>1 DEF VerifyActivate, TokensOK
  <2> QED
    BY <2>1, <2>2
<1> QED
  BY <1>1, <1>2, <1>3, <1>4, <1>5, UsersWritten

\* What an administrator has set was set.
LEMMA AdminKept ==
  ASSUME AccountsInv, Move, NEW u \in User, NEW s, SetByAdmin(u, s)
  PROVE  SetByAdmin(u, s)'
BY RequestsKept, AccountAssumption DEF SetByAdmin, Answered

\* Nobody is INVITED who was not sent a link, unless an administrator has
\* written so.
THEOREM InvitedWereMailed == Spec => []InvitedWasMailed
<1>1. SystemInit => InvitedWasMailed
  BY DEF SystemInit, Init, InvitedWasMailed
<1>2. ASSUME AccountsInv, AccountsInv', InvitedWasMailed,
             [Next]_<<vars, held>>
      PROVE  InvitedWasMailed'
  <2>1. ASSUME Move, NEW u \in User, status'[u] = "INVITED"
        PROVE  SetByAdmin(u, "INVITED")' \/ \E t \in mailed' : holder'[t] = u
    <3>1. CASE status[u] = "INVITED"
      BY <1>2, <2>1, <3>1, AdminKept, TokensKept, AccountAssumption
      DEF InvitedWasMailed, AccountsInv, TypeOK, TokensOK
    <3>2. CASE status[u] # "INVITED"
      BY <1>2, <2>1, <3>2, StatusWritten, AccountAssumption DEF Status
    <3> QED
      BY <3>1, <3>2
  <2>2. CASE UNCHANGED vars
    BY <1>2, <2>2 DEF vars, users, tokens, locals, InvitedWasMailed, SetByAdmin
  <2> QED
    BY <1>2, <2>1, <2>2 DEF Next, InvitedWasMailed
<1> QED
  BY <1>1, <1>2, AccountsInvariant, PTL DEF Spec

\* An account becomes ACTIVE by an administrator or by a token that was sent to
\* it and is spent.
THEOREM ActivationsHaveCause == Spec => []ActiveHasCause
<1>1. SystemInit => ActiveHasCause
  BY DEF SystemInit, Init, ActiveHasCause
<1>2. ASSUME AccountsInv, AccountsInv', ActiveHasCause, [Next]_<<vars, held>>
      PROVE  ActiveHasCause'
  <2>1. ASSUME Move, NEW u \in User, status'[u] = "ACTIVE"
        PROVE  \/ SetByAdmin(u, "ACTIVE")'
               \/ \E t \in mailed' \cap used' : holder'[t] = u
    <3>1. CASE status[u] = "ACTIVE"
      BY <1>2, <2>1, <3>1, AdminKept, TokensKept, AccountAssumption
      DEF ActiveHasCause, AccountsInv, TypeOK, TokensOK
    <3>2. CASE status[u] # "ACTIVE"
      BY <1>2, <2>1, <3>2, StatusWritten, AccountAssumption DEF Status
    <3> QED
      BY <3>1, <3>2
  <2>2. CASE UNCHANGED vars
    BY <1>2, <2>2 DEF vars, users, tokens, locals, ActiveHasCause, SetByAdmin
  <2> QED
    BY <1>2, <2>1, <2>2 DEF Next, ActiveHasCause
<1> QED
  BY <1>1, <1>2, AccountsInvariant, PTL DEF Spec

-----------------------------------------------------------------------------
(* Passwords.                                                              *)

\* The steps of a request that may write a password.
LEMMA WriterSteps ==
  ASSUME AccountsInv, Move, NEW q \in Request,
         op'[q] \in {"createUser", "updateUser", "verify"}
  PROVE  \/ CreateUser(q) \/ WriteUser(q) \/ VerifyPassword(q)
         \/ VerifyActivate(q)
         \/ /\ pc'[q] = "ok" => pc[q] = "ok"
            /\ pc'[q] \in {"check", "mark", "activate", "refused"}
                 => pc[q] \in {"check", "mark", "activate", "refused"}
<1> DEFINE Goal == \/ CreateUser(q) \/ WriteUser(q) \/ VerifyPassword(q)
                   \/ VerifyActivate(q)
                   \/ /\ pc'[q] = "ok" => pc[q] = "ok"
                      /\ pc'[q] \in {"check", "mark", "activate", "refused"}
                           => pc[q] \in {"check", "mark", "activate", "refused"}
<1> USE DEF AccountsInv, TypeOK, PhaseOK, Goto, Arrive
<1>1. ASSUME NEW r \in Request, UsersNext(r)
      PROVE  Goal
  <2>1. CASE CreateUser(r) \/ WriteUser(r)
    BY <2>1 DEF CreateUser, WriteUser
  <2> QED
    BY <1>1, <2>1 DEF UsersNext, CreateUserArrives, UpdateUserArrives,
      DeactivateArrives, ResetArrives, ResetMail
<1>2. ASSUME NEW r \in Request, InvitesNext(r)
      PROVE  Goal
  <2>1. CASE VerifyPassword(r) \/ VerifyActivate(r)
    BY <2>1 DEF VerifyPassword, VerifyActivate
  <2> QED
    BY <1>2, <2>1 DEF InvitesNext, InviteArrives, InviteActive, InviteLookup,
      DrawToken, InviteMail, InviteMark, VerifyArrives, VerifyRead,
      VerifyRefuse, VerifyAccept, VerifyMark
<1>3. ASSUME NEW r \in Request, SessionsNext(r)
      PROVE  Goal
  BY <1>3 DEF SessionsNext, LoginArrives, Validate, RefreshArrives, Renew, Sign,
    CallArrives, Pass, Forbid
<1>4. ASSUME NEW r \in Request, Reject(r)
      PROVE  Goal
  BY <1>4 DEF Reject
<1>5. ASSUME NEW t \in Token, Expire(t)
      PROVE  Goal
  BY <1>5 DEF Expire
<1> QED
  BY <1>1, <1>2, <1>3, <1>4, <1>5 DEF Move, Handle

\* A request that has written a password has done so for good.
LEMMA WritersKept ==
  ASSUME AccountsInv, Move, NEW u \in User, NEW r \in Writers(u)
  PROVE  r \in Writers(u)' /\ body'[r] = body[r]
<1>1. r \in Request /\ pc[r] # "idle" /\ who[r] = u /\ u # None
  BY AccountAssumption DEF Writers
<1>2. /\ op'[r] = op[r] /\ body'[r] = body[r] /\ who'[r] = u
      /\ pc[r] \in Answered => pc'[r] = pc[r]
  BY <1>1, RequestsKept
<1>3. CASE pc[r] \in Answered
  BY <1>1, <1>2, <1>3 DEF Writers
<1>4. CASE pc[r] \in {"check", "mark", "activate"}
  <2>1. pc'[r] \in {"check", "mark", "activate", "ok", "refused", "failed"}
    <3> USE <1>1, <1>4 DEF AccountsInv, TypeOK, PhaseOK, Goto, Arrive
    <3>1. ASSUME NEW q \in Request, InvitesNext(q)
          PROVE  pc'[r] \in {"check", "mark", "activate", "ok", "refused"}
      BY <3>1 DEF InvitesNext, InviteArrives, InviteActive, InviteLookup,
        DrawToken, InviteMail, InviteMark, VerifyArrives, VerifyRead,
        VerifyPassword, VerifyRefuse, VerifyAccept, VerifyMark, VerifyActivate
    <3>2. ASSUME NEW q \in Request, UsersNext(q)
          PROVE  pc'[r] = pc[r]
      BY <3>2 DEF UsersNext, CreateUserArrives, CreateUser, UpdateUserArrives,
        DeactivateArrives, WriteUser, ResetArrives, ResetMail
    <3>3. ASSUME NEW q \in Request, SessionsNext(q)
          PROVE  pc'[r] = pc[r]
      BY <3>3 DEF SessionsNext, LoginArrives, Validate, RefreshArrives, Renew,
        Sign, CallArrives, Pass, Forbid
    <3>4. ASSUME NEW q \in Request, Reject(q)
          PROVE  pc'[r] \in {pc[r], "failed"}
      BY <3>4 DEF Reject
    <3>5. ASSUME NEW t \in Token, Expire(t)
          PROVE  pc'[r] = pc[r]
      BY <3>5 DEF Expire
    <3> QED
      BY <3>1, <3>2, <3>3, <3>4, <3>5 DEF Move, Handle
  <2>2. op[r] = "verify"
    BY <1>1, <1>4 DEF AccountsInv, PhaseOK
  <2> QED
    BY <1>1, <1>2, <2>1, <2>2 DEF Writers
<1> QED
  BY <1>3, <1>4 DEF Writers, Answered

\* A password that is written is one its request was sent.
LEMMA PasswordWritten ==
  ASSUME AccountsInv, Move, NEW u \in User, password'[u] # password[u],
         password'[u] # None
  PROVE  \E r \in Writers(u)' : body'[r].password = password'[u]
<1> USE AccountAssumption DEF AccountsInv, TypeOK, PhaseOK, Goto, Writers,
        Overwrite, tokens, locals, session
<1>1. ASSUME NEW r \in Request, CreateUser(r)
      PROVE  \E q \in Writers(u)' : body'[q].password = password'[u]
  <2>1. body[r].password \in Password \cup {None, Null}
    BY DEF Body
  <2> QED
    BY <1>1, <2>1 DEF CreateUser
<1>2. ASSUME NEW r \in Request, WriteUser(r)
      PROVE  \E q \in Writers(u)' : body'[q].password = password'[u]
  <2>1. /\ op[r] = "deactivate" => body[r].password = None
        /\ body[r].password \in Password \cup {None, Null}
    BY <1>2 DEF Body
  <2> QED
    BY <1>2, <2>1 DEF WriteUser, UpdateUser
<1>3. ASSUME NEW r \in Request, VerifyPassword(r)
      PROVE  \E q \in Writers(u)' : body'[q].password = password'[u]
  BY <1>3 DEF VerifyPassword, UpdateUser
<1>4. ASSUME NEW r \in Request, InviteMark(r) \/ VerifyActivate(r)
      PROVE  FALSE
  BY <1>4 DEF InviteMark, VerifyActivate, UpdateUser, Only
<1> QED
  BY <1>1, <1>2, <1>3, <1>4, UsersWritten

\* What was cleared was cleared.
LEMMA ClearedKept ==
  ASSUME AccountsInv, Move, NEW u \in User, Cleared(u)
  PROVE  Cleared(u)'
BY RequestsKept, AccountAssumption DEF Cleared, Answered

\* A row of User is never deleted, and its password only taken away by an
\* update that says so.
LEMMA PasswordStays ==
  ASSUME AccountsInv, AccountsInv', Move, NEW u \in User, Account(u)
  PROVE  /\ Account(u)'
         /\ password[u] # None => password'[u] # None \/ Cleared(u)'
<1> USE AccountAssumption DEF AccountsInv, TypeOK, PhaseOK, Goto, Account,
        Overwrite, Status
<1>1. ASSUME NEW r \in Request, CreateUser(r)
      PROVE  Account(u)' /\ password'[u] = password[u]
  BY <1>1 DEF CreateUser
<1>2. ASSUME NEW r \in Request, WriteUser(r)
      PROVE  /\ Account(u)'
             /\ password[u] # None => password'[u] # None \/ Cleared(u)'
  <2>1. /\ body[r].status \in Status \cup {None, Null}
        /\ op[r] = "deactivate" => body[r].password = None
        /\ op[r] \in {"updateUser", "deactivate"}
    BY <1>2 DEF WriteUser, Body
  <2>2. Account(u)'
    BY <1>2, <2>1 DEF WriteUser, UpdateUser
  <2>3. CASE who[r] = u /\ body[r].password = Null
    BY <1>2, <2>1, <2>2, <2>3 DEF WriteUser, Cleared, locals
  <2>4. CASE ~(who[r] = u /\ body[r].password = Null)
    BY <1>2, <2>2, <2>4 DEF WriteUser, UpdateUser
  <2> QED
    BY <2>2, <2>3, <2>4
<1>3. ASSUME NEW r \in Request, VerifyPassword(r)
      PROVE  Account(u)' /\ (password[u] # None => password'[u] # None)
  BY <1>3 DEF VerifyPassword, UpdateUser
<1>4. ASSUME NEW r \in Request, InviteMark(r) \/ VerifyActivate(r)
      PROVE  Account(u)' /\ password'[u] = password[u]
  BY <1>4 DEF InviteMark, VerifyActivate, UpdateUser, Only
<1> QED
  BY <1>1, <1>2, <1>3, <1>4, UsersWritten

\* Who is among the writers has been, or writes now.
LEMMA NewWriter ==
  ASSUME AccountsInv, Move, NEW u \in User, NEW r \in Writers(u)',
         pc'[r] # "failed"
  PROVE  \/ r \in Writers(u) /\ pc[r] # "failed"
         \/ CreateUser(r) \/ WriteUser(r) \/ VerifyPassword(r)
<1>1. /\ r \in Request /\ who'[r] = u /\ body'[r].password \in Password
      /\ \/ op'[r] \in {"createUser", "updateUser"} /\ pc'[r] = "ok"
         \/ /\ op'[r] = "verify"
            /\ pc'[r] \in {"check", "mark", "activate", "ok", "refused"}
  BY DEF Writers
<1>2. ASSUME ~(CreateUser(r) \/ WriteUser(r) \/ VerifyPassword(r))
      PROVE  r \in Writers(u) /\ pc[r] # "failed"
  <2>1. \/ pc'[r] = "ok" /\ pc[r] = "ok"
        \/ pc[r] \in {"check", "mark", "activate", "refused"}
    BY <1>1, <1>2, WriterSteps DEF VerifyActivate, Goto
  <2>2. op'[r] = op[r] /\ body'[r] = body[r]
    BY <1>1, <2>1, RequestsKept
  <2>3. who[r] # None
    BY <1>1, <2>1, <2>2, AccountAssumption
    DEF AccountsInv, PhaseOK, TokensOK, TypeOK
  <2>4. who'[r] = who[r]
    BY <1>1, <2>1, <2>3, RequestsKept
  <2> QED
    BY <1>1, <2>1, <2>2, <2>4 DEF Writers, AccountsInv, PhaseOK
<1> QED
  BY <1>2

\* The password of an account is one that a request has set for it, and stays
\* until another is set or an update takes it away; what sets one is an
\* administrator or a token that was sent to the account.
THEOREM PasswordsHaveCause == Spec => []PasswordHasCause
<1>1. SystemInit => PasswordHasCause
  BY AccountAssumption DEF SystemInit, Init, PasswordHasCause, Writers
<1>2. ASSUME AccountsInv, AccountsInv', PasswordHasCause,
             [Next]_<<vars, held>>
      PROVE  PasswordHasCause'
  <2>1. ASSUME Move, NEW u \in User, password'[u] # None
        PROVE  \E r \in Writers(u)' : body'[r].password = password'[u]
    <3>1. CASE password'[u] = password[u]
      BY <1>2, <2>1, <3>1, WritersKept DEF PasswordHasCause
    <3> QED
      BY <1>2, <2>1, <3>1, PasswordWritten
  <2>2. ASSUME Move, NEW u \in User, NEW r \in Writers(u)', pc'[r] # "failed"
        PROVE  password'[u] # None \/ Cleared(u)'
    <3>1. CASE r \in Writers(u) /\ pc[r] # "failed"
      <4>1. Account(u)
        BY <1>2, <3>1 DEF Writers, AccountsInv, RowsOK
      <4>2. password[u] # None \/ Cleared(u)
        BY <1>2, <3>1 DEF PasswordHasCause
      <4> QED
        BY <1>2, <2>2, <4>1, <4>2, PasswordStays, ClearedKept
    <3>2. CASE CreateUser(r) \/ WriteUser(r) \/ VerifyPassword(r)
      <4>1. /\ r \in Request /\ who[r] = u /\ body[r].password \in Password
        BY <2>2, <3>2 DEF Writers, CreateUser, WriteUser, VerifyPassword, locals
      <4> QED
        BY <1>2, <3>2, <4>1, AccountAssumption
        DEF CreateUser, WriteUser, VerifyPassword, UpdateUser, Overwrite,
            Account, AccountsInv, TypeOK
    <3> QED
      BY <1>2, <2>2, <3>1, <3>2, NewWriter
  <2>3. ASSUME NEW u \in User, NEW r \in Writers(u)', op'[r] = "verify"
        PROVE  tok'[r] \in mailed' /\ holder'[tok'[r]] = u
    BY <1>2, <2>3, AccountAssumption DEF Writers, AccountsInv, TokensOK
  <2>4. CASE UNCHANGED vars
    BY <1>2, <2>4 DEF vars, users, tokens, locals, PasswordHasCause, Writers,
      Cleared
  <2> QED
    BY <1>2, <2>1, <2>2, <2>3, <2>4 DEF Next, PasswordHasCause
<1> QED
  BY <1>1, <1>2, AccountsInvariant, PTL DEF Spec

\* Who joined by an invite is ACTIVE until an administrator, or an invite that
\* was decided before, writes another status: no other handler does.
THEOREM JoinersAreActive == Spec => []JoinedIsActive
<1>1. SystemInit => JoinedIsActive
  BY AccountAssumption DEF SystemInit, Init, JoinedIsActive
<1>2. ASSUME AccountsInv, AccountsInv', JoinedIsActive, [Next]_<<vars, held>>
      PROVE  JoinedIsActive'
  <2>1. ASSUME Move, NEW r \in Request, op'[r] = "verify", pc'[r] = "ok"
        PROVE  status'[who'[r]] = "ACTIVE" \/ Overrulings(who[r])' # {}
    <3>1. CASE VerifyActivate(r)
      BY <1>2, <3>1, AccountAssumption DEF VerifyActivate, UpdateUser,
        Overwrite, Only, Account, Status, locals, AccountsInv, TypeOK
    <3>2. CASE pc[r] = "ok"
      <4>1. /\ op[r] = "verify" /\ who'[r] = who[r] /\ who[r] \in User
            /\ Account(who[r])
        <5>1. op[r] = "verify"
          BY <1>2, <2>1, <3>2, RequestsKept
        <5>2. Account(who[r])
          BY <1>2, <3>2, <5>1 DEF AccountsInv, RowsOK
        <5> QED
          BY <1>2, <2>1, <3>2, <5>1, <5>2, RequestsKept, AccountAssumption
          DEF Account
      <4>2. ASSUME NEW q \in Overrulings(who[r])
            PROVE  q \in Overrulings(who[r])'
        BY <1>2, <2>1, <4>1, <4>2, RequestsKept, AccountAssumption
        DEF Overrulings, Answered
      <4>3. ASSUME status[who[r]] = "ACTIVE", status'[who[r]] # "ACTIVE"
            PROVE  Overrulings(who[r])' # {}
        <5> USE <1>2, <4>1, <4>3, AccountAssumption
            DEF AccountsInv, TypeOK, PhaseOK, Goto, Overwrite, Account
        <5>1. ASSUME NEW q \in Request, WriteUser(q)
              PROVE  q \in Overrulings(who[r])'
          BY <5>1 DEF WriteUser, UpdateUser, Overrulings, locals
        <5>2. ASSUME NEW q \in Request, InviteMark(q)
              PROVE  q \in Overrulings(who[r])'
          BY <5>2 DEF InviteMark, UpdateUser, Only, Overrulings, TokensOK,
            locals
        <5>3. ASSUME NEW q \in Request,
                     \/ CreateUser(q) \/ VerifyPassword(q)
                     \/ VerifyActivate(q)
              PROVE  FALSE
          BY <5>3 DEF CreateUser, VerifyPassword, VerifyActivate, UpdateUser,
            Only
        <5> QED
          BY <2>1, <5>1, <5>2, <5>3, UsersWritten
      <4> QED
        BY <1>2, <2>1, <3>2, <4>1, <4>2, <4>3 DEF JoinedIsActive
    <3>3. CASE VerifyPassword(r) \/ CreateUser(r) \/ WriteUser(r)
      BY <1>2, <2>1, <3>3 DEF VerifyPassword, CreateUser, WriteUser, Goto,
        AccountsInv, TypeOK, PhaseOK
    <3> QED
      BY <1>2, <2>1, <3>1, <3>2, <3>3, WriterSteps
  <2>2. CASE UNCHANGED vars
    BY <1>2, <2>2 DEF vars, users, locals, JoinedIsActive, Overrulings
  <2> QED
    BY <1>2, <2>1, <2>2 DEF Next, JoinedIsActive
<1> QED
  BY <1>1, <1>2, AccountsInvariant, PTL DEF Spec

-----------------------------------------------------------------------------
(* Sessions.                                                               *)

\* What a step does to a sign-in or a guarded call.
LEMMA SessionSteps ==
  ASSUME AccountsInv, Move, NEW q \in Request,
         op'[q] \in {"login", "refresh", "call"}
  PROVE  \/ LoginArrives(q) \/ RefreshArrives(q) \/ CallArrives(q)
         \/ Validate(q) \/ Renew(q)
         \/ /\ op'[q] = op[q] /\ pc[q] # "idle"
            /\ who'[q] = who[q] /\ claim'[q] = claim[q]
            /\ op[q] # "call" /\ pc'[q] \in {"sign", "ok"}
                 => pc[q] \in {"sign", "ok"}
<1> DEFINE Same == /\ op'[q] = op[q] /\ pc[q] # "idle"
                   /\ who'[q] = who[q] /\ claim'[q] = claim[q]
                   /\ op[q] # "call" /\ pc'[q] \in {"sign", "ok"}
                        => pc[q] \in {"sign", "ok"}
<1> USE AccountAssumption DEF AccountsInv, TypeOK, PhaseOK, Goto, Arrive,
        Operation, locals, session
<1>1. ASSUME NEW r \in Request, UsersNext(r)
      PROVE  Same
  BY <1>1 DEF UsersNext, CreateUserArrives, CreateUser, UpdateUserArrives,
    DeactivateArrives, WriteUser, ResetArrives, ResetMail
<1>2. ASSUME NEW r \in Request, InvitesNext(r)
      PROVE  Same
  BY <1>2 DEF InvitesNext, InviteArrives, InviteActive, InviteLookup, DrawToken,
    InviteMail, InviteMark, VerifyArrives, VerifyRead, VerifyPassword,
    VerifyRefuse, VerifyAccept, VerifyMark, VerifyActivate
<1>3. ASSUME NEW r \in Request, SessionsNext(r), r # q
      PROVE  Same
  BY <1>3 DEF SessionsNext, LoginArrives, Validate, RefreshArrives, Renew, Sign,
    CallArrives, Carry, Pass, Forbid
<1>4. ASSUME Sign(q) \/ Pass(q) \/ Forbid(q)
      PROVE  Same
  BY <1>4 DEF Sign, Pass, Forbid
<1>5. ASSUME NEW r \in Request, Reject(r)
      PROVE  Same
  BY <1>5 DEF Reject
<1>6. ASSUME NEW t \in Token, Expire(t)
      PROVE  Same
  BY <1>6 DEF Expire
<1> QED
  BY <1>1, <1>2, <1>3, <1>4, <1>5, <1>6 DEF Move, Handle, SessionsNext

\* A request that has signed in has done so for good.
LEMMA SignedInKept ==
  ASSUME AccountsInv, Move, NEW q \in SignedIn
  PROVE  q \in SignedIn' /\ who'[q] = who[q] /\ claim'[q] = claim[q]
BY RequestsKept, AccountAssumption DEF SignedIn, Answered, AccountsInv, PhaseOK

\* Every step keeps the origin of each session.
LEMMA OriginStep ==
  ASSUME AccountsInv, AccountsInv', PasswordHasCause, OriginOK, Move
  PROVE  OriginOK'
<1> SUFFICES ASSUME NEW r \in Request
             PROVE
    /\ op'[r] = "refresh" => \E q \in Request : op'[q] = "login"
                               /\ pc'[q] = "ok" /\ who'[q] = who'[r]
    /\ op'[r] \in {"refresh", "call"} =>
         source'[r] \in SignedIn' /\ who'[source'[r]] = who'[r]
    /\ op'[r] = "call" => claim'[r] = claim'[source'[r]]
    /\ op'[r] = "login" /\ pc'[r] \in {"sign", "ok"} =>
         \E q \in Writers(who[r])' : body'[q].password = body'[r].password
  BY DEF OriginOK
<1>1. ASSUME NEW q \in Request, op[q] = "login", pc[q] = "ok"
      PROVE  op'[q] = "login" /\ pc'[q] = "ok" /\ who'[q] = who[q]
  BY <1>1, SignedInKept, RequestsKept DEF SignedIn
<1>2. ASSUME op'[r] \in {"refresh", "call"}, pc[r] = "idle"
      PROVE  \E q \in SignedIn : /\ source'[r] = q /\ who'[r] = who[q]
                                 /\ claim'[r] = claim[q]
  <2>1. RefreshArrives(r) \/ CallArrives(r)
    BY <1>2, SessionSteps DEF LoginArrives, Arrive, Validate, Renew, Goto,
      AccountsInv, TypeOK
  <2> QED
    BY <2>1 DEF RefreshArrives, CallArrives, Carry, AccountsInv, TypeOK
<1>3. ASSUME op'[r] \in {"refresh", "call"}, pc[r] # "idle"
      PROVE  /\ op'[r] = op[r] /\ source'[r] = source[r] /\ who'[r] = who[r]
             /\ op[r] = "call" => claim'[r] = claim[r]
  <2>1. op'[r] = op[r] /\ source'[r] = source[r] /\ who'[r] = who[r]
    BY <1>3, RequestsKept, AccountAssumption DEF AccountsInv, PhaseOK
  <2> QED
    BY <1>3, <2>1, SessionSteps DEF LoginArrives, RefreshArrives, CallArrives,
      Arrive, Validate, Renew, Goto, AccountsInv, PhaseOK
<1>4. op'[r] = "refresh" => \E q \in Request : op'[q] = "login"
                              /\ pc'[q] = "ok" /\ who'[q] = who'[r]
  BY <1>1, <1>2, <1>3 DEF OriginOK, SignedIn
<1>5. op'[r] \in {"refresh", "call"} =>
         source'[r] \in SignedIn' /\ who'[source'[r]] = who'[r]
  BY <1>2, <1>3, SignedInKept DEF OriginOK
<1>6. op'[r] = "call" => claim'[r] = claim'[source'[r]]
  BY <1>2, <1>3, SignedInKept DEF OriginOK
<1>7. ASSUME op'[r] = "login", pc'[r] \in {"sign", "ok"}
      PROVE  \E q \in Writers(who[r])' : body'[q].password = body'[r].password
  <2>1. /\ op[r] = "login" /\ pc[r] # "idle" /\ who[r] \in User
        /\ who'[r] = who[r] /\ body'[r] = body[r]
    <3>1. pc[r] # "idle"
      BY <1>7, SessionSteps DEF LoginArrives, RefreshArrives, CallArrives, Arrive,
        Validate, Renew, Goto, AccountsInv, TypeOK
    <3> QED
      BY <1>7, <3>1, RequestsKept, AccountAssumption DEF AccountsInv, PhaseOK
  <2>2. \E q \in Writers(who[r]) : body[q].password = body[r].password
    <3>1. CASE Validate(r)
      <4>1. /\ password[who[r]] = body[r].password
            /\ body[r].password \in Password
        BY <2>1, <3>1 DEF Validate, AccountsInv, PhaseOK
      <4> QED
        BY <2>1, <4>1, AccountAssumption DEF PasswordHasCause
    <3>2. CASE pc[r] \in {"sign", "ok"}
      BY <2>1, <3>2 DEF OriginOK
    <3> QED
      BY <1>7, <2>1, <3>1, <3>2, SessionSteps DEF LoginArrives, RefreshArrives,
        CallArrives, Arrive, Renew, Goto, AccountsInv, PhaseOK
  <2> QED
    BY <2>1, <2>2, WritersKept
<1> QED
  BY <1>4, <1>5, <1>6, <1>7

\* The inductive invariant of sessions: each goes back to a login whose password
\* was in the table.
THEOREM OriginInvariant ==
  Spec => [](AccountsInv /\ PasswordHasCause /\ OriginOK)
<1>1. SystemInit => OriginOK
  BY AccountAssumption DEF SystemInit, Init, OriginOK, Operation
<1>2. ASSUME AccountsInv, AccountsInv', PasswordHasCause, OriginOK,
             [Next]_<<vars, held>>
      PROVE  OriginOK'
  <2>1. CASE Move
    BY <1>2, <2>1, OriginStep
  <2>2. CASE UNCHANGED vars
    BY <1>2, <2>2 DEF vars, users, tokens, locals, session, OriginOK, SignedIn,
      Writers
  <2> QED
    BY <1>2, <2>1, <2>2 DEF Next
<1> QED
  BY <1>1, <1>2, AccountsInvariant, PasswordsHaveCause, PTL DEF Spec

\* Nobody is signed in with a password that no request had brought for the
\* account, and renewals go back to such a login.
THEOREM SessionsGoBack == Spec => []SessionsHaveCause
<1>1. OriginOK => SessionsHaveCause
  BY DEF OriginOK, SessionsHaveCause
<1> QED
  BY <1>1, OriginInvariant, PTL

\* Every step keeps a claim within the roles held while it was obtained.
LEMMA HeldStep ==
  ASSUME AccountsInv, AccountsInv', HeldOK, Next
  PROVE  HeldOK'
<1>1. held' \in [Request -> SUBSET (Role \cup {None})]
  BY DEF Next, Remember, HeldOK, AccountsInv, TypeOK
<1>2. ASSUME NEW r \in Request
      PROVE  held[r] \subseteq held'[r]
  BY DEF Next, Remember
<1>3. ASSUME NEW r \in Request, pc'[r] = "sign" \/ r \in SignedIn'
      PROVE  claim'[r] \in held'[r]
  <2>1. op'[r] \in {"login", "refresh"}
    BY <1>3 DEF SignedIn, AccountsInv, PhaseOK
  <2>2. CASE Validate(r) \/ Renew(r)
    <3>1. /\ pc[r] \notin Answered /\ who'[r] = who[r] /\ Account(who[r])
          /\ claim'[r] = role'[who'[r]] /\ status' = status
      BY <2>2 DEF Validate, Renew, Goto, Answered, users, AccountsInv, TypeOK,
        RowsOK
    <3>2. who'[r] \in User /\ status'[who'[r]] # "absent"
      BY <3>1 DEF Account
    <3>3. role'[who'[r]] \in held'[r]
      BY <2>1, <3>1, <3>2 DEF Next, Remember
    <3> QED
      BY <3>1, <3>3
  <2>3. CASE ~(Validate(r) \/ Renew(r))
    <3>1. /\ op'[r] = op[r] /\ claim'[r] = claim[r]
          /\ pc[r] \in {"sign", "ok"}
      BY <1>3, <2>1, <2>3, SessionSteps DEF SignedIn, Next, LoginArrives,
        RefreshArrives, CallArrives, Arrive, AccountsInv, TypeOK, PhaseOK
    <3>2. claim[r] \in held[r]
      BY <2>1, <3>1 DEF HeldOK, SignedIn
    <3> QED
      BY <1>2, <3>1, <3>2
  <2> QED
    BY <2>2, <2>3
<1> QED
  BY <1>1, <1>3 DEF HeldOK

\* A token says what its account was while the token was being obtained.
THEOREM ClaimsStayRecent == Spec => []ClaimsAreRecent
<1>1. SystemInit => HeldOK
  BY AccountAssumption DEF SystemInit, Init, HeldOK, SignedIn
<1>2. ASSUME AccountsInv, AccountsInv', HeldOK, [Next]_<<vars, held>>
      PROVE  HeldOK'
  <2>1. CASE UNCHANGED <<vars, held>>
    BY <1>2, <2>1 DEF vars, locals, session, HeldOK, SignedIn
  <2> QED
    BY <1>2, <2>1, HeldStep
<1>3. HeldOK => ClaimsAreRecent
  BY DEF HeldOK, ClaimsAreRecent, SignedIn
<1> QED
  BY <1>1, <1>2, <1>3, AccountsInvariant, PTL DEF Spec

\* A call passes the guards only with a role that its account had while the
\* token it was sent with was being obtained.
THEOREM GuardsAreBacked == Spec => []CallsAreBacked
<1> DEFINE Passed ==
      \A r \in Request : op[r] = "call" /\ pc[r] = "ok" => claim[r] \in need[r]
<1>1. SystemInit => Passed
  BY DEF SystemInit, Init
<1>2. ASSUME AccountsInv, AccountsInv', Passed, [Next]_<<vars, held>>
      PROVE  Passed'
  <2>1. ASSUME Move, NEW r \in Request, op'[r] = "call", pc'[r] = "ok"
        PROVE  claim'[r] \in need'[r]
    <3>1. CASE pc[r] = "ok"
      BY <1>2, <2>1, <3>1, RequestsKept DEF Answered
    <3>2. CASE pc[r] # "ok"
      <4>1. Pass(r)
        <5> USE <1>2, <2>1, <3>2 DEF AccountsInv, TypeOK, PhaseOK, Goto, Arrive
        <5>1. ASSUME NEW q \in Request, UsersNext(q) PROVE FALSE
          BY <5>1 DEF UsersNext, CreateUserArrives, CreateUser,
            UpdateUserArrives, DeactivateArrives, WriteUser, ResetArrives,
            ResetMail
        <5>2. ASSUME NEW q \in Request, InvitesNext(q) PROVE FALSE
          BY <5>2 DEF InvitesNext, InviteArrives, InviteActive, InviteLookup,
            DrawToken, InviteMail, InviteMark, VerifyArrives, VerifyRead,
            VerifyPassword, VerifyRefuse, VerifyAccept, VerifyMark,
            VerifyActivate
        <5>3. ASSUME NEW q \in Request, SessionsNext(q) PROVE Pass(r)
          BY <5>3 DEF SessionsNext, LoginArrives, Validate, RefreshArrives,
            Renew, Sign, CallArrives, Pass, Forbid
        <5>4. ASSUME NEW q \in Request, Reject(q) PROVE FALSE
          BY <5>4 DEF Reject
        <5>5. ASSUME NEW t \in Token, Expire(t) PROVE FALSE
          BY <5>5 DEF Expire
        <5> QED
          BY <5>1, <5>2, <5>3, <5>4, <5>5 DEF Move, Handle
      <4> QED
        BY <4>1 DEF Pass, locals, session
    <3> QED
      BY <3>1, <3>2
  <2>2. CASE UNCHANGED vars
    BY <1>2, <2>2 DEF vars, locals, session
  <2> QED
    BY <1>2, <2>1, <2>2 DEF Next
<1>3. Passed /\ OriginOK /\ ClaimsAreRecent => CallsAreBacked
  BY DEF OriginOK, ClaimsAreRecent, CallsAreBacked
<1> QED
  BY <1>1, <1>2, <1>3, AccountsInvariant, OriginInvariant, ClaimsStayRecent, PTL
  DEF Spec

-----------------------------------------------------------------------------
(* Verifications use invites as the book of invites says.                  *)

Sent == [t \in Token |-> IF t \in mailed THEN holder[t] ELSE None]
Stages == [r \in Request |-> Stage(r)]
Opened == [r \in Request |->
             IF Stage(r) \in {"out", "over"} THEN None ELSE tok[r]]

\* The step of one request moves one visit.
LEMMA OneVisit ==
  ASSUME TypeOK, NEW r \in Request, NEW s, op' = op, tok' = tok,
         \A q \in Request \ {r} : pc'[q] = pc[q] /\ sawUsed'[q] = sawUsed[q],
         Stage(r)' = s
  PROVE  /\ Stages' = [Stages EXCEPT ![r] = s]
         /\ s \in {"out", "over"} => Opened' = [Opened EXCEPT ![r] = None]
         /\ s \notin {"out", "over"} => Opened' = [Opened EXCEPT ![r] = tok[r]]
<1>1. \A q \in Request \ {r} : Stage(q)' = Stage(q)
  BY DEF Stage
<1>2. Stages' = [Stages EXCEPT ![r] = s]
  BY <1>1 DEF Stages
<1>3. Opened' = [q \in Request |-> IF q = r
                   THEN IF s \in {"out", "over"} THEN None ELSE tok[r]
                   ELSE Opened[q]]
  BY <1>1 DEF Opened
<1> QED
  BY <1>2, <1>3 DEF Opened

\* A visit that is open stays with its token, whatever stage it gets to.
LEMMA OpenVisit ==
  ASSUME TypeOK, NEW r \in Request, NEW s, op' = op, tok' = tok,
         sawUsed' = sawUsed, \A q \in Request \ {r} : pc'[q] = pc[q],
         Stage(r) \notin {"out", "over"}, Stage(r)' = s, s \notin {"out", "over"}
  PROVE  /\ Stages' = [Stages EXCEPT ![r] = s]
         /\ Opened' = Opened /\ Opened[r] = tok[r]
<1>1. /\ Stages' = [Stages EXCEPT ![r] = s]
      /\ Opened' = [Opened EXCEPT ![r] = tok[r]]
  BY OneVisit
<1>2. Opened[r] = tok[r]
  BY DEF Opened
<1>3. [Opened EXCEPT ![r] = Opened[r]] = Opened
  BY DEF Opened
<1> QED
  BY <1>1, <1>2, <1>3

\* Every step of a verification, an invite or a reset is a step of the book of
\* invites, or none.
LEMMA InvitesStep ==
  ASSUME AccountsInv, Move
  PROVE  [Invitations!Next]_(Invitations!book)
<1> DEFINE Kept == UNCHANGED <<Sent, expired, used, Stages, Opened>>
           Goal == [Invitations!Next]_(Invitations!book)
           Store == UNCHANGED <<Sent, expired, used>>
<1>1. Kept => Goal
  BY DEF Invitations!book, Sent, Stages, Opened
<1> USE DEF AccountsInv, TypeOK, PhaseOK, Goto, Arrive, users, tokens, locals,
            session
<1>2. ASSUME NEW r \in Request, Stage(r) # "joined", op' = op, tok' = tok,
             \A q \in Request \ {r} : pc'[q] = pc[q] /\ sawUsed'[q] = sawUsed[q],
             Stage(r)' = "over", UNCHANGED tokens
      PROVE  Goal
  <2>1. /\ Stages' = [Stages EXCEPT ![r] = "over"]
        /\ Opened' = [Opened EXCEPT ![r] = None]
    BY <1>2, OneVisit
  <2>2. Invitations!GiveUp(r)
    BY <1>2, <2>1 DEF Invitations!GiveUp, Sent, Stages, Opened
  <2> QED
    BY <2>2 DEF Invitations!Next
<1>3. ASSUME NEW r \in Request, op[r] # "verify", op' = op,
             \A q \in Request \ {r} : pc'[q] = pc[q] /\ tok'[q] = tok[q],
             sawUsed' = sawUsed, Store
      PROVE  Kept
  <2>1. \A q \in Request : Stage(q)' = Stage(q)
    BY <1>3 DEF Stage
  <2>2. Stage(r) = "out"
    BY <1>3 DEF Stage
  <2> QED
    BY <1>3, <2>1, <2>2 DEF Stages, Opened
<1>4. ASSUME NEW r \in Request, InviteMail(r) \/ ResetMail(r)
      PROVE  Goal
  <2>0. PICK t \in Token, u \in User : t = tok[r] /\ u = who[r]
    BY <1>4 DEF InviteMail, ResetMail, TokensOK
  <2>1. /\ op[r] # "verify" /\ op' = op /\ sawUsed' = sawUsed
        /\ \A q \in Request \ {r} : pc'[q] = pc[q] /\ tok'[q] = tok[q]
        /\ used' = used /\ expired' = expired /\ holder' = holder
        /\ mailed' = mailed \cup {t} /\ holder[t] = u
    BY <1>4, <2>0 DEF InviteMail, ResetMail, MailToken, TokensOK
  <2>2. /\ \A q \in Request : Stage(q)' = Stage(q)
        /\ Stage(r) = "out"
    BY <2>1 DEF Stage
  <2>3. Stages' = Stages /\ Opened' = Opened
    BY <2>1, <2>2 DEF Stages, Opened
  <2>4. CASE t \in mailed
    <3>1. mailed' = mailed
      BY <2>1, <2>4
    <3> QED
      BY <1>1, <2>1, <2>3, <3>1 DEF Sent
  <2>5. CASE t \notin mailed
    <3>1. Sent' = [Sent EXCEPT ![t] = u]
          /\ Sent[t] = None
      BY <2>1, <2>5 DEF Sent
    <3>2. Invitations!Send(t, u)
      BY <2>1, <2>3, <3>1 DEF Invitations!Send, Sent, Stages, Opened
    <3> QED
      BY <2>1, <3>2 DEF Invitations!Next
  <2> QED
    BY <2>4, <2>5
<1>5. ASSUME NEW t \in Token, Expire(t)
      PROVE  Goal
  <2>1. Invitations!Lapse(t)
    BY <1>5 DEF Expire, Invitations!Lapse, Stage
  <2> QED
    BY <2>1 DEF Invitations!Next
<1>6. ASSUME NEW r \in Request, VerifyRead(r)
      PROVE  Goal
  <2>0. PICK t \in Token : t = tok[r]
    BY <1>6 DEF VerifyRead, TokensOK
  <2>1. op[r] = "verify" /\ Stage(r) = "out" /\ t \in mailed
    BY <1>6, <2>0 DEF VerifyRead, TokensOK, Stage
  <2>2. CASE t \in used
    <3>1. Stage(r)' = "over"
      BY <1>6, <2>0, <2>1, <2>2 DEF VerifyRead, Stage
    <3> QED
      BY <1>2, <1>6, <2>1, <3>1 DEF VerifyRead
  <2>3. CASE t \notin used
    <3>1. Stage(r)' = "open"
      BY <1>6, <2>0, <2>1, <2>3 DEF VerifyRead, Stage
    <3>2. /\ Stages' = [Stages EXCEPT ![r] = "open"]
          /\ Opened' = [Opened EXCEPT ![r] = t]
      BY <1>6, <2>0, <3>1, OneVisit DEF VerifyRead
    <3>3. Sent[t] # None
      BY <2>1 DEF Sent, TokensOK
    <3>4. Invitations!Open(r, t)
      BY <1>6, <2>0, <2>1, <2>3, <3>2, <3>3
      DEF VerifyRead, Invitations!Open, Sent, Stages, Opened
    <3> QED
      BY <2>1, <3>4 DEF Invitations!Next
  <2> QED
    BY <2>2, <2>3
<1>7. ASSUME NEW r \in Request, VerifyAccept(r)
      PROVE  Goal
  <2>1. Stage(r) = "open" /\ Stage(r)' = "admitted"
    BY <1>7 DEF VerifyAccept, Stage
  <2>2. /\ Stages' = [Stages EXCEPT ![r] = "admitted"]
        /\ Opened' = Opened /\ Opened[r] = tok[r]
    BY <1>7, <2>1, OpenVisit DEF VerifyAccept
  <2>3. Invitations!Admit(r)
    BY <1>7, <2>1, <2>2
    DEF VerifyAccept, Invitations!Admit, Sent, Stages, Opened
  <2> QED
    BY <2>3 DEF Invitations!Next
<1>8. ASSUME NEW r \in Request, VerifyMark(r)
      PROVE  Goal
  <2>1. Stage(r) = "admitted" /\ Stage(r)' = "joining"
    BY <1>8 DEF VerifyMark, Stage
  <2>2. /\ Stages' = [Stages EXCEPT ![r] = "joining"]
        /\ Opened' = Opened /\ Opened[r] = tok[r]
    BY <1>8, <2>1, OpenVisit DEF VerifyMark
  <2>3. Invitations!Spend(r)
    BY <1>8, <2>1, <2>2
    DEF VerifyMark, Invitations!Spend, Sent, Stages, Opened
  <2> QED
    BY <2>3 DEF Invitations!Next
<1>9. ASSUME NEW r \in Request, VerifyActivate(r)
      PROVE  Goal
  <2>1. Stage(r) = "joining" /\ Stage(r)' = "joined"
    BY <1>9 DEF VerifyActivate, Stage
  <2>2. /\ Stages' = [Stages EXCEPT ![r] = "joined"]
        /\ Opened' = Opened /\ Opened[r] = tok[r]
    BY <1>9, <2>1, OpenVisit DEF VerifyActivate
  <2>3. Invitations!Join(r)
    BY <1>9, <2>1, <2>2
    DEF VerifyActivate, Invitations!Join, Sent, Stages, Opened
  <2> QED
    BY <2>3 DEF Invitations!Next
<1>10. ASSUME NEW r \in Request, VerifyPassword(r)
       PROVE  Goal
  <2>1. Store /\ \A q \in Request : Stage(q)' = Stage(q)
    BY <1>10 DEF VerifyPassword, Stage, Sent
  <2> QED
    BY <1>1, <1>10, <2>1 DEF VerifyPassword, Stages, Opened
<1>11. ASSUME NEW r \in Request, VerifyRefuse(r)
       PROVE  Goal
  <2>1. Stage(r) # "joined" /\ Stage(r)' = "over"
    BY <1>11 DEF VerifyRefuse, Stage
  <2> QED
    BY <1>2, <1>11, <2>1 DEF VerifyRefuse
<1>12. ASSUME NEW r \in Request, Reject(r)
       PROVE  Goal
  <2>1. CASE op[r] = "verify"
    <3>1. Stage(r) # "joined" /\ Stage(r)' = "over"
      BY <1>12, <2>1 DEF Reject, Answered, Stage
    <3> QED
      BY <1>2, <1>12, <3>1 DEF Reject
  <2>2. CASE op[r] # "verify"
    BY <1>1, <1>3, <1>12, <2>2 DEF Reject, Sent
  <2> QED
    BY <2>1, <2>2
<1>13. ASSUME NEW r \in Request, pc[r] = "idle", Store, sawUsed' = sawUsed,
              \A q \in Request \ {r} : /\ pc'[q] = pc[q] /\ tok'[q] = tok[q]
                                       /\ op'[q] = op[q],
              op'[r] # "verify" \/ pc'[r] = "find"
       PROVE  Kept
  <2>1. Stage(r) = "out" /\ Stage(r)' = "out"
    BY <1>13, AccountAssumption DEF Stage, Operation
  <2>2. \A q \in Request : Stage(q)' = Stage(q)
    BY <1>13, <2>1 DEF Stage
  <2> QED
    BY <1>13, <2>1, <2>2 DEF Stages, Opened
<1>14. ASSUME NEW r \in Request,
              \/ CreateUserArrives(r) \/ UpdateUserArrives(r)
              \/ DeactivateArrives(r) \/ ResetArrives(r)
              \/ InviteArrives(r) \/ VerifyArrives(r)
              \/ LoginArrives(r) \/ RefreshArrives(r) \/ CallArrives(r)
       PROVE  Goal
  <2> DEFINE From == /\ pc[r] = "idle" /\ Store /\ sawUsed' = sawUsed
                     /\ \A q \in Request \ {r} :
                          pc'[q] = pc[q] /\ tok'[q] = tok[q] /\ op'[q] = op[q]
                     /\ op'[r] # "verify" \/ pc'[r] = "find"
  <2> USE DEF Sent
  <2>1. ASSUME CreateUserArrives(r) PROVE From
    BY <2>1 DEF CreateUserArrives
  <2>2. ASSUME UpdateUserArrives(r) PROVE From
    BY <2>2 DEF UpdateUserArrives
  <2>3. ASSUME DeactivateArrives(r) PROVE From
    BY <2>3 DEF DeactivateArrives
  <2>4. ASSUME ResetArrives(r) PROVE From
    BY <2>4 DEF ResetArrives
  <2>5. ASSUME InviteArrives(r) PROVE From
    BY <2>5 DEF InviteArrives
  <2>6. ASSUME VerifyArrives(r) PROVE From
    BY <2>6 DEF VerifyArrives
  <2>7. ASSUME LoginArrives(r) PROVE From
    BY <2>7 DEF LoginArrives
  <2>8. ASSUME RefreshArrives(r) PROVE From
    BY <2>8 DEF RefreshArrives, Carry
  <2>9. ASSUME CallArrives(r) PROVE From
    BY <2>9 DEF CallArrives, Carry
  <2> QED
    BY <1>1, <1>13, <1>14, <2>1, <2>2, <2>3, <2>4, <2>5, <2>6, <2>7, <2>8, <2>9
<1>15. ASSUME NEW r \in Request,
              \/ CreateUser(r) \/ WriteUser(r) \/ InviteActive(r)
              \/ InviteLookup(r) \/ InviteMark(r) \/ Validate(r) \/ Renew(r)
              \/ Sign(r) \/ Pass(r) \/ Forbid(r)
       PROVE  Goal
  <2> USE DEF Sent
  <2>1. CASE CreateUser(r) \/ WriteUser(r)
    BY <2>1, <1>1, <1>3 DEF CreateUser, WriteUser, UpdateUser
  <2>2. CASE InviteActive(r) \/ InviteLookup(r) \/ InviteMark(r)
    BY <2>2, <1>1, <1>3 DEF InviteActive, InviteLookup, InviteMark
  <2>3. CASE Validate(r) \/ Renew(r) \/ Sign(r) \/ Pass(r) \/ Forbid(r)
    BY <2>3, <1>1, <1>3 DEF Validate, Renew, Sign, Pass, Forbid
  <2> QED
    BY <1>15, <2>1, <2>2, <2>3
<1>16. ASSUME NEW r \in Request, DrawToken(r)
       PROVE  Goal
  <2>1. PICK t \in Token : /\ holder[t] = None
                           /\ holder' = [holder EXCEPT ![t] = who[r]]
                           /\ tok' = [tok EXCEPT ![r] = t]
    BY <1>16 DEF DrawToken, InsertToken
  <2>2. Sent' = Sent
    BY <1>16, <2>1 DEF DrawToken, Sent, TokensOK
  <2> QED
    BY <1>1, <1>3, <1>16, <2>1, <2>2 DEF DrawToken
<1> QED
  BY <1>4, <1>5, <1>6, <1>7, <1>8, <1>9, <1>10, <1>11, <1>12, <1>14, <1>15,
     <1>16
  DEF Move, Handle, UsersNext, InvitesNext, SessionsNext

\* However invites and resets draw, send and expire links and verifications
\* overlap, links are used as the book of invites says.
THEOREM InvitesKeepTheBook == Spec => InvitationsSpec
<1>1. SystemInit => Invitations!Init
  <2>1. SystemInit => \A r \in Request : Stage(r) = "out"
    BY AccountAssumption DEF SystemInit, Init, Stage, Operation
  <2> QED
    BY <2>1 DEF SystemInit, Init, Invitations!Init
<1>2. /\ AccountsInv /\ [Next]_<<vars, held>>
      => [Invitations!Next]_(Invitations!book)
  <2>1. ASSUME UNCHANGED vars
        PROVE  UNCHANGED Invitations!book
    <3>1. \A r \in Request : Stage(r)' = Stage(r)
      BY <2>1 DEF vars, locals, Stage
    <3>2. Sent' = Sent /\ Stages' = Stages /\ Opened' = Opened
      BY <2>1, <3>1 DEF vars, tokens, locals, Sent, Stages, Opened
    <3> QED
      BY <2>1, <3>2 DEF vars, tokens, Invitations!book, Sent, Stages, Opened
  <2> QED
    BY <2>1, InvitesStep DEF Next
<1> QED
  BY <1>1, <1>2, AccountsInvariant, PTL DEF Spec, InvitationsSpec,
     Invitations!Spec
=============================================================================

---------------------------- MODULE AccountStore ----------------------------
(***************************************************************************)
(* What the services that keep staff accounts share: the User and          *)
(* InviteToken tables of prisma/schema.prisma, the emails that carry       *)
(* tokens, and the HTTP requests in flight.  Requests move as in           *)
(* CaseStore: one action per awaited call that reads or writes a table.    *)
(***************************************************************************)
EXTENDS Naturals

CONSTANTS
  Request,   \* requests; each is used for one call, which bounds a run
  User,      \* email addresses that may have an account
  Token,     \* random tokens, each drawn once
  Password,
  Role,      \* the values of UserRole in this instance
  Bodies,    \* what administrators send in this instance
  Ops,       \* the operations clients use in this instance
  Null,      \* a null in the body of a request
  None       \* a field that was left out, a column that is NULL

Status == {"INVITED", "ACTIVE", "INACTIVE"}

\* What the body of a request may ask for.  @IsOptional lets a null through
\* for any field, and nothing asks for a length of the password of an update:
\* the empty password is stored unhashed like a null, and matches no other, so
\* Null stands for both.  token says whether a refreshToken is given.
Body == [status : Status \cup {None, Null},
         password : Password \cup {None, Null},
         role : Role \cup {None, Null}, token : BOOLEAN]

Operation == {"createUser", "updateUser", "deactivate", "reset", "invite",
              "verify", "login", "refresh", "call"}

ASSUME AccountAssumption ==
  /\ Ops \subseteq Operation
  /\ None \notin Status \cup Operation \cup {"absent"}
  /\ None \notin Request /\ None \notin User
  /\ None \notin Token /\ None \notin Password /\ None \notin Role
  /\ Null \notin Status \cup Password \cup Role \cup {None}
  /\ "HANDLER" \in Role /\ Bodies \subseteq Body

VARIABLES
  status,    \* status[u], or "absent" if there is no User row u
  password,  \* password[u]: the password that row u has the hash of
  role,      \* role[u]
  renewable, \* users whose refreshToken is the hash of one of their tokens
  holder,    \* holder[t]: userId of the InviteToken row of t
  used,      \* InviteToken rows marked as used
  expired,   \* InviteToken rows older than a day
  mailed,    \* tokens sent by email
  pc, op,    \* where request r is, and which operation it runs
  who,       \* who[r]: the account it works on
  tok,       \* tok[r]: the token it has drawn, or was given
  sawUsed,   \* sawUsed[r]: the token was used when r read its row
  body,      \* body[r]: what it was sent
  source,    \* source[r]: the request whose answer gave it its token
  claim,     \* claim[r]: the role in the token it was sent, or will give out
  need       \* need[r]: the roles that the guard of its route lets pass

users == <<status, password, role, renewable>>
tokens == <<holder, used, expired, mailed>>
session == <<source, claim, need>>
locals == <<who, tok, sawUsed, body, session>>
vars == <<users, tokens, pc, op, locals>>

Only(s, p) == [status |-> s, password |-> p, role |-> None, token |-> FALSE]
Empty == Only(None, None)

Step == {"idle", "create", "update", "lookup", "draw", "mail", "invited",
         "find", "password", "check", "mark", "activate", "validate",
         "renew", "sign", "guard", "ok", "refused", "failed"}

TypeOK ==
  /\ status \in [User -> Status \cup {"absent", None}]
  /\ password \in [User -> Password \cup {None}]
  /\ role \in [User -> Role \cup {None}]
  /\ renewable \subseteq User
  /\ holder \in [Token -> User \cup {None}]
  /\ used \subseteq Token /\ expired \subseteq Token /\ mailed \subseteq Token
  /\ pc \in [Request -> Step]
  /\ op \in [Request -> Ops \cup {None}]
  /\ who \in [Request -> User \cup {None}]
  /\ tok \in [Request -> Token \cup {None}]
  /\ sawUsed \in [Request -> BOOLEAN]
  /\ body \in [Request -> Body]
  /\ source \in [Request -> Request \cup {None}]
  /\ claim \in [Request -> Role \cup {None}]
  /\ need \in [Request -> SUBSET Role]

\* The tables start empty.
Init ==
  /\ status = [u \in User |-> "absent"]
  /\ password = [u \in User |-> None]
  /\ role = [u \in User |-> None]
  /\ renewable = {}
  /\ holder = [t \in Token |-> None]
  /\ used = {} /\ expired = {} /\ mailed = {}
  /\ pc = [r \in Request |-> "idle"]
  /\ op = [r \in Request |-> None]
  /\ who = [r \in Request |-> None]
  /\ tok = [r \in Request |-> None]
  /\ sawUsed = [r \in Request |-> FALSE]
  /\ body = [r \in Request |-> Empty]
  /\ source = [r \in Request |-> None]
  /\ claim = [r \in Request |-> None]
  /\ need = [r \in Request |-> {}]

-----------------------------------------------------------------------------
(* SQL statements and the mail server.                                     *)

Account(u) == u \in User /\ status[u] # "absent"

\* A column after a statement that was given f for it.
Overwrite(old, f) == IF f = None THEN old ELSE IF f = Null THEN None ELSE f

\* Mutant: the null of a body is written as a status.
UpdateStatusNull(u, b) ==
  /\ Account(u)
  /\ status' = [status EXCEPT ![u] = IF b.status = None THEN @ ELSE b.status]
  /\ password' = [password EXCEPT ![u] = Overwrite(@, b.password)]
  /\ role' = [role EXCEPT ![u] = Overwrite(@, b.role)]
  /\ renewable' = IF b.token THEN renewable \ {u} ELSE renewable

\* Mutant: the password is written as null when the body leaves it out.
UpdateWholeUser(u, b) ==
  /\ Account(u)
  /\ status' = [status EXCEPT ![u] = Overwrite(@, b.status)]
  /\ password' = [password EXCEPT ![u] = Overwrite(None, b.password)]
  /\ role' = [role EXCEPT ![u] = Overwrite(@, b.role)]
  /\ renewable' = IF b.token THEN renewable \ {u} ELSE renewable

\* user.update with the fields of b that are given; the companyId among them
\* is written by Move of Companies.  A refreshToken sent by a client, or a null
\* in its place, is stored as it is, and is the hash of no token.
UpdateUser(u, b) ==
  /\ Account(u)
  /\ status' = [status EXCEPT ![u] = Overwrite(@, b.status)]
  /\ password' = [password EXCEPT ![u] = Overwrite(@, b.password)]
  /\ role' = [role EXCEPT ![u] = Overwrite(@, b.role)]
  /\ renewable' = IF b.token THEN renewable \ {u} ELSE renewable

\* inviteToken.create with a token nobody has seen.
InsertToken(r, u) ==
  /\ Account(u)
  /\ \E t \in Token : /\ holder[t] = None
                      /\ holder' = [holder EXCEPT ![t] = u]
                      /\ tok' = [tok EXCEPT ![r] = t]

MailToken(t) == mailed' = mailed \cup {t}

-----------------------------------------------------------------------------
(* Requests.                                                               *)

Answered == {"ok", "refused", "failed"}

Arrive(r, o, step) ==
  /\ pc[r] = "idle"
  /\ o \in Ops
  /\ op' = [op EXCEPT ![r] = o]
  /\ pc' = [pc EXCEPT ![r] = step]

Goto(r, from, to) ==
  /\ pc[r] = from
  /\ pc' = [pc EXCEPT ![r] = to]
  /\ UNCHANGED op

\* An awaited call rejects, or the process dies: nothing is undone.
Reject(r) ==
  /\ pc[r] \notin Answered \cup {"idle"}
  /\ pc' = [pc EXCEPT ![r] = "failed"]
  /\ UNCHANGED <<users, tokens, op, locals>>

\* A day passes since the token was drawn.
Expire(t) ==
  /\ holder[t] # None /\ t \notin expired
  /\ expired' = expired \cup {t}
  /\ UNCHANGED <<users, holder, used, mailed, pc, op, locals>>
=============================================================================

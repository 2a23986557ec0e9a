------------------------------ MODULE InviteBook ------------------------------
(***************************************************************************)
(* What an invite is good for, without tables and requests' steps.  A link *)
(* is sent to one account.  A visit that opens it while it is unspent and  *)
(* is admitted before it lapses spends it, and joins only then.  Visits    *)
(* may overlap, and a visit may be given up at any point.                  *)
(***************************************************************************)
CONSTANTS
  Visit,   \* attempts to use a link
  Link,    \* random tokens
  Person,  \* accounts
  Nobody

VARIABLES
  sent,    \* sent[l]: whom link l was sent to
  lapsed,  \* links older than a day
  spent,   \* links marked as used
  stage,   \* stage[v]: how far visit v is
  opened   \* opened[v]: the link it has opened

book == <<sent, lapsed, spent, stage, opened>>

Init ==
  /\ sent = [l \in Link |-> Nobody]
  /\ lapsed = {} /\ spent = {}
  /\ stage = [v \in Visit |-> "out"]
  /\ opened = [v \in Visit |-> Nobody]

Send(l, u) ==
  /\ sent[l] = Nobody
  /\ sent' = [sent EXCEPT ![l] = u]
  /\ UNCHANGED <<lapsed, spent, stage, opened>>

Lapse(l) ==
  /\ lapsed' = lapsed \cup {l}
  /\ UNCHANGED <<sent, spent, stage, opened>>

Open(v, l) ==
  /\ stage[v] = "out"
  /\ sent[l] # Nobody /\ l \notin spent
  /\ stage' = [stage EXCEPT ![v] = "open"]
  /\ opened' = [opened EXCEPT ![v] = l]
  /\ UNCHANGED <<sent, lapsed, spent>>

Admit(v) ==
  /\ stage[v] = "open" /\ opened[v] \notin lapsed
  /\ stage' = [stage EXCEPT ![v] = "admitted"]
  /\ UNCHANGED <<sent, lapsed, spent, opened>>

Spend(v) ==
  /\ stage[v] = "admitted"
  /\ spent' = spent \cup {opened[v]}
  /\ stage' = [stage EXCEPT ![v] = "joining"]
  /\ UNCHANGED <<sent, lapsed, opened>>

Join(v) ==
  /\ stage[v] = "joining"
  /\ stage' = [stage EXCEPT ![v] = "joined"]
  /\ UNCHANGED <<sent, lapsed, spent, opened>>

\* Also when it finds the link spent.
GiveUp(v) ==
  /\ stage[v] # "joined"
  /\ stage' = [stage EXCEPT ![v] = "over"]
  /\ opened' = [opened EXCEPT ![v] = Nobody]
  /\ UNCHANGED <<sent, lapsed, spent>>

Next ==
  \/ \E l \in Link : Lapse(l) \/ \E u \in Person : Send(l, u)
  \/ \E v \in Visit : \/ Admit(v) \/ Spend(v) \/ Join(v) \/ GiveUp(v)
                      \/ \E l \in Link : Open(v, l)

Spec == Init /\ [][Next]_book
=============================================================================

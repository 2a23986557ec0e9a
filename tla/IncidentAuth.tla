---------------------------- MODULE IncidentAuth ----------------------------
(***************************************************************************)
(* IncidentAuthService: a reporter opens the report with the display code  *)
(* and the secret code that createIncident answered with, and renews the   *)
(* session with its refresh token.  The expiry of a token is a rejection.  *)
(***************************************************************************)
EXTENDS CaseStore

\* Requests whose answer gave out codes, and those that gave out tokens.
Reports  == {q \in Request : op[q] = "create" /\ pc[q] = "ok"}
Sessions == {q \in Request : op[q] \in {"login", "refresh"} /\ pc[q] = "ok"}

\* POST incident-auth/login with the codes of a report.
LoginArrives(r) ==
  /\ Arrive(r, "login", "verify")
  /\ \E q \in Reports : cred' = [cred EXCEPT ![r] = q]
  /\ UNCHANGED <<store, target, files, staff, todo>>

\* Mutant: the display code is enough.
VerifyCode(r) ==
  /\ Goto(r, "verify", "issue")
  /\ \E i \in Incident : /\ Live(i)
                         /\ code[i] = code[target[cred[r]]]
                         /\ target' = [target EXCEPT ![r] = i]
  /\ UNCHANGED <<store, files, staff, cred, todo>>

\* validateReporter: the incident is found by its display code, and the
\* secret must be the one its row has the hash of.
VerifySecret(r) ==
  /\ Goto(r, "verify", "issue")
  /\ \E i \in Incident :
       /\ Live(i)
       /\ code[i] = code[target[cred[r]]]
       /\ author[i] = cred[r]
       /\ target' = [target EXCEPT ![r] = i]
  /\ UNCHANGED <<store, files, staff, cred, todo>>

\* POST incident-auth/refresh with the token of a session.
RefreshArrives(r) ==
  /\ Arrive(r, "refresh", "renew")
  /\ \E q \in Sessions : /\ cred' = [cred EXCEPT ![r] = cred[q]]
                         /\ target' = [target EXCEPT ![r] = target[q]]
  /\ UNCHANGED <<store, files, staff, todo>>

Renew(r) ==
  /\ Goto(r, "renew", "issue")
  /\ Live(target[r])
  /\ UNCHANGED <<store, inputs, todo>>

\* login reads the incident again, by its id.
Issue(r) ==
  /\ Goto(r, "issue", "sign")
  /\ Live(target[r])
  /\ UNCHANGED <<store, inputs, todo>>

\* It signs both tokens, which takes time and reads nothing: the report may be
\* deleted meanwhile.
Sign(r) ==
  /\ Goto(r, "sign", "ok")
  /\ UNCHANGED <<store, inputs, todo>>

IncidentAuthNext(r) ==
  \/ LoginArrives(r) \/ VerifySecret(r)
  \/ RefreshArrives(r) \/ Renew(r) \/ Issue(r) \/ Sign(r)
=============================================================================

CONSTANTS
  Request = {r1, r2, r3}
  User = {u1}
  Token = {t1}
  Password = {p1, p2}
  Role = {"HANDLER"}
  Bodies <- StatusBodies
  Ops <- VerifyOps
  Null = Null
  None = None
SPECIFICATION Spec
CHECK_DEADLOCK FALSE
INVARIANTS
  RefusedInviteSetsNothing

CONSTANTS
  Request = {r1, r2, r3, r4, r5}
  User = {u1}
  Token = {}
  Password = {p1}
  Role = {"ADMIN", "HANDLER"}
  Bodies <- RoleBodies
  Ops <- SignInOps
  Null = Null
  None = None
SPECIFICATION Spec
SYMMETRY Anyone
CHECK_DEADLOCK FALSE
INVARIANTS
  SessionsHaveCause
  ClaimsAreRecent
  CallsAreBacked

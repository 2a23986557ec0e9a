CONSTANTS
  Request = {r1, r2, r3, r4}
  User = {u1}
  Token = {t1, t2}
  Password = {p1, p2}
  Role = {"HANDLER"}
  Bodies <- StatusBodies
  Ops <- AccountOps
  Null = Null
  None = None
SPECIFICATION Spec
SYMMETRY Anyone
CHECK_DEADLOCK FALSE
INVARIANTS
  TypeOK
  InvitedWasMailed
  ActiveHasCause
  
  PasswordHasCause
PROPERTIES
  InvitationsSpec

CONSTANTS
  Request = {r1, r2, r3}
  Company = {c1, c2}
  Category = {k1}
  Name = {n1, n2}
  Label = {d}
  Url = {u1}
  User = {s1}
  Default = d
  MaxTime = 2
  Ops <- CompanyOps
  None = None
SPECIFICATION Spec
SYMMETRY Anyone
CHECK_DEADLOCK FALSE
INVARIANTS
  TypeOK
  AnsweredIsDone
  LogoIntact
  CreatedWhole

CONSTANTS
  Request = {r1, r2}
  Company = {c1}
  Category = {k1, k2}
  Name = {n1}
  Label = {d, e, f}
  Url = {u1}
  User = {}
  Default = d
  MaxTime = 0
  Ops <- CategoryOps
  None = None
SPECIFICATION Spec
CHECK_DEADLOCK FALSE
PROPERTIES
  EditedIsStored
INVARIANTS
  AnsweredIsDone
  AddedStays
  RefusedEditLosesNothing

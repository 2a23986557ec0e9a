CONSTANTS
  Request = {r1, r2, r3}
  Incident = {i1, i2}
  File = {f1, f2, f3}
  Handler = {}
  Code = {c1, c2}
  FileName = {photo}
  photo = photo
  NameOf <- OneName
  EmptyFiles = {f3}
  MaxTime = 1
  Ops <- EvidenceOps
  ArrayIndex = ArrayIndex
  None = None
SPECIFICATION Spec
SYMMETRY Anyone
CHECK_DEADLOCK FALSE
INVARIANTS
  RowsHaveObjects
  EvidenceIntact
  AnsweredIsStored

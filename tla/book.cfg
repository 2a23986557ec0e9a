CONSTANTS
  Request = {r1, r2, r3}
  Incident = {i1, i2}
  File = {f1, f2}
  Handler = {h1}
  Code = {c1}
  FileName = {photo}
  photo = photo
  NameOf <- OneName
  EmptyFiles = {f2}
  MaxTime = 0
  Ops <- AllOps
  ArrayIndex = ArrayIndex
  None = None
SPECIFICATION FairSpec
CHECK_DEADLOCK FALSE
PROPERTIES
  BookSpec
  EveryRequestIsAnswered

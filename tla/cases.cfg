CONSTANTS
  Request = {r1, r2, r3, r4, r5}
  Incident = {i1, i2}
  File = {}
  Handler = {h1, h2}
  Code = {c1}
  FileName = {photo}
  photo = photo
  NameOf <- OneName
  EmptyFiles = {}
  MaxTime = 0
  Ops <- PeopleOps
  ArrayIndex = ArrayIndex
  None = None
SPECIFICATION ReporterSpec
SYMMETRY Anyone
CHECK_DEADLOCK FALSE
INVARIANTS
  TypeOK
  StoreConsistent
  AssignedStay
  AssignedOnce
  CredentialsFindReport
  SessionsMatchCredentials
  LateGetNoTokens

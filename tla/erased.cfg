CONSTANTS
  Request = {r1, r2}
  Incident = {i1}
  File = {f1, f2}
  Handler = {}
  Code = {c1}
  FileName = {photo}
  photo = photo
  NameOf <- OneName
  EmptyFiles = {}
  MaxTime = 1
  Ops <- EvidenceOps
  ArrayIndex = ArrayIndex
  None = None
SPECIFICATION Spec
CHECK_DEADLOCK FALSE
INVARIANTS
  DeletedEvidenceIsErased

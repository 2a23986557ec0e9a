CONSTANTS
  Row = {x1, x2, x3}
  Kinds = {"companyIncidents"}
  Limit = {2}
  MaxChanges = 1
  None = None
  Gone = Gone
SPECIFICATION Spec
CHECK_DEADLOCK FALSE
INVARIANTS
  ShowsOwnIncidents

CONSTANTS
  Row = {x1, x2, x3}
  Kinds <- AllKinds
  Limit = {1, 2}
  MaxChanges = 3
  None = None
  Gone = Gone
SPECIFICATION Spec
SYMMETRY AnyRow
CHECK_DEADLOCK FALSE
INVARIANTS
  TypeOK
  MissesAtMostRemoved
  RepeatsAtMostAdded

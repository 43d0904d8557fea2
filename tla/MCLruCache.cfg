CONSTANTS
  Key = {k1, k2, k3, k4}
  Value = {v1, v2}
  MaxSize = 3
  None = None
SPECIFICATION Spec
INVARIANTS ListSound
PROPERTIES EvictsLeastRecent
CHECK_DEADLOCK FALSE

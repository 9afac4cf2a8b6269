SPECIFICATION Spec
CONSTANTS
  Unit = 2
  Gaps <- NearAndFar
  MaxBuckets = 4
  MaxPrio = 12
  MaxSize = 6
PROPERTY Earliest
CHECK_DEADLOCK FALSE

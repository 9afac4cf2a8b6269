SPECIFICATION Spec
CONSTANTS
  Unit = 2
  Gaps <- NearAndFar
  MaxBuckets = 8
  MaxPrio = 8
  MaxSize = 9
INVARIANTS TypeOK Placed FitsAfterOne AlignedUntilMiss
PROPERTIES Conserved EarliestFromAligned StraysByMissing
CHECK_DEADLOCK FALSE

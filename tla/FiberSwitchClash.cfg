SPECIFICATION Spec
CONSTANTS
  Threads = {t1, t2}
  Fibers = {f1, f2, f3}
  NONE = NONE
  PosMax = 0
  MaxId = 3
  Buckets = {0}
  Bucket <- OneChain
  Shared = {1, 2, 3}
  SerialCreate = FALSE
SYMMETRY Symmetric
INVARIANT RunsOwnFlow
CHECK_DEADLOCK FALSE

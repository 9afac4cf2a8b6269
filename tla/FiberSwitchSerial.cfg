SPECIFICATION Spec
CONSTANTS
  Threads = {t1, t2}
  Fibers = {f1, f2, f3}
  NONE = NONE
  PosMax = 1
  MaxId = 2
  Buckets = {0, 1}
  Bucket <- Parity
  Shared = {0, 1, 2}
  SerialCreate = TRUE
SYMMETRY Symmetric
INVARIANTS TypeOK Exclusive LocksInside FlowIntegrity MarkedIsRun TableSound SwitchReports
PROPERTY ImplementsScheduler
CHECK_DEADLOCK FALSE

SPECIFICATION FairSpec
CONSTANTS
  Threads = {t1, t2}
  Fibers = {f1, f2, f3}
  NONE = NONE
  PosMax = 0
  MaxId = 3
  Buckets = {0}
  Bucket <- OneChain
  Shared = {3}
  SerialCreate = TRUE
PROPERTY CallsReturn
CHECK_DEADLOCK FALSE

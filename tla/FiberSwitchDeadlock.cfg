SPECIFICATION FairSpec
CONSTANTS
  Threads = {t1, t2}
  Fibers = {f1, f2}
  NONE = NONE
  PosMax = 0
  MaxId = 2
  Buckets = {0}
  Bucket <- OneChain
  Shared = {1, 2}
  SerialCreate = TRUE
PROPERTY CallsReturn
CHECK_DEADLOCK FALSE

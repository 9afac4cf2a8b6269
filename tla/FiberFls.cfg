SPECIFICATION Spec
CONSTANTS
  Threads = {t1, t2}
  Fibers = {f1, f2}
  NONE = NONE
  FlsSize = 2
  Values = {2}
  Slots <- SideBySide
  Indices <- LastAndOut
SYMMETRY Symmetric
INVARIANT TypeOK
PROPERTY ImplementsStore

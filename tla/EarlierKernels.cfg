SPECIFICATION Spec
CONSTANTS
  p1 = p1
  p2 = p2
  t1 = t1
  t2 = t2
  t3 = t3
  Processes = {p1, p2}
  Threads = {t1, t2, t3}
  Process <- HomeOf
  Users = {t1, t2}
  Readers = {t1, t2}
  Mortals = {t1, t2}
  Fibers = {f1, f2, f3}
  NONE = NONE
SYMMETRY Symmetric
INVARIANTS TypeOK OwnStorage EntryReached HoldsItsFiber NoneLost MarksTrue
PROPERTY ImplementsScheduler
CHECK_DEADLOCK FALSE

SPECIFICATION FairSpec
CONSTANTS
  m = m  w = w  c1 = c1  c2 = c2
  Main = m
  Workers <- MCWorkers
  Cells <- MCCells
  NONE = NONE
  AlarmInSwitch = FALSE
INVARIANTS TypeOK CountTrue
PROPERTIES NobodyGetsBack AllDone ImplementsScheduler

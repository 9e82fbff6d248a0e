SPECIFICATION FairSpec
CONSTANTS
  CREATIONS = 3
  t1 = t1
  t2 = t2
  t3 = t3
  Threads = {t1, t2, t3}
  garbage <- MCAnywhere
  NullRead = TRUE
  Faults = TRUE
  NoThread = NoThread
INVARIANTS
  TypeOK
  DispatchComplete
  CountsUnfinished
  NeverSpins
  RunsOnce
PROPERTIES
  Drains
  AllRunWhenTickLate
CHECK_DEADLOCK FALSE

SPECIFICATION FairSpec
CONSTANTS
  CREATIONS = 2
  t1 = t1
  t2 = t2
  t3 = t3
  Threads = {t1, t2, t3}
  garbage <- MCOwn
  NullRead = FALSE
  Faults = FALSE
  NoThread = NoThread
PROPERTIES
  TicksComeAgain
CHECK_DEADLOCK FALSE

SPECIFICATION FairSpec
CONSTANTS
  cpu_count = 3
  lapic_id <- MCReversed
  MAPS = 2
  LATER_FRAMES = 2
INVARIANTS
  TypeOK
  AllocatesAlone
  OwnTables
  PML4Settled
  RegistersAlone
  CountedAreRegistered
  ReturnsWhenAllStarted
PROPERTIES
  SMPInitialized
CHECK_DEADLOCK FALSE

SPECIFICATION FairSpec
CONSTANTS
  cpu_count = 2
  lapic_id <- MCSparse
  MAPS = 1
  LATER_FRAMES = 1
PROPERTIES
  SMPInitialized
CHECK_DEADLOCK FALSE

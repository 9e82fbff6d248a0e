SPECIFICATION FairSpec
CONSTANTS
  PAGE_SIZE = 4096
  POOL_ARRAY_SIZE = 6
  SPARE = 8
  BASE = 1
  MAXIMUM_COALESCE_BLOCKS = 4
  HEAD = 64
  Requests <- MCRequests
  CALLS = 4
  FREES = 2
INVARIANTS
  TypeOK
  HeadersSpared
  SameSizeSequence
PROPERTIES
  GivesOutWhole
  ReturnsWhileUntouched
CHECK_DEADLOCK FALSE

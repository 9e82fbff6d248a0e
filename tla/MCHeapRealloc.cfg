SPECIFICATION FairSpec
CONSTANTS
  PAGE_SIZE = 4096
  POOL_ARRAY_SIZE = 3
  SPARE = 4
  BASE = 1
  MAXIMUM_COALESCE_BLOCKS = 4
  HEAD = 64
  Requests <- MCRequests
  CALLS = 2
  FREES = 1
PROPERTIES
  ReallocReturns
CHECK_DEADLOCK FALSE

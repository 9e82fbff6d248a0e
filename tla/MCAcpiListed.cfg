SPECIFICATION FairSpec
CONSTANTS
  NULL = NULL
  ADDRESSES = 64
  hhdmOffset = 48
  LIST = 4
  c1 = c1
  c2 = c2
  pins <- MCPins
  idRegister <- MCIds
  Machines <- MCMachines
  Requests <- MCRequests
INVARIANTS
  FindsListed
CHECK_DEADLOCK FALSE

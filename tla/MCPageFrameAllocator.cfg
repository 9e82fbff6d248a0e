SPECIFICATION Spec
CONSTANTS
  PAGESIZE = 2
  freeMemStart = 4
  freeMemLen = 12
  RequestSizes = {1, 2, 3, 5}
  SIZE_MOD = 64
  TABLE_SIZE = 3
  hash <- MCHash
  JunkHeader <- MCJunk
INVARIANTS
  TypeOK
  GrantsDisjoint
  NeverCoalesces
  UsedMemoryNeverFalls
  SpillsOnlyWhenFull
PROPERTIES
  LiveFramesUntouched
  ImplementsFrameService
CHECK_DEADLOCK FALSE

SPECIFICATION FairSpec
CONSTANTS
  Exceptions <- MCExceptions
  Lines = {0, 1, 12}
  CodeFlags = {2, 18, 67, 147}
  StubFlags = {146, 150}
  RIP = 1000
  RSP = 2000
  Above = {0, 40, 59, 4096}
  DEPTH = 4
INVARIANTS
  TypeOK
  OneInterrupt
PROPERTIES
  NothingReturns
  StubsEnd
CHECK_DEADLOCK FALSE

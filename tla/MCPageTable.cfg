SPECIFICATION Spec
CONSTANTS
  W = 2
  TOP = 5
  HALF = 2
  LOW = 4
  hhdmOffset = 16
  virtualBase = 32
  physicalBase = 1
  kernelSize = 2
  stackAddr = 15
  MemoryMaps <- MemoryMapsMC
  TABLES = 18
  CPUs = {bsp, ap}
  BSP = bsp
  Stacks = {3, 6}
INVARIANTS
  TypeOK
  DirectMap
  WritesTablesOnly
  KernelViewsAgree
PROPERTY
  MapsExactly
CHECK_DEADLOCK FALSE

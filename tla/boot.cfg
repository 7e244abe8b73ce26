SPECIFICATION BootSpec
CONSTANTS
  Align = 2
  MaxLog2Sli = 1
  SmallBlock = 4
  FliOffset = 1
  RealFli = 4
  WordMod = 64
  PoolSize = 34
  Requests = {1, 5, 10, 17}
  Slots = 2
  Functions = 2
  Machines <- AllMachines
INVARIANTS
  BoundaryTags
  FreeLists
  CallsAsPromised
  GoodFit
  StartedIsOurs
  AllFound
PROPERTIES
  ImplementsHeap
  EndsUnlessAwaited
CHECK_DEADLOCK FALSE

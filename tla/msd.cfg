SPECIFICATION Spec
CONSTANTS
  Luns = 2
  BlockLen = 2
  Garbage = {0, 1}
  Counts = {1, 3, 4}
  CountMod = 3
  MaxStuck = 3
  MaxFaults = 2
  MaxCalls = 2
INVARIANTS
  InStep
  SmoothCallsComplete
  TrueMeansStatus
PROPERTY
  WaitEnds
CHECK_DEADLOCK FALSE

SPECIFICATION Spec
CONSTANTS
  NcsValues = {2}
  Counts = {1, 16, 17, 40}
  MaxSpin = 2
  MaxCalls = 4
INVARIANT AllSectorsMoved
CHECK_DEADLOCK FALSE

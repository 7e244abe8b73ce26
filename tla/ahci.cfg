SPECIFICATION Spec
CONSTANTS
  NcsValues = {0, 1, 2, 16}
  Counts = {1, 16, 17, 40}
  MaxSpin = 2
  MaxCalls = 5
INVARIANT ResultsMean
PROPERTIES
  ListMovesAtRest
  PendingUntouched
  CallsReturn
CHECK_DEADLOCK FALSE

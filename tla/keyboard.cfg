SPECIFICATION Spec
CONSTANTS
  QueueMax = 2
  TailInit <- NegOne
  ScanCodes <- MCScanCodes
  ShiftCodes <- MCShiftCodes
  Codes <- MCCodes
  CodesSh <- MCCodesSh
  MaxLost = 1
INVARIANTS
  Accounting
  FifoOrder
  RepeatsOnlyHeldKey
PROPERTY
  KeyEventuallyFetched

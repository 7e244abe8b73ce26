SPECIFICATION Spec
CONSTANTS
  QueueMax = 3
  TailInit = 0
  ScanCodes <- MCScanCodes
  ShiftCodes <- MCShiftCodes
  Codes <- MCCodes
  CodesSh <- MCCodesSh
  MaxLost = 0
INVARIANT
  FetchesOldest

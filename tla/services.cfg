SPECIFICATION Spec
CONSTANTS
  WordMod <- Bits8
  Width = 3
  Height = 2
  FirstCalls <- First
  Calls <- Later
  MaxLines = 5
  Disks = {disk}
  PerEntry = 1
  Sectors = 2
  Versions = {before, after}
  Other = Other
  SectorCounts = {1, 2}
  LaMax = 0
  LaMin <- LaReset
  MaxPairs = 6
  n1 = n1
  n2 = n2
  n3 = n3
  k1 = k1
  k2 = k2
  Names = {n1, n2, n3}
  Bytes <- AddressBytes
  Offsets = {0, 1}
  Sizes = {2}
  NoDrive = NoDrive
SYMMETRY
  EqualNames
INVARIANTS
  ShowsText
  FieldsRight
  ReadsFresh
  TablesAccounted
CHECK_DEADLOCK FALSE

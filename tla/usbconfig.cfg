SPECIFICATION Spec
CONSTANTS
  Devices <- AllDevices
  StringMax = 127
  MaxFails = 1
  MaxNodes = 8
INVARIANTS
  SoundDevicesSafe
  OrdinaryDeviceServed
PROPERTY
  InitEnds
CHECK_DEADLOCK FALSE

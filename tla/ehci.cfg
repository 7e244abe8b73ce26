SPECIFICATION Spec
CONSTANTS
  MaxQh = 2
  MaxTd = 3
  Endps <- OneEndp
  Packets = {0, 4}
  Timeout = 1
INVARIANTS
  RingIsList
  ChainsApart
  NothingLeaks
  SuccessIsSettled
  TogglesAgree
PROPERTY
  CallsReturn
CHECK_DEADLOCK FALSE

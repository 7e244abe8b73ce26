SPECIFICATION Spec
CONSTANTS
  h = h
  Hubs = {h}
  Functions = {f}
  root = root
  Root = root
  RootCount = 2
  HubCount = 2
  Sockets <- AllSockets
  Cells = {1, 2, 3, 4}
  Null = Null
  Wild = Wild
  AddrMod = 4
  MaxEvents = 2
  MaxFaults = 1
INVARIANTS
  ListIntact
  AddressesDistinct
  PortsAgree
PROPERTY
  SeenInTheEnd
CHECK_DEADLOCK FALSE

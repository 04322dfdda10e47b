SPECIFICATION Spec
CONSTANTS
  TableSize = 4
  NTables = 3
  Buses = 2
  Devices = 2
  Functions = 2
  PciMaps <- Maps
  Bar5 <- Registers
  PortSets <- Ports
  NPorts = 3
  NearPorts = 2
  FreeFrames <- Frames
  KernelFrames = {1}
  UnsetPages <- Unset
  Garbage <- Bitmaps
  PageBytes = 64
  WordBits = 10
  ConfigBytes = 8
  PointerBytes = 4
INVARIANTS
  TypeOK
  IdentityKept
  TlbCoherent
  FindsLastBus
  RegistersAreDevices
  FaultsExplained
  ConfigPlaced
CHECK_DEADLOCK FALSE

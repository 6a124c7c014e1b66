SPECIFICATION Spec
CONSTANTS
    Assocs = {1}
    PacketIds = 2
    Lengths = {4}
    DatagramSizes = {4,5}
    FixedLen = 1
    AddrLen = 2
    MaxFragments = 3
    Capacity = 1
    MaxSends = 2
    MaxControls = 1
    MaxTasks = 2
INVARIANTS
  FragmentsExact
  OutIsWhole
  
PROPERTIES
  RelayEnds
CHECK_DEADLOCK FALSE

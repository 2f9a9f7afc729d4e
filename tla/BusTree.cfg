SPECIFICATION FairTreeSpec
CONSTANTS
  Lists = {}
  Buses <- MCBuses
  Designs <- MCDesigns
  AddrBits = 12
INVARIANTS
  RegsReachTheirSlave
  RangesReachMemory
  CachableIffMemory
PROPERTY
  SubbusFits
CHECK_DEADLOCK FALSE

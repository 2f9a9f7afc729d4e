SPECIFICATION FairSpec
CONSTANTS
  Lists <- MCLists
  Buses <- MCBuses
  AddrBits = 10
INVARIANTS
  SlavesDisjoint
  DecodesOwner
  LayoutAsAsked
PROPERTIES
  ImplementsAddrMap
  Terminates
CHECK_DEADLOCK FALSE

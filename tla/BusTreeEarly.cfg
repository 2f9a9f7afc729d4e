SPECIFICATION TreeSpec
CONSTANTS
  Lists = {}
  Buses <- MCBuses
  Designs <- EarlyDesigns
  AddrBits = 12
INVARIANT
  AssignedWhenReady
CHECK_DEADLOCK FALSE

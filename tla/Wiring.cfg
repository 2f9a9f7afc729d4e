SPECIFICATION WFairSpec
CONSTANTS
  Buses <- MCBuses
  Designs <- MCDesigns
  Sio = Sio
  Dio = Dio
  m1 = m1
  m2 = m2
  ClassLimit = 50
INVARIANTS
  OnOneList
  WiresDriven
  EverySlaveReached
PROPERTY
  SlavesCollected
CHECK_DEADLOCK FALSE

SPECIFICATION WFairSpec
CONSTANTS
  Buses <- MCBuses
  Designs <- MixedDesigns
  Sio = Sio
  Dio = Dio
  m1 = m1
  m2 = m2
  ClassLimit = 50
INVARIANTS
  EverySlaveReached
CHECK_DEADLOCK FALSE

SPECIFICATION FairSpec
CONSTANTS
  Clk = Clk
  B = B
  C = C
  NoName = NoName
  ClockNames <- MCClockNames
  Default <- MCDefault
  PicosPerSecond = 48
  DefaultFrequency = 12
  Designs <- MCDesigns
  Program <- MCProgram
  AddrBits = 5
  MaxCalls = 3
INVARIANTS
  ClocksMerged
  TickedOnItsClock
  LoadedInPlace
PROPERTIES
  ReturnsAtNextRise
  ResetSeen
  CallsReturn
CHECK_DEADLOCK FALSE

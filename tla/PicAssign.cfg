SPECIFICATION FairSpec
CONSTANTS
  a = a
  b = b
  c = c
  x = x
  NoLine = NoLine
  sys = sys
  alt = alt
  sysvec = sysvec
  altvec = altvec
  Line = {a, b, c, x}
  PicName = {sys, alt, sysvec, altvec}
  Designs <- MCDesigns
INVARIANTS
  VectorMatchesList
  CountsFilled
  IdentIsWired
PROPERTIES
  LinesServed
  ImplementsIntVector
CHECK_DEADLOCK FALSE

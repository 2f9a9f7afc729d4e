SPECIFICATION FairSpec
CONSTANTS
  A = A
  B = B
  Names <- MCNames
  NoName = NoName
  Designs <- MCDesigns
INVARIANTS
  DefinitionsMerged
  ConflictsReported
  OnItsBus
PROPERTY
  Terminates
CHECK_DEADLOCK FALSE

SPECIFICATION FairSpec
CONSTANTS
  A = A
  B = B
  C = C
  D = D
  Macro = {A, B, C, D}
  Within <- Reflexive
  Designs <- MCDesigns
INVARIANTS
  DefinesWhatTagsCallFor
  OnlyIfDependenciesHold
PROPERTY
  Terminates
CHECK_DEADLOCK FALSE

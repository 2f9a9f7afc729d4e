SPECIFICATION FairSpec
CONSTANTS
  Designs <- MCDesigns
  Calls = 3
INVARIANTS
  EvaluatedRight
  StringsReadRight
PROPERTY
  EvaluatedInTheEnd
CHECK_DEADLOCK FALSE

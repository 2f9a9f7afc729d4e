SPECIFICATION FairDbSpec
CONSTANT
  Projects <- MCProjects
INVARIANTS
  AppendedInOrder
  InheritsWhatItLacks
PROPERTY
  IntsConverted
CHECK_DEADLOCK FALSE

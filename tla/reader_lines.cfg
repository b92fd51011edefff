SPECIFICATION Spec
CONSTANTS
  Inputs <- MCInputs
  Bools <- MCBools
  Ints <- MCInts
  Capacity = 1
INVARIANTS
  LinesAreTaken
CHECK_DEADLOCK FALSE

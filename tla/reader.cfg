SPECIFICATION FairSpec
CONSTANTS
  Inputs <- MCInputs
  Bools <- MCBools
  Ints <- MCInts
  Capacity = 1
INVARIANTS
  TypeOK
  BufferFits
  StringIsInput
PROPERTIES
  CallsEnd
CHECK_DEADLOCK FALSE

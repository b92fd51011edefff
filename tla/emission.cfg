CONSTANTS
  Bodies <- MCBodies
  Signatures <- MCSignatures
  Half = 8
SPECIFICATION ExecutionSpec
INVARIANTS
  WrittenIsCompiled
  ReturnedIsMeant
PROPERTY RunEnds
CHECK_DEADLOCK FALSE

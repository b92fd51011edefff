SPECIFICATION Spec
CONSTANTS
  Sources <- MCSources
INVARIANTS
  EndIsTrue
  TokensAreInPlace
  CommentsAreOpen
  
PROPERTIES
  ScanEnds
CHECK_DEADLOCK FALSE

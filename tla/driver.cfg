CONSTANTS
  Counts <- MCCounts
  Machine <- MCMachine
  Inputs <- MCInputs
  Clean <- MCClean
  Requests <- MCRequests
SPECIFICATION CompilerSpec
INVARIANTS
  OutcomeIsExpected
  TreeFollowsTheManual
  CleanIsAccepted
  DiagnosticsAreShown
  
  CodeIsFromAccepted
PROPERTY ParseEnds
CHECK_DEADLOCK FALSE

CONSTANTS
  Counts <- MCCounts
  Machine <- MCMachine
  Inputs <- MissingBrace
  Clean <- Nothing
  Requests <- Printed
SPECIFICATION CompilerSpec
INVARIANTS
  ExitTellsSyntax
CHECK_DEADLOCK FALSE

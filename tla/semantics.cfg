SPECIFICATION FairSpec
CONSTANTS
  Object = Object  Main = Main  A = A  B = B  C = C  Unknown = Unknown
  main = main  f = f  Int32 = Int32  Unit = Unit
  ClassName <- MCClassName
  MethodName <- MCMethodName
  FieldName <- MCFieldName
  Type <- MCType
  Builtins <- MCBuiltins
  Programs <- MCPrograms
INVARIANTS
  TypeOK
  CycleReportsAreTrue
  MarksTellCycles
  FirstDeclarationWins
  AcceptedTableIsSound
PROPERTIES
  Terminates
  ImplementsAcceptance
CHECK_DEADLOCK FALSE

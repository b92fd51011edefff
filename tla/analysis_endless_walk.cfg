SPECIFICATION FairAnalysisSpec
CONSTANTS
  Object = Object  Main = Main  A = A  B = B  C = C  Unknown = Unknown
  main = main  move = move  print = print  size = size  Int32 = Int32
  Yes = Yes  No = No  Nothing = Nothing
  ClassName <- MCClassName
  MethodName <- MCMethodName
  FieldName <- MCFieldName
  Type <- MCType
  Builtins <- MCBuiltins
  Programs <- Hierarchies
PROPERTIES
  WalksEnd
CHECK_DEADLOCK FALSE

SPECIFICATION Spec
CONSTANTS
  Object = Object  Main = Main  A = A  B = B  C = C
  main = main  move = move  print = print  printInt32 = printInt32
  new = new  init = init  size = size  link = link  Int32 = Int32  String = String
  ClassName <- MCClassName
  MethodName <- MCMethodName
  FieldName <- MCFieldName
  Type <- MCType
  Builtins <- MCBuiltins
  Programs <- AllPrograms
INVARIANTS
  ClassesExtendTheirParents
  FieldIndexIsNearest
  VtablesAreComplete
  BodiesFindTheirReferences
  CallsReachTheOverride
  CallsAgreeOnTypes
  ThunksGoUp

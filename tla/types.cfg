SPECIFICATION MCSpec
CONSTANTS
  Object = Object  Main = Main  A = A  B = B  Missing = Missing
  main = main  get = get  test = test  print = print  none = none  x = x  p = p  z = z
  Int32 = Int32  Bool = Bool  String = String  Unit = Unit  Undefined = Undefined
  ClassName <- MCClassName
  MethodName <- MCMethodName
  FieldName <- MCFieldName
  Type <- MCType
  Builtins <- MCBuiltins
  Programs <- NoPrograms
  NodesOf <- MCNodesOf
  Trees <- MCTrees
INVARIANTS
  SilenceIsSound
  ErrorsAreTrue
  ScopesFollowTheTree
  AcceptedIsTyped
  NothingEscapes

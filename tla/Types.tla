-------------------------------- MODULE Types --------------------------------
(***************************************************************************)
(* The TypesVisitor and the ScopeManager it uses: a walk over the tree of  *)
(* a program that types every expression and reports what does not fit.    *)
(* The recursion of the visit functions is the variable stack; a frame     *)
(* says which node is visited and which of its children comes next.  The   *)
(* class table is that of a program without class errors.                  *)
(*                                                                         *)
(* All nodes are records with the same fields: op, the kind of node; name, *)
(* what it names; type, the type written in it; formals; kids, its         *)
(* children.  A class has its fields first, then its methods.  A node is   *)
(* known by its path from the root.                                        *)
(***************************************************************************)
EXTENDS ClassTable

CONSTANTS
  Bool, String, Unit,   (* the other types that are no classes               *)
  Undefined,            (* Type(), a type that has not been set              *)
  Trees,                (* the programs visited: ProgramNodes                *)
  NodesOf(_)            (* the nodes of a program                            *)

ASSUME TypesAssumption ==
  /\ ClassName \cup {Int32, Bool, String, Unit} \subseteq Type
  /\ {Int32, Bool, String, Unit, Undefined} \cap ClassName = {}
  /\ Undefined \notin Type
  /\ "self" \notin FieldName
  /\ \A i \in DOMAIN Builtins : Builtins[i].ret \in {Object, Int32, Bool, String}

-----------------------------------------------------------------------------
(* What the parser builds: which nodes have which children.                *)
Expressions == {"literal", "self", "new", "variable", "assign", "let",
                "block", "if", "while", "not", "minus", "isnull",
                "arithmetic", "comparison", "and", "equal", "call"}

Below(op) == CASE op = "program" -> {"class"}
               [] op = "class"   -> {"field", "method"}
               [] OTHER          -> Expressions

Counts(op) ==
  CASE op \in {"literal", "self", "new", "variable"}                 -> {0}
    [] op \in {"method", "assign", "not", "minus", "isnull"}         -> {1}
    [] op \in {"while", "arithmetic", "comparison", "and", "equal"}  -> {2}
    [] op = "field" -> {0, 1}
    [] op = "let"   -> {1, 2}
    [] op = "if"    -> {2, 3}
    [] op = "call"  -> Nat \ {0}
    [] OTHER        -> Nat

FormalNode == [name : FieldName, type : Type \cup {Undefined}]

Shaped(e) ==
  /\ \A i \in DOMAIN e.kids : e.kids[i].op \in Below(e.op)
  /\ Len(e.kids) \in Counts(e.op)
  /\ e.op = "class" => e.name \in ClassName
  /\ e.op = "method" => e.formals \in Seq(FormalNode)
  /\ e.op # "method" => e.formals = <<>>
  /\ e.op \in {"let", "variable", "assign"} => e.name \in FieldName
  /\ e.op = "literal" => e.type \in {Int32, Bool, String, Unit}
  /\ e.op = "new" => e.type \in ClassName

-----------------------------------------------------------------------------
(* The fields, or the methods, of a class, each added at the end.          *)
Members(c, op) ==
  LET kept[k \in 0 .. Len(c.kids)] ==
        IF k = 0 THEN <<>>
        ELSE IF c.kids[k].op = op THEN Append(kept[k - 1], c.kids[k]) ELSE kept[k - 1]
  IN kept[Len(c.kids)]

Signature(k) == [name    |-> k.name, ret |-> k.type,
                 formals |-> [i \in DOMAIN k.formals |-> k.formals[i].type]]

(* What ClassesVisitor makes of a class.                                   *)
InfoOfNode(c) ==
  LET fields  == Members(c, "field")
      methods == Members(c, "method")
  IN InfoOf([parent  |-> c.type,
             fields  |-> [i \in DOMAIN fields |->
                            [name |-> fields[i].name, type |-> fields[i].type]],
             methods |-> [i \in DOMAIN methods |-> Signature(methods[i])]])

TableOfTree(t) ==
  [c \in {Object} \cup {t.kids[i].name : i \in DOMAIN t.kids} |->
     IF c = Object THEN ObjectInfo ELSE InfoOfNode(GetMember(t.kids, c))]

(* Trees of the parser, without class errors.                              *)
ASSUME TreesAssumption ==
  \A t \in Trees :
    /\ t \in NodesOf(t) /\ t.op = "program"
    /\ \A e \in NodesOf(t) : e.kids \in Seq(NodesOf(t)) /\ Shaped(e)
    /\ ParentsKnown(TableOfTree(t))
    /\ WellFounded(TableOfTree(t), DOMAIN TableOfTree(t) \ {Object})

-----------------------------------------------------------------------------
VARIABLES
  tree,        (* the root                                                   *)
  table,       (* the class table                                            *)
  stack,       (* the visit functions that are active                        *)
  current,     (* current_class_name_                                        *)
  scopes,      (* scope_table_, innermost scope last                         *)
  types,       (* the types that were set: a function on paths               *)
  errors       (* what was reported, and on which node                       *)

vars == <<tree, table, stack, current, scopes, types, errors>>

NodeIn(root, path) ==
  LET node[k \in 0 .. Len(path)] ==
        IF k = 0 THEN root ELSE node[k - 1].kids[path[k]]
  IN node[Len(path)]

NodeAt(path) == NodeIn(tree, path)

-----------------------------------------------------------------------------
(* The questions to the class table.                                       *)
IsCustom(t) == t \in ClassName

IsSubtype(t, expected) == expected \in Range(Ancestry(table, t))

(* Slip: only Object is above a class.                                     *)
ConformsToObject(given, expected) ==
  /\ Undefined \notin {given, expected}
  /\ given = expected \/ (IsCustom(given) /\ expected = Object)

Conforms(given, expected) ==
  /\ Undefined \notin {given, expected}
  /\ \/ given = expected
     \/ IsCustom(given) /\ IsCustom(expected) /\ IsSubtype(given, expected)

(* The nearest of some classes on the way up from a class; none or one.    *)
Nearest(c, classes) ==
  LET way == Ancestry(table, c)
  IN IF Range(way) \cap classes = {} THEN {} ELSE {FirstOf(way, classes)}

CommonAncestor(a, b) ==
  IF {a, b} \subseteq DOMAIN table
  THEN FirstOf(Ancestry(table, b), Range(Ancestry(table, a)))
  ELSE Object

LookupMethod(c, n) ==
  {GetMember(table[k].methods, n) :
     k \in Nearest(c, {a \in DOMAIN table : HasMember(table[a].methods, n)})}

LookupField(c, n) ==
  {GetMember(table[k].fields, n) :
     k \in Nearest(c, {a \in DOMAIN table : HasMember(table[a].fields, n)})}

Exists(t) == IsCustom(t) => t \in DOMAIN table

-----------------------------------------------------------------------------
(* ScopeManager.                                                           *)
PushScope(bindings) == scopes' = Append(scopes, bindings)
PopScope == scopes' = Front(scopes)

(* Slip: the scopes are searched from the outermost.                       *)
LookupOutermost(n) ==
  LET having == {i \in DOMAIN scopes : n \in DOMAIN scopes[i]}
  IN {scopes[i][n] : i \in {k \in having : \A j \in having : k <= j}}

(* lookup: the innermost scope that binds the name; none or one type.      *)
Lookup(n) ==
  LET having == {i \in DOMAIN scopes : n \in DOMAIN scopes[i]}
  IN {scopes[i][n] : i \in {k \in having : \A j \in having : k >= j}}

Resolve(n) ==
  IF Lookup(n) # {} THEN Lookup(n) ELSE {f.type : f \in LookupField(current, n)}
-----------------------------------------------------------------------------
(* A visit: the node at the top of the stack.                              *)
Top  == Last(stack)
Node == NodeAt(Top.at)
Kids == Len(Node.kids)

At(op) == stack # <<>> /\ Node.op = op

Arriving == Top.next = 1
Visited  == Top.next > Kids

TypeAt(path) == IF path \in DOMAIN types THEN types[path] ELSE Undefined

Kid(k) == TypeAt(Append(Top.at, k))

Enter == stack' = Append([stack EXCEPT ![Len(stack)].next = @ + 1],
                         [at |-> Append(Top.at, Top.next), next |-> 1])

Leave == stack' = Front(stack)

EnterOrLeave == IF Visited THEN Leave ELSE Enter

SetType(t) == types' = [p \in DOMAIN types \cup {Top.at} |->
                          IF p = Top.at THEN t ELSE types[p]]

Report(faults) == errors' = errors \cup {[what |-> f, at |-> Top.at] : f \in faults}

If(condition, fault) == IF condition THEN {fault} ELSE {}

(* The end of most visits: what was found, and the type.                   *)
Finish(faults, t) == /\ Report(faults) /\ SetType(t) /\ Leave
                     /\ UNCHANGED <<tree, table, current, scopes>>

-----------------------------------------------------------------------------
Init == /\ tree \in Trees /\ table = TableOfTree(tree)
        /\ stack = <<[at |-> <<>>, next |-> 1]>>
        /\ current = Object /\ scopes = <<>> /\ types = <<>> /\ errors = {}

VisitProgram == /\ At("program") /\ EnterOrLeave
                /\ UNCHANGED <<tree, table, current, scopes, types, errors>>

VisitClass == /\ At("class") /\ EnterOrLeave
              /\ current' = Node.name
              /\ UNCHANGED <<tree, table, scopes, types, errors>>

(* Fields: the initializer is visited, its type is not looked at.          *)
VisitField == /\ At("field") /\ EnterOrLeave
              /\ Report(If(Arriving /\ ~ Exists(Node.type), "undefined type"))
              /\ UNCHANGED <<tree, table, current, scopes, types>>

(* The bindings of a method's scope: self and the formals, of which the    *)
(* last of a name counts.                                                  *)
MethodScope(m, c) ==
  [n \in {"self"} \cup {m.formals[i].name : i \in DOMAIN m.formals} |->
     IF HasMember(m.formals, n) THEN m.formals[LastNamed(m.formals, n)].type ELSE c]

LetScope(e) == [n \in {e.name} |-> e.type]

(* Slip: the types of the formals are not looked at.                       *)
StartMethodTrusting ==
  /\ At("method") /\ Arriving
  /\ Report(If(~ Exists(Node.type), "undefined type"))
  /\ PushScope(MethodScope(Node, current))
  /\ Enter
  /\ UNCHANGED <<tree, table, current, types>>

StartMethod ==
  /\ At("method") /\ Arriving
  /\ Report(If(\/ ~ Exists(Node.type)
               \/ \E i \in DOMAIN Node.formals : ~ Exists(Node.formals[i].type),
               "undefined type"))
  /\ PushScope(MethodScope(Node, current))
  /\ Enter
  /\ UNCHANGED <<tree, table, current, types>>

EndMethod ==
  /\ At("method") /\ Visited
  /\ Report(If(Kid(1) # Undefined /\ ~ Conforms(Kid(1), Node.type), "result"))
  /\ PopScope /\ Leave
  /\ UNCHANGED <<tree, table, current, types>>

-----------------------------------------------------------------------------
(* Expressions whose children are all visited before anything is looked at. *)
Plain == {"block", "if", "while", "not", "minus", "isnull",
          "arithmetic", "comparison", "and", "equal", "call"}

VisitKid == /\ stack # <<>> /\ Node.op \in Plain /\ ~ Visited
            /\ Enter
            /\ UNCHANGED <<tree, table, current, scopes, types, errors>>

VisitLiteral == At("literal") /\ Finish({}, Node.type)

VisitSelf == At("self") /\ Finish({}, current)

VisitNew == /\ At("new")
            /\ IF Node.type \in DOMAIN table THEN Finish({}, Node.type)
                                             ELSE Finish({"unknown class"}, Object)

VisitVariable ==
  /\ At("variable")
  /\ \/ Resolve(Node.name) = {} /\ Finish({"undefined identifier"}, Object)
     \/ \E t \in Resolve(Node.name) : Finish({}, t)

(* A block without expressions is unit.                                    *)
EndBlock == At("block") /\ Visited /\ Finish({}, IF Kids = 0 THEN Unit ELSE Kid(Kids))

(* The type of an if: its branches' common ancestor, or what they agree on. *)
Branches(a, b) ==
  IF Unit \in {a, b} THEN {Unit}
  ELSE IF IsCustom(a) /\ IsCustom(b) THEN {CommonAncestor(a, b)}
  ELSE {a} \cap {b}

EndIf ==
  /\ At("if") /\ Visited
  /\ LET joined == Branches(Kid(2), IF Kids = 3 THEN Kid(3) ELSE Unit)
     IN Finish(If(~ Conforms(Kid(1), Bool), "condition")
                 \cup If(joined = {}, "branches"),
               IF joined = {} THEN Object ELSE CHOOSE t \in joined : TRUE)

EndWhile == /\ At("while") /\ Visited
            /\ Finish(If(~ Conforms(Kid(1), Bool), "condition"), Unit)

(* The types of the operators, and what they result in.                    *)
UnaryOf == [not |-> <<Bool, Bool>>, minus |-> <<Int32, Int32>>,
            isnull |-> <<Object, Bool>>]

EndUnary == /\ stack # <<>> /\ Node.op \in DOMAIN UnaryOf /\ Visited
            /\ IF Conforms(Kid(1), UnaryOf[Node.op][1])
               THEN Finish({}, UnaryOf[Node.op][2])
               ELSE Finish({"operand"}, Object)

BinaryOf == [arithmetic |-> <<Int32, Int32>>, comparison |-> <<Int32, Bool>>,
             and |-> <<Bool, Bool>>]

EndBinary == /\ stack # <<>> /\ Node.op \in DOMAIN BinaryOf /\ Visited
             /\ IF \A k \in 1 .. 2 : Conforms(Kid(k), BinaryOf[Node.op][1])
                THEN Finish({}, BinaryOf[Node.op][2])
                ELSE Finish({"operand"}, Object)

EndEqual == /\ At("equal") /\ Visited
            /\ IF Kid(1) = Kid(2) \/ (IsCustom(Kid(1)) /\ IsCustom(Kid(2)))
               THEN Finish({}, Bool)
               ELSE Finish({"operand"}, Object)

(* check_formals: the receiver is the first child, the arguments follow.   *)
ArgumentFaults(m) ==
  IF Len(m.formals) # Kids - 1 THEN {"argument count"}
  ELSE If(\E i \in DOMAIN m.formals : ~ Conforms(Kid(i + 1), m.formals[i]), "argument")

EndCall ==
  /\ At("call") /\ Visited
  /\ \/ ~ IsCustom(Kid(1)) /\ Finish({"no class"}, Object)
     \/ /\ IsCustom(Kid(1)) /\ LookupMethod(Kid(1), Node.name) = {}
        /\ Finish({"no method"}, Object)
     \/ /\ IsCustom(Kid(1))
        /\ \E m \in LookupMethod(Kid(1), Node.name) : Finish(ArgumentFaults(m), m.ret)

(* An assignment: its target is looked up before the value is visited, and *)
(* the value is not visited if there is none.  It stands for the same when *)
(* the value has been visited, as the scopes are the same again.           *)
StartAssign ==
  /\ At("assign") /\ Arriving
  /\ IF Resolve(Node.name) = {}
     THEN Finish({"undefined identifier"}, Object)
     ELSE Enter /\ UNCHANGED <<tree, table, current, scopes, types, errors>>

EndAssign ==
  /\ At("assign") /\ Visited
  /\ \E t \in Resolve(Node.name) :
       Finish(If(~ Conforms(Kid(1), t), "value"), Kid(1))

(* let: the initializer, if there is one, is the first of two children and *)
(* is visited before the name is bound.                                    *)
StartLet ==
  /\ At("let") /\ Arriving /\ Kids = 2
  /\ Report(If(~ Exists(Node.type), "undefined type"))
  /\ Enter
  /\ UNCHANGED <<tree, table, current, scopes, types>>

(* Slip: the visit returns on a wrong initializer, as others do on theirs.  *)
BindLetReturning ==
  /\ At("let") /\ Top.next = Kids
  /\ IF Kids = 2 /\ ~ Conforms(Kid(1), Node.type)
     THEN Finish({"initializer"}, Object)
     ELSE /\ Report(If(Kids = 1 /\ ~ Exists(Node.type), "undefined type"))
          /\ PushScope(LetScope(Node))
          /\ Enter
          /\ UNCHANGED <<tree, table, current, types>>

BindLet ==
  /\ At("let") /\ Top.next = Kids
  /\ Report(IF Kids = 1 THEN If(~ Exists(Node.type), "undefined type")
            ELSE If(~ Conforms(Kid(1), Node.type), "initializer"))
  /\ PushScope(LetScope(Node))
  /\ Enter
  /\ UNCHANGED <<tree, table, current, types>>

(* Slip: the scope stays.                                                  *)
EndLetOpen ==
  /\ At("let") /\ Visited
  /\ SetType(Kid(Kids)) /\ Leave
  /\ UNCHANGED <<tree, table, current, scopes, errors>>

EndLet ==
  /\ At("let") /\ Visited
  /\ SetType(Kid(Kids)) /\ PopScope /\ Leave
  /\ UNCHANGED <<tree, table, current, errors>>

Next ==
  \/ VisitProgram \/ VisitClass \/ VisitField \/ StartMethod \/ EndMethod
  \/ VisitKid \/ VisitLiteral \/ VisitSelf \/ VisitNew \/ VisitVariable
  \/ EndBlock \/ EndIf \/ EndWhile \/ EndUnary \/ EndBinary \/ EndEqual
  \/ EndCall \/ StartAssign \/ EndAssign \/ StartLet \/ BindLet \/ EndLet

Spec == Init /\ [][Next]_vars

-----------------------------------------------------------------------------
Done == stack = <<>>

Accepted == Done /\ errors = {}

(* What the tree says, without scopes and without an order of visits.  The *)
(* nodes around a node are its proper prefixes; the positions of a tree    *)
(* are the paths it has nodes at.                                          *)
Around(path) == {SubSeq(path, 1, k) : k \in 1 .. Len(path) - 1}

Binds(q, path, n) ==
  LET e == NodeAt(q) IN
    \/ e.op = "method" /\ \E i \in DOMAIN e.formals : e.formals[i].name = n
    \/ e.op = "let" /\ e.name = n /\ path[Len(q) + 1] = Len(e.kids)

DeclaredBy(q, n) ==
  LET e == NodeAt(q) IN
    IF e.op = "let" THEN e.type
    ELSE e.formals[Max({i \in DOMAIN e.formals : e.formals[i].name = n})].type

ClassOf(path) == tree.kids[path[1]].name

(* The superclasses of a class: what every set that holds the class and is *)
(* closed under "extends" holds.                                           *)
Above(c) ==
  {s \in ClassName :
     \A S \in SUBSET ClassName :
       c \in S /\ (\A k \in S \cap DOMAIN table : table[k].parent \in S) => s \in S}

Fits(t, expected) ==
  Undefined \notin {t, expected} /\ (t = expected \/ (IsCustom(t) /\ expected \in Above(t)))

(* The classes among those that have none of the others above them.        *)
Lowest(S) == {c \in S : \A d \in S : d \in Above(c)}

(* What an identifier stands for where it is used: the binding closest to  *)
(* it, or the field of the closest superclass.                             *)
Meaning(n, path) ==
  LET binders == {q \in Around(path) : Binds(q, path, n)}
      owners  == {c \in Above(ClassOf(path)) \cap DOMAIN table :
                    HasMember(table[c].fields, n)}
  IN IF binders # {}
     THEN {DeclaredBy(q, n) : q \in {b \in binders : \A d \in binders : Len(d) <= Len(b)}}
     ELSE {GetMember(table[c].fields, n).type : c \in Lowest(owners)}

MethodsOf(c, n) ==
  LET owners == {k \in Above(c) \cap DOMAIN table : HasMember(table[k].methods, n)}
  IN {GetMember(table[k].methods, n) : k \in Lowest(owners)}

(* The typing rules: that the node has type t follows from the types of    *)
(* its children.                                                           *)
Derives(path, t) ==
  LET e == NodeAt(path)
      n == Len(e.kids)
      k(i) == TypeAt(Append(path, i))
  IN CASE e.op = "literal"  -> t = e.type
       [] e.op = "self"     -> t = ClassOf(path)
       [] e.op = "new"      -> t = e.type /\ t \in DOMAIN table
       [] e.op = "variable" -> t \in Meaning(e.name, path)
       [] e.op = "assign"   -> t = k(1) /\ \E d \in Meaning(e.name, path) : Fits(t, d)
       [] e.op = "block"    -> t = IF n = 0 THEN Unit ELSE k(n)
       [] e.op = "while"    -> t = Unit /\ k(1) = Bool
       [] e.op = "let"      -> t = k(n) /\ Exists(e.type) /\ (n = 2 => Fits(k(1), e.type))
       [] e.op = "not"      -> t = Bool /\ k(1) = Bool
       [] e.op = "minus"    -> t = Int32 /\ k(1) = Int32
       [] e.op = "isnull"   -> t = Bool /\ Fits(k(1), Object)
       [] e.op \in {"arithmetic", "comparison"} ->
            /\ t = IF e.op = "arithmetic" THEN Int32 ELSE Bool
            /\ k(1) = Int32 /\ k(2) = Int32
       [] e.op = "and"      -> t = Bool /\ k(1) = Bool /\ k(2) = Bool
       [] e.op = "equal"    -> t = Bool /\ (k(1) = k(2) \/ {k(1), k(2)} \subseteq ClassName)
       [] e.op = "if"       ->
            /\ k(1) = Bool
            /\ IF n = 2 \/ Unit \in {k(2), k(n)} THEN t = Unit
               ELSE IF ~ {k(2), k(3)} \subseteq ClassName THEN t = k(2) /\ t = k(3)
               ELSE IF {k(2), k(3)} \subseteq DOMAIN table
                    THEN t \in Lowest(Above(k(2)) \cap Above(k(3))) ELSE t = Object
       [] e.op = "call"     ->
            \E m \in IF IsCustom(k(1)) THEN MethodsOf(k(1), e.name) ELSE {} :
              /\ t = m.ret /\ Len(m.formals) = n - 1
              /\ \A i \in DOMAIN m.formals : Fits(k(i + 1), m.formals[i])

Faulted(path) == \E fault \in errors : fault.at = path

(* An expression that nothing was reported about has a type that follows   *)
(* by the typing rules, with every identifier meaning what the text around *)
(* it says.                                                                *)
SilenceIsSound ==
  Done => \A path \in DOMAIN types : ~ Faulted(path) => Derives(path, types[path])

(* What is reported is true: the rules give the expression no type.        *)
ErrorsAreTrue ==
  Done => \A path \in DOMAIN types :
            Faulted(path) => \A t \in Type : ~ Derives(path, t)

(* The scopes are those of the methods and lets that are being visited     *)
(* inside them, each with its own names, and none is left behind.          *)
InsideScope(frame) == LET e == NodeAt(frame.at) IN
  e.op \in {"method", "let"} /\ frame.next > Len(e.kids)

Bindings(path) == LET e == NodeAt(path) IN
  IF e.op = "let" THEN LetScope(e) ELSE MethodScope(e, ClassOf(path))

ScopesFollowTheTree ==
  \E opener \in [DOMAIN scopes -> DOMAIN stack] :
    /\ \A i, j \in DOMAIN scopes : i < j => opener[i] < opener[j]
    /\ Range(opener) = {k \in DOMAIN stack : InsideScope(stack[k])}
    /\ \A i \in DOMAIN scopes : scopes[i] = Bindings(stack[opener[i]].at)

Mentioned(e) == {e.type} \cup {e.formals[i].type : i \in DOMAIN e.formals}

(* The parser leaves a type undefined only where it reports an error.      *)
WellParsed == \A e \in NodesOf(tree) : Undefined \notin Mentioned(e)

(* What the code generator takes for granted of a tree without errors: all *)
(* types that it mentions or was given exist, results fit, and the bodies  *)
(* of its methods, with all below them, are typed.                         *)
AcceptedIsTyped ==
  Accepted /\ WellParsed =>
    /\ \A path \in DOMAIN types :
         /\ \A k \in DOMAIN NodeAt(path).kids : Append(path, k) \in DOMAIN types
         /\ Exists(types[path]) /\ types[path] # Undefined
         /\ NodeAt(path).op = "let" => Exists(NodeAt(path).type)
    /\ \A c \in DOMAIN tree.kids : \A i \in DOMAIN tree.kids[c].kids :
         LET member == tree.kids[c].kids[i] IN
           /\ \A t \in Mentioned(member) : Exists(t)
           /\ member.kids # <<>> => <<c, i, 1>> \in DOMAIN types
           /\ member.op = "method" => Fits(types[<<c, i, 1>>], member.type)

(* Undeclared(e): what is wrong with a member before its body is looked at; *)
(* Unfit: with its body.  A type that could not be found is not compared.  *)
Undeclared(e) == \E t \in Mentioned(e) : ~ Exists(t)

Unfit(e, t) == e.op = "method" /\ t # Undefined /\ ~ Fits(t, e.type)

(* An assignment whose name means nothing where it stands.                 *)
Aimless(path) ==
  NodeAt(path).op = "assign" /\ Meaning(NodeAt(path).name, path) = {}

(* One visit of the whole tree finds everything.  Whatever else is wrong,  *)
(* a member is reported if and only if it mentions a class that does not   *)
(* exist or its body does not conform to its result; and no mistake keeps  *)
(* the visitor from what is below it or beside it, except that the value   *)
(* of an assignment to a name that means nothing is not looked at.         *)
NothingEscapes ==
  Done =>
    /\ \A c \in DOMAIN tree.kids : \A i \in DOMAIN tree.kids[c].kids :
         LET member == tree.kids[c].kids[i] IN
           /\ member.kids # <<>> => <<c, i, 1>> \in DOMAIN types
           /\ Faulted(<<c, i>>) <=>
                Undeclared(member) \/ Unfit(member, TypeAt(<<c, i, 1>>))
    /\ \A path \in DOMAIN types : \A k \in DOMAIN NodeAt(path).kids :
         Append(path, k) \in DOMAIN types <=> ~ Aimless(path)

-----------------------------------------------------------------------------
(* What the checklist of the rules and a comment say, and is not so.       *)

(* "type of the initializer must conform to declared type"                 *)
InitializersFit ==
  Accepted =>
    \A c \in DOMAIN tree.kids : \A i \in DOMAIN tree.kids[c].kids :
      LET member == tree.kids[c].kids[i] IN
        member.op = "field" /\ member.kids # <<>> =>
          Fits(types[<<c, i, 1>>], member.type)

(* "object (self), its fields and methods are not yet in the scope": of a  *)
(* field's initializer.                                                    *)
SelfIsOfMethods ==
  Accepted =>
    \A path \in DOMAIN types :
      NodeAt(path).op = "self" => NodeAt(SubSeq(path, 1, 2)).op = "method"

(* "Undefined types should never reach type checking."                     *)
UndefinedIsNotChecked ==
  At("method") /\ Visited => Undefined \notin {Kid(1), Node.type}
=============================================================================

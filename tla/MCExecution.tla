---------------------------- MODULE MCExecution -----------------------------
(***************************************************************************)
(* Methods for the code generator: operations around operations, calls at  *)
(* every place of them, strings of up to three pieces.                     *)
(***************************************************************************)
EXTENDS Meaning

Node0(op, type, kids) == [op |-> op, type |-> type, name |-> "", value |-> 0, kids |-> kids]
Num(n) == [Node0("IntegerLiteralExpr", Int32, <<>>) EXCEPT !.value = n]
Truth(b) == [Node0("BoolLiteralExpr", Bool, <<>>) EXCEPT !.value = b]
Text(pieces) == [Node0("StringLiteralExpr", String, <<>>) EXCEPT !.value = pieces]
Self == Node0("SelfExpr", "Main", <<>>)
New(c) == Node0("NewExpr", c, <<>>)
Block(kids) == Node0("BlockExpr", IF kids = <<>> THEN Unit ELSE Last(kids).type, kids)
Stub(op, type) == Node0(op, type, <<>>)

MCSignatures == [m \in {"Main", "Child"} \X {"id", "test", "say", "both", "me", "with", "quit"} |->
  CASE m[2] = "id"   -> [formals |-> <<Int32>>, ret |-> Int32]
    [] m[2] = "test" -> [formals |-> <<Bool>>, ret |-> Bool]
    [] m[2] = "say"  -> [formals |-> <<String>>, ret |-> String]
    [] m[2] = "both" -> [formals |-> <<Int32, Int32>>, ret |-> Int32]
    [] m[2] = "me"   -> [formals |-> <<>>, ret |-> "Main"]
    [] m[2] = "with" -> [formals |-> <<"Main">>, ret |-> "Main"]
    [] m[2] = "quit" -> [formals |-> <<>>, ret |-> Unit]]
CallOn(receiver, name, args) ==
  [Node0("CallExpr", MCSignatures[receiver.type, name].ret, <<receiver>> \o args)
     EXCEPT !.name = name]

(* Integers, conditions and objects, and operations on them.               *)
Ints == {Num(0), Num(2), Num(3), CallOn(Self, "id", <<Num(1)>>)}
Bools == {Truth(TRUE), CallOn(Self, "test", <<Truth(FALSE)>>)}
Objects == {Self, New("Main"), CallOn(Self, "me", <<>>)}

On1(op, a, b) == Node0(op, Bool, <<a, b>>)
On(op, type, A, B) == {Node0(op, type, <<a, b>>) : a \in A, b \in B}
Operations(A, B) == UNION {On(op, Int32, A, B) : op \in {"Plus", "Minus", "Times", "Divide", "Power"}}
Conditions(A, B) == UNION {On(op, Bool, A, B) : op \in {"Lower", "LowerEqual", "Equal"}}
Inner == Operations(Ints, Ints)
Powers == On("Power", Int32, Ints, Ints) \cup On("Minus", Int32, {Num(0)}, {Num(2), Num(3)})

IntBodies == Operations(Inner, Ints) \cup Operations(Ints, Inner)
               \cup On("Power", Int32, Powers, Powers)
               \cup {CallOn(Self, "both", <<a, b>>) : a \in Powers, b \in Ints \cup Powers}
               \cup {Block(<<a, b>>) : a \in Powers, b \in Ints}
BoolBodies == Conditions(Inner, Ints)
                \cup On("And", Bool, Bools \cup Conditions(Ints, {Num(2)}), Bools \cup Conditions(Powers, {Num(2)}))
                \cup On("Equal", Bool, Objects, Objects) \cup On("Equal", Bool, Bools, Bools)
ObjectBodies == Objects \cup {CallOn(a, "with", <<b>>) : a \in Objects \cup {New("Child")}, b \in Objects}

(* a, the letters of escapes and of hexadecimals, and every escape.        *)
Pieces == {<<97>>, <<LetterX>>, <<52>>, <<92, 98>>, <<92, 110>>, <<92, 116>>, <<92, 114>>, <<92, 34>>, <<92, 92>>,
           <<92, 120, 53, 99>>, <<92, 120, 53, 67>>, <<92, 120, 50, 50>>, <<92, 120, 52, 49>>, <<92, 120, 48, 48>>,
           <<92, 10, 32>>}
Texts == UNION {[1..n -> Pieces] : n \in 0..2}
           \cup {<<p>> \o q : p \in {<<92, 120, 53, 99>>, <<92, 92>>},
                               q \in {<< <<LetterX>>, <<52>>, <<52>> >>, << <<110>> >>, << <<92, 34>>, <<97>> >>}}
StringBodies == {CallOn(Self, "say", <<Text(t)>>) : t \in Texts}
                  \cup On("Equal", Bool, {Text(<< <<97>> >>)}, {Text(<< <<97>> >>)})

(* What is accepted by the types and not compiled, or not as it was meant. *)
Unfinished ==
  {Stub(op, Int32) : op \in Stubs \ {"UnitLiteralExpr"}}
    \cup {Block(<<>>), Stub("UnitLiteralExpr", Unit), CallOn(Self, "quit", <<>>),
          On1("Equal", Stub("UnitLiteralExpr", Unit), Stub("UnitLiteralExpr", Unit)),
          CallOn(Self, "id", <<Stub("VariableExpr", Int32)>>),
          CallOn(Self, "with", <<New("Child")>>), New("Child"),
          On1("Equal", New("Child"), Self), On1("Equal", Stub("IfExpr", Bool), Truth(TRUE)),
          Node0("Plus", Int32, <<Stub("VariableExpr", Int32), Num(2)>>),
          Node0("Power", Int32, <<Num(2), Stub("VariableExpr", Int32)>>)}

Method(type, body) == [op |-> "MethodNode", class |-> "Main", type |-> type,
                       kids |-> <<body>>, nodes |-> Within(body)]
TypeFor(body) == IF body.type = "Child" THEN "Main" ELSE body.type
MCBodies == {Method(TypeFor(b), Block(<<b>>)) : b \in IntBodies \cup BoolBodies \cup ObjectBodies
                                                         \cup StringBodies \cup Unfinished}
              \cup {Method(Unit, Block(<<b>>)) : b \in Powers}
              \cup {Method(Unit, Block(<<>>))}
=============================================================================

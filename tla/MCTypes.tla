------------------------------ MODULE MCTypes -------------------------------
(* A class A with a field x and a method get, a class B that extends it,   *)
(* and in B a field or a method with any expression of a few nodes, or both.   *)
EXTENDS Types

CONSTANTS A, B, Missing, get, test, print, none, x, p, z

MCClassName  == {Object, Main, A, B, Missing}
MCFieldName  == {x, p, z, none}
MCMethodName == {get, test, print}
MCType       == {Int32, Bool, String, Unit} \cup MCClassName

N(op, name, type, kids) ==
  [op |-> op, name |-> name, type |-> type, formals |-> <<>>, kids |-> kids]

E(op, kids) == N(op, none, Unit, kids)

Literal(t)   == N("literal", none, t, <<>>)
Variable(n)  == N("variable", n, Unit, <<>>)
New(c)       == N("new", none, c, <<>>)
Assign(n, e) == N("assign", n, Unit, <<e>>)
Let(n, t, e) == N("let", n, t, <<e>>)
LetInit(n, t, i, e) == N("let", n, t, <<i, e>>)
CallOf(e, m, args)  == N("call", m, Unit, <<e>> \o args)

Leaves == {Literal(Int32), Literal(Bool), Literal(Unit), E("self", <<>>),
           New(A), New(B), New(Missing), Variable(x), Variable(p), Variable(z)}

Few == {Literal(Bool), New(A), New(B), Variable(x), Variable(p)}

One ==
  {E("if", <<g, a>>) : g \in {Literal(Bool), Variable(x)}, a \in Few}
    \cup {E("if", <<Literal(Bool), a, b>>) : a \in Leaves, b \in Leaves}
    \cup {Assign(n, e) : n \in {x, p, z}, e \in Leaves}
    \cup {Let(n, t, e) : n \in {x, z}, t \in {Int32, B, Missing}, e \in Leaves}
    \cup {LetInit(n, t, i, e) : n \in {x, z}, t \in {Int32, A, Missing},
                               i \in Leaves, e \in {Variable(x), Variable(z)}}
    \cup {E("while", <<g, a>>) : g \in Few, a \in {Variable(z)}}
    \cup {E(op, <<e>>) : op \in {"not", "minus", "isnull"}, e \in Leaves}
    \cup {E(op, <<a, b>>) : op \in {"arithmetic", "comparison", "and", "equal"},
                           a \in Few, b \in Leaves}
    \cup {CallOf(e, m, args) : e \in Leaves, m \in {get, none},
            args \in {<<>>} \cup {<<a>> : a \in Leaves}
                              \cup {<<a, b>> : a \in Few, b \in Few}}

(* Expressions that bind, use, assign or fail, in places of one another.   *)
Some == {Let(x, B, Variable(x)), Let(z, Int32, Assign(z, Variable(x))),
         LetInit(x, A, Variable(p), Assign(x, New(B))), Assign(z, Variable(x)),
         Assign(x, Literal(Int32)), Variable(x), Variable(z),
         CallOf(Variable(p), get, <<New(B)>>),
         E("block", <<Assign(p, New(B)), Variable(p)>>)}

Two ==
  {E("block", <<>>)}
    \cup {E("block", <<a, b>>) : a \in Some, b \in Some}
    \cup {E("if", <<Literal(Bool), a, b>>) : a \in Some, b \in Some}
    \cup {LetInit(n, B, a, b) : n \in {x, z}, a \in Some, b \in Some}
    \cup {CallOf(a, get, <<b>>) : a \in Some, b \in Some}
    \cup {E("arithmetic", <<a, b>>) : a \in Some, b \in Some}
    \cup {Assign(x, E("while", <<a, b>>)) : a \in Some, b \in Some}

Formal(n, t) == [name |-> n, type |-> t]

MethodNode(n, formals, t, body) ==
  [op |-> "method", name |-> n, type |-> t, formals |-> formals, kids |-> <<body>>]

ClassA == N("class", A, Object,
            <<N("field", x, Int32, <<>>),
              MethodNode(get, <<Formal(p, A)>>, Int32, E("block", <<Variable(x)>>))>>)

Tree(members) == E("program", <<ClassA, N("class", B, A, members)>>)

TestMethod(formals, t, e) == MethodNode(test, formals, t, E("block", <<e>>))

(* A method whose head is malformed: MethodNode::makeDummy.                *)
Dummy == MethodNode(test, <<Formal(none, Undefined)>>, Undefined, E("block", <<>>))

Hiding == N("field", x, A, <<>>)

(* Expressions in the method; formals and results that are wrong; fields   *)
(* with an initializer, and one that hides another; a method that          *)
(* overrides one of another signature.                                     *)
MCTrees ==
  {Tree(<<TestMethod(<<Formal(p, B)>>, t, e)>>) : t \in {Int32, A}, e \in One \cup Two}
    \cup {Tree(<<TestMethod(formals, t, e)>>) :
            formals \in {<<>>, <<Formal(x, A)>>, <<Formal(p, Missing)>>,
                        <<Formal(p, B), Formal(p, Int32)>>},
            t \in {Int32, Missing}, e \in Leaves \cup Some}
    \cup {Tree(<<N("field", n, t, <<e>>)>>) :
            n \in {x, z}, t \in {Int32, A, Missing}, e \in Leaves \cup Some}
    \cup {Tree(<<Hiding, TestMethod(<<Formal(p, B)>>, A, e)>>) : e \in Leaves \cup Some}
    \cup {Tree(<<MethodNode(get, <<Formal(p, Int32)>>, Bool, CallOf(e, get, <<a>>))>>) :
            e \in Leaves, a \in Few}
    \cup {Tree(<<TestMethod(<<>>, A, CallOf(e, print, <<a>>))>>) :
            e \in {New(B), Literal(Int32)}, a \in {Literal(String)} \cup Few}
    \cup {Tree(<<N("field", z, Undefined, kids), TestMethod(<<>>, A, e)>>) :
            kids \in {<<>>, <<Variable(x)>>}, e \in {Variable(z), Assign(z, New(A))}}
    \cup {Tree(<<Dummy>>)}

RECURSIVE MCNodesOf(_)
MCNodesOf(e) == {e} \cup UNION {MCNodesOf(e.kids[i]) : i \in DOMAIN e.kids}

(* One of Object's methods, inherited by every class.                      *)
MCBuiltins == <<[name |-> print, formals |-> <<String>>, ret |-> Object]>>
NoPrograms == {}

(* A visit may stop at the end of the tree, and nowhere else: a step that  *)
(* no visit could follow would be a deadlock.                              *)
Returned == Done /\ UNCHANGED vars
MCSpec == Init /\ [][Next \/ Returned]_vars
=============================================================================

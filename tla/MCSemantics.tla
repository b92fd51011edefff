---------------------------- MODULE MCSemantics ----------------------------
(* Small sets of programs for the checks of the class table.               *)
EXTENDS Semantics

CONSTANTS A, B, C, Unknown, f, Unit

MCClassName  == {Object, Main, A, B, C, Unknown}
MCMethodName == {main}
MCFieldName  == {f}
MCType       == {Int32, Unit}
MCBuiltins   == <<>>

MainWith(formals, ret) == [name |-> main, formals |-> formals, ret |-> ret]

GoodMain == MainWith(<<>>, Int32)

Class(c, p, fields, methods) ==
  [name |-> c, parent |-> p, fields |-> fields, methods |-> methods]

(* Every way three classes can extend each other, Main, Object or a class  *)
(* that does not exist, with Main itself in or out of their hierarchy.     *)
Hierarchies ==
  {<<Class(Main, p[Main], <<>>, <<GoodMain>>), Class(A, p[A], <<>>, <<>>),
     Class(B, p[B], <<>>, <<>>), Class(C, p[C], <<>>, <<>>)>> :
     p \in {q \in [{Main, A, B, C} -> MCClassName] : q[Main] \in {Object, A}}}

(* Sources of up to two classes, with repeated names, Object redefined,    *)
(* members repeated and every way to get Main and main wrong.              *)
FieldLists  == {<<>>, <<[name |-> f, type |-> Int32], [name |-> f, type |-> Unit]>>}
MethodLists == {<<>>, <<GoodMain>>, <<MainWith(<<Unit>>, Int32)>>,
                <<MainWith(<<>>, Unit)>>, <<GoodMain, MainWith(<<>>, Unit)>>,
                <<MainWith(<<>>, Unit), GoodMain>>}

Classes == {Class(c, p, fs, ms) : c \in {Object, Main, A},
                                  p \in {Object, Main, A, Unknown},
                                  fs \in FieldLists, ms \in MethodLists}

Sources == {<<>>} \cup {<<c>> : c \in Classes} \cup (Classes \X Classes)

MCPrograms == Hierarchies \cup Sources
=============================================================================

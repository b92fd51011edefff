----------------------------- MODULE MCAnalysis -----------------------------
(* Small hierarchies whose members are inherited, overridden and missing.  *)
EXTENDS Analysis

CONSTANTS A, B, C, Unknown, size, move, print

MCClassName  == {Object, Main, A, B, C, Unknown}
MCMethodName == {main, move, print}
MCFieldName  == {size}
MCType       == {Int32}

Methods(names) == [i \in DOMAIN names |->
                     [name |-> names[i], formals |-> <<>>, ret |-> Int32]]
Fields(names)  == [i \in DOMAIN names |-> [name |-> names[i], type |-> Int32]]

MCBuiltins == Methods(<<print>>)

Class(c, p, fields, methods) ==
  [name |-> c, parent |-> p,
   fields |-> Fields(fields), methods |-> Methods(methods)]

(* Every way three classes can extend each other, Object or a class that   *)
(* does not exist; size is declared twice on some chains, move and print   *)
(* are overridden.                                                         *)
Hierarchies ==
  {<<Class(Main, A, <<>>, <<main>>), Class(A, p[A], <<size>>, <<move>>),
     Class(B, p[B], <<>>, <<print>>), Class(C, p[C], <<size>>, <<move>>)>> :
     p \in [{A, B, C} -> {Object, A, B, C, Unknown}]}
=============================================================================

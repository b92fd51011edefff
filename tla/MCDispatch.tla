----------------------------- MODULE MCDispatch -----------------------------
(* Small hierarchies of classes with methods to inherit and override.      *)
EXTENDS Dispatch

CONSTANTS A, B, C, size, link, move, print, printInt32, String

MCClassName  == {Object, Main, A, B, C}
MCFieldName  == {size, link}
MCMethodName == {main, move, print, printInt32}
MCType       == {Int32, String} \cup MCClassName

OneMethod(n, formals, ret) == [name |-> n, formals |-> formals, ret |-> ret]

MCBuiltins == <<OneMethod(print, <<String>>, Object),
                OneMethod(printInt32, <<Int32>>, Object)>>

(* move, of one type or another; an override of printInt32; both.          *)
M1 == OneMethod(move, <<C>>, Main)
M2 == OneMethod(move, <<Int32>>, Int32)
P  == OneMethod(printInt32, <<Int32>>, Object)

MethodLists == {<<>>, <<M1>>, <<M2>>, <<P>>, <<P, M1>>}

Class(c, p, fields, methods) ==
  [name |-> c, parent |-> p, fields |-> fields, methods |-> methods]

Size(t) == [name |-> size, type |-> t]
Link(t) == [name |-> link, type |-> t]

(* The classes in one order, with every hierarchy: what comes before what  *)
(* takes every possible order.  The fields are of classes declared before  *)
(* and after, and hide one another.                                        *)
Source(p, ms) ==
  <<Class(A, p[A], <<Size(C)>>, ms[A]),
    Class(Main, Object, <<>>, <<OneMethod(main, <<>>, Int32)>>),
    Class(B, p[B], <<Link(A)>>, ms[B]),
    Class(C, p[C], <<Size(Int32), Link(Main)>>, ms[C])>>

Parents == [{A, B, C} -> {Object, A, B, C}]

AllPrograms == {Source(p, ms) : p \in Parents, ms \in [{A, B, C} -> MethodLists]}

=============================================================================

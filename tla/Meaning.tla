------------------------------ MODULE Meaning -------------------------------
(***************************************************************************)
(* What the manual says of the expressions, against what the code that is  *)
(* made from them does when it is run.                                     *)
(***************************************************************************)
EXTENDS Execution

(* The manual's evaluation of an expression that has a value: from what    *)
(* happened before it to what has after it, its value included.            *)
Power(b, n) == IF n <= 0 THEN 1 ELSE Wrap(b ^ n)

RECURSIVE Evaluated(_, _)
Evaluated(node, before) ==
  LET after[k \in 0 .. Len(node.kids)] ==
        IF k = 0 THEN before ELSE Evaluated(node.kids[k], after[k - 1])
      all == after[Len(node.kids)]
      v(k) == after[k].value
      Is(value) == [all EXCEPT !.value = value]
  IN CASE node.op \in {"IntegerLiteralExpr", "BoolLiteralExpr"} -> Is(node.value)
       [] node.op = "StringLiteralExpr" -> Is(StringMeant(node.value))
       [] node.op = "SelfExpr"   -> Is(0)
       [] node.op = "BlockExpr"  -> all
       [] node.op = "NewExpr"    -> [all EXCEPT !.value = all.objects + 1, !.objects = @ + 1]
       [] node.op = "Plus"       -> Is(Wrap(v(1) + v(2)))
       [] node.op = "Minus"      -> Is(Wrap(v(1) - v(2)))
       [] node.op = "Times"      -> Is(Wrap(v(1) * v(2)))
       [] node.op = "Divide"     -> Is(Quotient(v(1), v(2)))
       [] node.op = "Power"      -> Is(Power(v(1), v(2)))
       [] node.op = "Lower"      -> Is(v(1) < v(2))
       [] node.op = "LowerEqual" -> Is(v(1) <= v(2))
       [] node.op = "Equal"      -> Is(v(1) = v(2))
       [] node.op = "And"        -> IF v(1) THEN all ELSE after[1]
       [] node.op = "CallExpr"   ->
            [all EXCEPT !.value = v(Len(node.kids)),
                        !.calls = Append(@, [to |-> node.name,
                                             with |-> [k \in DOMAIN node.kids |-> v(k)]])]

Evaluation == Evaluated(method.kids[1], [value |-> 0, calls |-> <<>>, objects |-> 0])

ReturnsTheMeaning ==
  /\ calls = Evaluation.calls
  /\ objects = Evaluation.objects
  /\ method.type # Unit => result = Evaluation.value

-----------------------------------------------------------------------------
(* What the properties have to except.                                     *)
StringsUncompared == \A node \in Having({"Equal"}) : node.kids[1].type # String

RECURSIVE Within(_)
Within(node) == {node} \cup UNION {Within(kid) : kid \in Range(node.kids)}

(* Nothing that can be seen happens in an operand that may be skipped.     *)
AndsQuiet == \A node \in Having({"And"}) :
  \A inner \in Within(node.kids[2]) : inner.op \notin {"CallExpr", "NewExpr", "Divide"}

(* What it returns is what the manual says, modulo 2^32, and so are the    *)
(* calls it makes, their order and arguments, strings through the scanner  *)
(* and decode included; a power with a negative exponent is 1.             *)
ReturnedIsMeant ==
  outcome = "returned" /\ NothingMissing /\ StringsUncompared /\ AndsQuiet => ReturnsTheMeaning

-----------------------------------------------------------------------------
(* What the manual says of the code: and is short-circuiting.              *)
AndShortCircuits ==
  outcome = "returned" /\ NothingMissing /\ StringsUncompared => ReturnsTheMeaning

(* What it says too: the equality comparison returns true if values of a   *)
(* primitive type are the same; strings are compared by their addresses.   *)
StringsAreCompared ==
  outcome = "returned" /\ NothingMissing /\ AndsQuiet => ReturnsTheMeaning
=============================================================================

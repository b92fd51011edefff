----------------------------- MODULE Execution ------------------------------
(***************************************************************************)
(* The emitted method checked by LLVM and run (both external).             *)
(***************************************************************************)
EXTENDS Emission

CONSTANT Half            (* integers are those from -Half to Half - 1        *)

ASSUME HalfAssumption == Half \in Nat \ {0}

VARIABLES
  at,          (* the next instruction: its block and place                  *)
  previous,    (* the block before this one                                  *)
  registers,   (* what instructions have computed                            *)
  calls,       (* the calls made: their callees and arguments                *)
  objects,     (* how many objects were made; the method's own is 0          *)
  result       (* what the method returned                                   *)

runVars == <<at, previous, registers, calls, objects, result>>
executionVars == <<emissionVars, runVars>>

-----------------------------------------------------------------------------
(* What LLVM requires of a function: blocks end where they branch, phis    *)
(* have one value for each block they are entered from, operands are       *)
(* there and of the right type, and only what returns something is named.  *)
Successors(b) == LET ins == Last(blocks[b])
                 IN IF ins.op \in {"br", "condbr"} THEN Range(ins.via) ELSE {}
Entering(b) == {c \in DOMAIN blocks : b \in Successors(c)}

(* Every way from the first block to c goes through b.                     *)
Dominates(b, c) ==
  LET without[n \in 0 .. Len(blocks)] ==
        IF n = 0 THEN {1} \ {b}
        ELSE without[n - 1] \cup ((UNION {Successors(d) : d \in without[n - 1]}) \ {b})
  IN b = c \/ c \notin without[Len(blocks)]

Reaches(value, b, i) ==
  CASE value.is = "computed" -> IF value.of[1] = b THEN value.of[2] < i
                                ELSE Dominates(value.of[1], b)
    [] value.is = "null"     -> FALSE
    [] OTHER                 -> TRUE

Types(ins) == [k \in DOMAIN ins.args |-> ins.args[k].type]
TypesFit(ins, returned) ==
  CASE ins.op \in {"add", "sub", "mul", "sdiv", "slt", "sle", "sgt"} -> Types(ins) = <<Int32, Int32>>
    [] ins.op = "and"    -> Types(ins) = <<Bool, Bool>>
    [] ins.op = "eq"     -> ins.args[1].type = ins.args[2].type
    [] ins.op = "condbr" -> Types(ins) = <<Bool>>
    [] ins.op = "phi"    -> Range(Types(ins)) = {ins.type}
    [] ins.op = "call"   -> ins.type # Unit /\ Tail(Types(ins)) = Signatures[ins.via].formals
    [] ins.op = "ret"    -> returned # Unit => Types(ins) = <<returned>>
    [] OTHER             -> TRUE

WellFormed ==
  \A b \in DOMAIN blocks : \A i \in DOMAIN blocks[b] :
    LET ins == blocks[b][i]
    IN /\ i = Len(blocks[b]) <=> ins.op \in {"br", "condbr", "ret"}
       /\ TypesFit(ins, method.type)
       /\ IF ins.op = "phi"
          THEN /\ Range(ins.via) = Entering(b)
               /\ \A k \in DOMAIN ins.args :
                    Reaches(ins.args[k], ins.via[k], Len(blocks[ins.via[k]]) + 1)
          ELSE \A k \in DOMAIN ins.args : Reaches(ins.args[k], b, i)

-----------------------------------------------------------------------------
Wrap(n) == ((n + Half) % (2 * Half)) - Half
Abs(n) == IF n < 0 THEN -n ELSE n
Quotient(a, b) == IF (a < 0) = (b < 0) THEN Abs(a) \div Abs(b) ELSE -(Abs(a) \div Abs(b))

Current == blocks[at[1]][at[2]]
Running(ops) == outcome = "running" /\ Current.op \in ops

ValueOf(value) == CASE value.is = "constant" -> value.of
                    [] value.is = "self"     -> 0
                    [] value.is = "computed" -> registers[value.of]
Operand(k) == ValueOf(Current.args[k])

(* A string is a pointer to a global; what counts is what is there.        *)
Seen(value, type) == IF type = String THEN globals[value] ELSE value

Store(v) == /\ registers' = at :> v @@ registers
            /\ at' = <<at[1], at[2] + 1>>
            /\ UNCHANGED <<emissionVars, previous, result>>

Jump(b) == /\ at' = <<b, 1>> /\ previous' = at[1]
           /\ UNCHANGED <<emissionVars, registers, calls, objects, result>>

ExecutionInit ==
  /\ EmissionInit
  /\ at = <<1, 1>> /\ previous = 0 /\ registers = <<>>
  /\ calls = <<>> /\ objects = 0 /\ result = 0

Verify == /\ outcome = "emitted"
          /\ outcome' = IF WellFormed THEN "running" ELSE "rejected"
          /\ UNCHANGED <<method, visits, blocks, block, globals, runVars>>

Undefined == Current.op = "sdiv" /\ (Operand(2) = 0 \/ (Operand(1) = -Half /\ Operand(2) = -1))

Compute ==
  /\ Running({"add", "sub", "mul", "sdiv", "and", "slt", "sle", "sgt", "eq"}) /\ ~ Undefined
  /\ Store(CASE Current.op = "add"  -> Wrap(Operand(1) + Operand(2))
             [] Current.op = "sub"  -> Wrap(Operand(1) - Operand(2))
             [] Current.op = "mul"  -> Wrap(Operand(1) * Operand(2))
             [] Current.op = "sdiv" -> Quotient(Operand(1), Operand(2))
             [] Current.op = "and"  -> Operand(1) /\ Operand(2)
             [] Current.op = "slt"  -> Operand(1) < Operand(2)
             [] Current.op = "sle"  -> Operand(1) <= Operand(2)
             [] Current.op = "sgt"  -> Operand(1) > Operand(2)
             [] Current.op = "eq"   -> Operand(1) = Operand(2))
  /\ UNCHANGED <<calls, objects>>

Divide == /\ Running({"sdiv"}) /\ Undefined
          /\ outcome' = "undefined"
          /\ UNCHANGED <<method, visits, blocks, block, globals, runVars>>

Choose == /\ Running({"phi"})
          /\ \E k \in DOMAIN Current.via : Current.via[k] = previous /\ Store(Operand(k))
          /\ UNCHANGED <<calls, objects>>

Make == Running({"new"}) /\ Store(objects + 1) /\ objects' = objects + 1 /\ UNCHANGED calls

(* The callees return the last they are given, their object if that's all. *)
Call == /\ Running({"call"})
        /\ Store(Operand(Len(Current.args)))
        /\ calls' = Append(calls, [to |-> Current.via[2],
                                   with |-> [k \in DOMAIN Current.args |->
                                               Seen(Operand(k), Current.args[k].type)]])
        /\ UNCHANGED objects

Branch == /\ Running({"br", "condbr"})
          /\ Jump(IF Current.op = "condbr" /\ ~ Operand(1) THEN Current.via[2] ELSE Current.via[1])

Return == /\ Running({"ret"})
          /\ result' = IF method.type = Unit THEN 0 ELSE Seen(Operand(1), method.type)
          /\ outcome' = "returned"
          /\ UNCHANGED <<method, visits, blocks, block, globals,
                         at, previous, registers, calls, objects>>

ExecutionNext ==
  \/ EmissionNext /\ UNCHANGED runVars
  \/ Verify \/ Compute \/ Divide \/ Choose \/ Make \/ Call \/ Branch \/ Return

ExecutionSpec ==
  ExecutionInit /\ [][ExecutionNext]_executionVars /\ WF_executionVars(ExecutionNext)

-----------------------------------------------------------------------------
(* What the properties have to except.                                     *)
Having(ops) == {node \in method.nodes : node.op \in ops}

NothingMissing == Having(Stubs) = {} /\ \A node \in Having({"BlockExpr"}) : node.kids # <<>>
UnitsUnused == \A node \in Having({"CallExpr"}) : Signatures[Callee(node)].ret # Unit
TypesExact ==
  /\ \A node \in Having({"CallExpr"}) : \A k \in 2 .. Len(node.kids) :
       node.kids[k].type = Signatures[Callee(node)].formals[k - 1]
  /\ \A node \in Having({"Equal"}) : node.kids[1].type = node.kids[2].type
  /\ method.type \in {Unit, method.kids[1].type}

(* A method of the expressions that are written is compiled, if its types  *)
(* are exact and it calls no method that returns unit: however powers are  *)
(* nested, which splits the blocks their operands and phis are in, and     *)
(* wherever calls stand in them, the code is what LLVM accepts.            *)
WrittenIsCompiled ==
  NothingMissing /\ UnitsUnused /\ TypesExact => outcome \notin {"crashed", "rejected"}

(* The code of a method comes to its end: no exponent keeps the loop of a  *)
(* power going, whatever its integers wrap to.                             *)
RunEnds == <>(outcome \in {"crashed", "rejected", "undefined", "returned"})

-----------------------------------------------------------------------------
(* What the manual says of the code, and is not so.  The child class can   *)
(* be used in any place where the parent can: as an argument, as a result, *)
(* beside the parent in a comparison.                                      *)
ChildrenServe == NothingMissing /\ UnitsUnused => outcome \notin {"crashed", "rejected"}

(* Methods that return unit can be called.                                 *)
UnitsAreReturned == NothingMissing /\ TypesExact => outcome \notin {"crashed", "rejected"}

(* A block may be empty, and is unit then.                                 *)
EmptyBlocksAreUnits ==
  Having(Stubs) = {} /\ UnitsUnused /\ TypesExact => outcome \notin {"crashed", "rejected"}
=============================================================================

------------------------------ MODULE Emission ------------------------------
(***************************************************************************)
(* The CodeGenVisitor and emit_method: the LLVM code of one method.  An    *)
(* action is the end of one visit function, or its call of accept for the  *)
(* next child.  Formals are bound but not read yet: variables are among    *)
(* the visits that are still to be written.  The loads that find a callee  *)
(* in its vtable are part of Dispatch.                                     *)
(***************************************************************************)
EXTENDS Literals

CONSTANTS
  Bodies,      (* the methods: the class, the result's type, the body as     *)
               (* only child, and all the nodes of its tree                  *)
  Signatures   (* the formals' and the result's types of <<class, method>>   *)

VARIABLES
  method,      (* the method whose code is emitted                           *)
  visits,      (* the visits under way: nodes and what children returned     *)
  blocks,      (* the basic blocks: sequences of instructions                *)
  block,       (* the builder's insertion point: the end of this one         *)
  globals,     (* the strings                                                *)
  outcome      (* "emitting", ...                                            *)

emissionVars == <<method, visits, blocks, block, globals, outcome>>

Int32 == "int32"
Bool == "bool"
String == "string"
Unit == "unit"

Arithmetic == [Plus |-> "add", Minus |-> "sub", Times |-> "mul", Divide |-> "sdiv"]
Comparison == [Lower |-> "slt", LowerEqual |-> "sle"]

(* Visits that return a null pointer and look at nothing.                  *)
Stubs == {"UnitLiteralExpr", "IfExpr", "AssignExpr", "UnOpExpr", "VariableExpr",
          "LetExpr", "WhileExpr"}

-----------------------------------------------------------------------------
(* The types that TypesVisitor sets and accepts, of literals, operations   *)
(* and calls; and the trees of methods, with the methods as roots.         *)
KidTypes(node) == [k \in DOMAIN node.kids |-> node.kids[k].type]
Callee(node) == <<node.kids[1].type, node.name>>

FitsCall(node, signature) == /\ signature.formals \in Seq(Range(signature.formals))
                             /\ Len(node.kids) = Len(signature.formals) + 1
                             /\ node.type = signature.ret

WellTyped(node, class) ==
  CASE node.op = "IntegerLiteralExpr" -> node.type = Int32
    [] node.op = "BoolLiteralExpr"    -> node.type = Bool
    [] node.op = "StringLiteralExpr"  -> node.type = String
    [] node.op = "SelfExpr"           -> node.type = class
    [] node.op = "NewExpr"            -> node.type # Unit
    [] node.op = "BlockExpr"          -> node.kids # <<>> => node.type = Last(node.kids).type
    [] node.op \in DOMAIN Arithmetic \cup {"Power"} ->
         node.type = Int32 /\ KidTypes(node) = <<Int32, Int32>>
    [] node.op \in DOMAIN Comparison  -> node.type = Bool /\ KidTypes(node) = <<Int32, Int32>>
    [] node.op = "And"                -> node.type = Bool /\ KidTypes(node) = <<Bool, Bool>>
    [] node.op = "Equal"              -> node.type = Bool /\ Len(node.kids) = 2
    [] node.op = "CallExpr"           -> FitsCall(node, Signatures[Callee(node)])
    [] OTHER                          -> node.op \in Stubs

TypedTree(m) ==
  /\ m.op = "MethodNode" /\ m.class # Unit
  /\ m.kids \in Seq(m.nodes) /\ Len(m.kids) = 1
  /\ \A node \in m.nodes : node.kids \in Seq(m.nodes) /\ WellTyped(node, m.class)

ASSUME BodiesAssumption == \A m \in Bodies : TypedTree(m)

(* LLVM values: constants, the function's own object, and what an          *)
(* instruction, known by its block and place, has computed.                *)
Value(is, type, of) == [is |-> is, type |-> type, of |-> of]
Const(type, v) == Value("constant", type, v)
Computed(type, b, i) == Value("computed", type, <<b, i>>)
Null == Value("null", Unit, 0)

(* Instructions: what phis and calls need besides is in via.               *)
Instruction(op, type, args, via) == [op |-> op, type |-> type, args |-> args, via |-> via]
Br(to) == Instruction("br", Unit, <<>>, <<to>>)
CondBr(cond, to, else) == Instruction("condbr", Unit, <<cond>>, <<to, else>>)
Phi(type, args, from) == Instruction("phi", type, args, from)

Visit(node) == [node |-> node, returned |-> <<>>]

Node == Last(visits).node
Args == Last(visits).returned

(* Children come first, in their order, but stubs look at none.            *)
Complete == Node.op \in Stubs \/ Len(Args) = Len(Node.kids)

Visiting(ops) == outcome = "emitting" /\ Node.op \in ops /\ Complete

Given(stack, value) ==
  [Front(stack) EXCEPT ![Len(stack) - 1].returned = Append(@, value)]

Give(value) == visits' = Given(visits, value)

GiveOnly(value) == Give(value) /\ UNCHANGED <<method, blocks, block, globals, outcome>>

Insert(op, type, args, via) ==
  /\ blocks' = [blocks EXCEPT ![block] = Append(@, Instruction(op, type, args, via))]
  /\ Give(Computed(type, block, Len(blocks[block]) + 1))
  /\ UNCHANGED <<method, block, globals, outcome>>

(* The builder is given a null pointer, or asked for a null of type void:  *)
(* no program comes of it.                                                 *)
Crash == outcome' = "crashed" /\ UNCHANGED <<method, visits, blocks, block, globals>>

-----------------------------------------------------------------------------
EmissionInit == /\ method \in Bodies
                /\ visits = << Visit(method) >>
                /\ blocks = << <<>> >> /\ block = 1
                /\ globals = <<>> /\ outcome = "emitting"

Accept == /\ outcome = "emitting" /\ ~ Complete
          /\ visits' = Append(visits, Visit(Node.kids[Len(Args) + 1]))
          /\ UNCHANGED <<method, blocks, block, globals, outcome>>

VisitLiteral == /\ Visiting({"IntegerLiteralExpr", "BoolLiteralExpr"})
                /\ GiveOnly(Const(Node.type, Node.value))

VisitString == /\ Visiting({"StringLiteralExpr"})
               /\ globals' = Append(globals, Decode(TokenOf(Node.value)))
               /\ Give(Const(String, Len(globals) + 1))
               /\ UNCHANGED <<method, blocks, block, outcome>>

VisitSelf == Visiting({"SelfExpr"}) /\ GiveOnly(Value("self", method.class, 0))

VisitStub == Visiting(Stubs) /\ GiveOnly(Null)

VisitBlock == /\ Visiting({"BlockExpr"})
              /\ IF Node.kids = <<>> THEN Crash ELSE GiveOnly(Last(Args))

VisitNew == Visiting({"NewExpr"}) /\ Insert("new", Node.type, <<>>, <<>>)

(* The binary operations that are one instruction.                         *)
VisitBinary ==
  /\ Visiting(DOMAIN Arithmetic \cup DOMAIN Comparison \cup {"And"})
  /\ IF Null \in Range(Args) THEN Crash
     ELSE Insert(CASE Node.op \in DOMAIN Arithmetic -> Arithmetic[Node.op]
                   [] Node.op \in DOMAIN Comparison -> Comparison[Node.op]
                   [] Node.op = "And"               -> "and",
                 Node.type, Args, <<>>)

(* Units have no comparison, and an error nobody counts.                   *)
VisitEqual ==
  /\ Visiting({"Equal"})
  /\ IF Node.kids[1].type = Unit THEN GiveOnly(Null)
     ELSE IF Null \in Range(Args) THEN Crash
     ELSE Insert("eq", Bool, Args, <<>>)

(* A power is a loop in blocks of its own: the result so far and what is   *)
(* left of the exponent, each from init or from the turn before.           *)
One == Const(Int32, 1)

PowCond(init, cond, expo) ==
  LET body == cond + 1
  IN << Phi(Int32, <<One, Computed(Int32, body, 1)>>, <<init, body>>),
        Phi(Int32, <<expo, Computed(Int32, body, 2)>>, <<init, body>>),
        Instruction("sgt", Bool, <<Computed(Int32, cond, 2), Const(Int32, 0)>>, <<>>),
        CondBr(Computed(Bool, cond, 3), body, cond + 2) >>

PowBody(cond, base, decrement) ==
  << Instruction("mul", Int32, <<Computed(Int32, cond, 1), base>>, <<>>),
     Instruction("sub", Int32, <<Computed(Int32, cond, 2), Const(Int32, decrement)>>, <<>>),
     Br(cond) >>

PowerFrom(init, decrement) ==
  LET cond == Len(blocks) + 1
  IN /\ blocks' = [blocks EXCEPT ![block] = Append(@, Br(cond))] \o
                    << PowCond(init, cond, Args[2]), PowBody(cond, Args[1], decrement), <<>> >>
     /\ block' = cond + 2
     /\ Give(Computed(Int32, cond, 1))
     /\ UNCHANGED <<method, globals, outcome>>

(* Slips: the loop is taken to be entered from the function's first block; *)
(* its exponent does not go down.                                          *)
VisitPowerFirst == /\ Visiting({"Power"})
                   /\ IF Null \in Range(Args) THEN Crash ELSE PowerFrom(1, 1)
VisitPowerForever == /\ Visiting({"Power"})
                     /\ IF Null \in Range(Args) THEN Crash ELSE PowerFrom(block, 0)

VisitPower == /\ Visiting({"Power"})
              /\ IF Null \in Range(Args) THEN Crash ELSE PowerFrom(block, 1)

(* The receiver comes first; only it is cast to what the callee expects.   *)
VisitCall ==
  /\ Visiting({"CallExpr"})
  /\ IF Null \in Range(Args) THEN Crash
     ELSE Insert("call", Signatures[Callee(Node)].ret, Args, Callee(Node))

(* emit_method, after the body.                                            *)
EmitReturn ==
  /\ Visiting({"MethodNode"})
  /\ LET args == IF method.type = Unit THEN <<>> ELSE Args
     IN blocks' = [blocks EXCEPT ![block] = Append(@, Instruction("ret", Unit, args, <<>>))]
  /\ outcome' = "emitted"
  /\ UNCHANGED <<method, visits, block, globals>>

EmissionNext == \/ Accept
                \/ VisitLiteral \/ VisitString \/ VisitSelf \/ VisitStub \/ VisitBlock
                \/ VisitNew \/ VisitBinary \/ VisitEqual \/ VisitPower \/ VisitCall
                \/ EmitReturn
=============================================================================

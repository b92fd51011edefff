--------------------------- MODULE Output_proofs ----------------------------
(***************************************************************************)
(* What comes of the compiler.  The driver ends as it should whatever      *)
(* number of diagnostics the passes report; and the code that is emitted   *)
(* for a method is code, whatever its tree.                                *)
(***************************************************************************)
EXTENDS Driver, Execution, Induction, TLAPS

-----------------------------------------------------------------------------
(* The driver's properties are about the end of the pipeline; the          *)
(* invariant says what each of its stages has done so far.                 *)

(* The actions that lead to the later stages.                              *)
Routes == /\ pc = "print" => action \in {"PARSE", "ANALYZE"}
          /\ pc \in {"generate", "emit"} => action \in {"GENERATE", "NATIVE"}
          /\ pc = "analyze" => action \notin {"LEX", "PARSE"}

(* Nothing is printed or decided before the end.                           *)
Pending ==
  /\ pc \notin {"emit", "done"} => output = "nothing"
  /\ pc # "done" => shown = 0 /\ exit = 0
  /\ pc = "scan" => errors = 0 /\ warnings = 0 /\ root = "none"

(* Past the analysis there is a tree; once code is generated, no error.    *)
Passed == /\ pc \in {"generate", "emit"} => root # "none"
          /\ pc = "emit" => errors = 0 /\ output = "code"

IInv == /\ TypeOK /\ Routes /\ Pending /\ Passed
        /\ DiagnosticsAreShown /\ SuccessMeansOutput /\ CodeIsFromAccepted

(* The compiler starts with nothing counted and nothing printed.           *)
LEMMA StartsWell == Init => IInv
BY CountsAssumption
   DEF Init, IInv, TypeOK, Routes, Pending, Passed, DiagnosticsAreShown,
       SuccessMeansOutput, CodeIsFromAccepted, Actions, Outputs, HasError, Parses

(* What the end of parse and analyze prints and returns.                   *)
LEMMA PrintEnds ==
  ASSUME errors \in Nat, warnings \in Nat, action \in {"PARSE", "ANALYZE"}, PrintTree
  PROVE  /\ exit' \in {0, 1} /\ output' \in {"nothing", "tree", "typed tree"}
         /\ shown' \in Nat
         /\ shown' = errors + warnings /\ (HasError => exit' = 1)
         /\ exit' = 0 /\ root # "none" => output' = Asked[action]
<1>1. CASE HasError
  <2>1. shown' = errors + warnings /\ output' = "nothing" /\ exit' = 1
    BY <1>1 DEF PrintTree, Stop
  <2>2. shown' \in Nat
    BY <2>1
  <2> QED BY <2>1, <2>2
<1>2. CASE ~ HasError
  <2>1. shown' = 0 /\ exit' = 0
    BY <1>2 DEF PrintTree, Stop
  <2>2. errors = 0 /\ warnings = 0
    BY <1>2 DEF HasError
  <2>3. output' = IF root = "none" THEN "nothing"
                  ELSE IF action = "PARSE" THEN "tree" ELSE "typed tree"
    BY <1>2 DEF PrintTree
  <2>4. Asked["PARSE"] = "tree" /\ Asked["ANALYZE"] = "typed tree"
    BY DEF Asked
  <2>5. root # "none" => output' = Asked[action]
    <3>1. CASE action = "PARSE"
      BY <2>3, <2>4, <3>1
    <3>2. CASE action = "ANALYZE"
      BY <2>3, <2>4, <3>2
    <3> QED BY <3>1, <3>2
  <2>6. output' \in {"nothing", "tree", "typed tree"}
    BY <2>3
  <2>7. shown' = errors + warnings
    BY <2>1, <2>2
  <2>8. shown' \in Nat
    BY <2>1
  <2> QED BY <1>2, <2>1, <2>5, <2>6, <2>7, <2>8
<1> QED BY <1>1, <1>2

(* The step of each pass keeps it.                                         *)
LEMMA StepsAreKept == IInv /\ [Next]_vars => IInv'
<1> SUFFICES ASSUME IInv, [Next]_vars PROVE IInv'
  OBVIOUS
<1> USE CountsAssumption
    DEF IInv, TypeOK, Routes, Pending, Passed, DiagnosticsAreShown,
        SuccessMeansOutput, CodeIsFromAccepted, Actions, Outputs, HasError,
        Asked, Stop, GoOn
<1>1. CASE NoFile
  BY <1>1 DEF NoFile
<1>2. CASE Lex
  BY <1>2 DEF Lex
<1>3. CASE Parse
  <2>1. parse.errors \in Nat /\ parse.warnings \in Nat
        /\ parse.root \in {"none", "partial", "whole"}
    BY DEF Parses
  <2> QED BY <1>3, <2>1 DEF Parse
<1>4. CASE Analyze
  BY <1>4 DEF Analyze
<1>5. CASE AnalyzeNothing
  BY <1>5 DEF AnalyzeNothing
<1>6. CASE PrintTree
  <2>0. pc = "print"
    BY <1>6 DEF PrintTree
  <2>1. /\ exit' \in {0, 1} /\ output' \in {"nothing", "tree", "typed tree"}
        /\ shown' = errors + warnings /\ (HasError => exit' = 1)
        /\ exit' = 0 /\ root # "none" => output' = Asked[action]
    BY <1>6, <2>0, PrintEnds
  <2>2. /\ pc' = "done"
        /\ UNCHANGED <<action, parse, root, errors, warnings>>
    BY <1>6 DEF PrintTree
  <2>3. DiagnosticsAreShown'
    BY <2>1, <2>2
  <2>4. SuccessMeansOutput'
    BY <2>1, <2>2
  <2>5. CodeIsFromAccepted'
    BY <2>1
  <2>6. (Routes /\ Pending /\ Passed)'
    BY <2>2
  <2>7. shown' \in Nat /\ output' \in Outputs
    <3>1. shown' \in Nat
      BY <1>6, <2>0, PrintEnds
    <3>2. output' \in Outputs
      BY <2>1
    <3> QED BY <3>1, <3>2
  <2>8. TypeOK'
    BY <2>1, <2>2, <2>7
  <2> QED BY <2>3, <2>4, <2>5, <2>6, <2>8
<1>7. CASE Reject
  BY <1>7 DEF Reject
<1>8. CASE Generate
  BY <1>8 DEF Generate
<1>9. CASE RejectCode
  BY <1>9 DEF RejectCode
<1>10. CASE PrintIR
  BY <1>10 DEF PrintIR
<1>11. CASE Link
  BY <1>11 DEF Link
<1>12. CASE UNCHANGED vars
  BY <1>12 DEF vars
<1> QED
  BY <1>1, <1>2, <1>3, <1>4, <1>5, <1>6, <1>7, <1>8, <1>9, <1>10, <1>11,
     <1>12 DEF Next

(* The invariant holds of every step.                                      *)
LEMMA Invariance == Spec => []IInv
BY StartsWell, StepsAreKept, PTL DEF Spec

(* The driver's state keeps its shape.                                     *)
THEOREM TypeCorrect == Spec => []TypeOK
<1>1. IInv => TypeOK
  BY DEF IInv
<1> QED BY Invariance, <1>1, PTL

(* Every diagnostic is printed before the end and makes the compiler fail. *)
THEOREM ShownCorrect == Spec => []DiagnosticsAreShown
<1>1. IInv => DiagnosticsAreShown
  BY DEF IInv
<1> QED BY Invariance, <1>1, PTL

(* A success of a parsed file comes with the output that was asked for.    *)
THEOREM SuccessCorrect == Spec => []SuccessMeansOutput
<1>1. IInv => SuccessMeansOutput
  BY DEF IInv
<1> QED BY Invariance, <1>1, PTL

(* Code that leaves the compiler comes from a tree nothing was said about. *)
THEOREM CodeCorrect == Spec => []CodeIsFromAccepted
<1>1. IInv => CodeIsFromAccepted
  BY DEF IInv
<1> QED BY Invariance, <1>1, PTL

-----------------------------------------------------------------------------
(* The code of a method, for every tree of written expressions of exact    *)
(* types.  Blocks come in threes: one of the method's own line, then the   *)
(* condition and the body of a power.                                      *)
IsLine(b) == b % 3 = 1
IsCond(b) == b % 3 = 2
IsBody(b) == b % 3 = 0

(* What trees of a method can put into values and instructions.            *)
TypesIn(m) == {Int32, Bool, String, Unit, m.class} \cup {node.type : node \in m.nodes}
ValuesIn(m) == [is : {"constant", "self", "computed", "null"}, type : TypesIn(m),
                of : Int \cup (Nat \X Nat) \cup {node.value : node \in m.nodes}]
ViasIn(m) == Nat \cup TypesIn(m) \cup {node.name : node \in m.nodes}
OpsIn == {"add", "sub", "mul", "sdiv", "slt", "sle", "sgt", "and", "eq", "new", "call",
          "phi", "br", "condbr", "ret"}
InstructionsIn(m) ==
  [op : OpsIn, type : TypesIn(m), args : Seq(ValuesIn(m)), via : Seq(ViasIn(m))]
StringsIn(m) == {Decode(TokenOf(node.value)) : node \in m.nodes}

(* A value that was computed on the line or in a condition, before place k *)
(* of block b, is there from that place on, and in every later block.      *)
Ready(value, b, k) ==
  /\ value.is # "null"
  /\ value.is = "computed" => /\ value.of \in Nat \X Nat
                              /\ value.of[1] \in 1 .. b /\ ~ IsBody(value.of[1])
                              /\ value.of[1] = b => value.of[2] < k

Usable(value, type, b, k) ==
  value.type = type /\ type # Unit /\ Ready(value, b, k)

(* Instructions within a block, and the one that ends the last.            *)
Fits(ins, type, b, k) ==
  TypesFit(ins, type) /\ \A j \in DOMAIN ins.args : Ready(ins.args[j], b, k)
Inner(ins, type, b, k) == ins.op \notin {"br", "condbr", "ret", "phi"} /\ Fits(ins, type, b, k)
Ending(ins, type, b, k) == ins.op = "ret" /\ Fits(ins, type, b, k)

(* The blocks bs of a method that returns type, done or not.               *)
LineIs(bs, type, b, done) ==
  LET last == Len(bs[b])
  IN /\ b < Len(bs) \/ done => last > 0
     /\ \A k \in 1 .. last :
          IF k < last \/ (b = Len(bs) /\ ~ done) THEN Inner(bs[b][k], type, b, k)
          ELSE IF b < Len(bs) THEN bs[b][k] = Br(b + 1)
          ELSE Ending(bs[b][k], type, b, k)

CondIs(bs, b) ==
  LET expo == bs[b][2].args[1]
  IN /\ b > 1 /\ b + 2 <= Len(bs)
     /\ Usable(expo, Int32, b - 1, Len(bs[b - 1]))
     /\ bs[b] = PowCond(b - 1, b, expo)

BodyIs(bs, b) ==
  LET base == bs[b][1].args[2]
  IN /\ b > 2 /\ b + 1 <= Len(bs)
     /\ Usable(base, Int32, b - 2, Len(bs[b - 2]))
     /\ bs[b] = PowBody(b - 1, base, 1)

BlocksAre(bs, type, done) ==
  /\ Len(bs) % 3 = 1
  /\ \A b \in 1 .. Len(bs) : /\ IsLine(b) => LineIs(bs, type, b, done)
                             /\ IsCond(b) => CondIs(bs, b)
                             /\ IsBody(b) => BodyIs(bs, b)

(* The visits under way lead from the method to a node, and what children  *)
(* have returned can be used at place k of block b.                        *)
VisitsAre(m, stack, b, k) ==
  /\ stack \in Seq([node : {m} \cup m.nodes, returned : Seq(ValuesIn(m))])
  /\ Len(stack) > 0 /\ stack[1].node = m
  /\ \A j \in 2 .. Len(stack) :
       LET before == stack[j - 1]
       IN /\ Len(before.returned) < Len(before.node.kids)
          /\ stack[j].node = before.node.kids[Len(before.returned) + 1]
  /\ \A j \in 1 .. Len(stack) :
       /\ Len(stack[j].returned) <= Len(stack[j].node.kids)
       /\ \A c \in 1 .. Len(stack[j].returned) :
            Usable(stack[j].returned[c], stack[j].node.kids[c].type, b, k)

Exact == NothingMissing /\ UnitsUnused /\ TypesExact

Sound ==
  /\ outcome \in {"emitting", "emitted", "running", "undefined", "returned"}
  /\ outcome \in {"emitting", "emitted"} =>
       /\ blocks \in Seq(Seq(InstructionsIn(method)))
       /\ block = Len(blocks)
       /\ BlocksAre(blocks, method.type, outcome = "emitted")
  /\ outcome = "emitting" =>
       /\ globals \in Seq(StringsIn(method))
       /\ VisitsAre(method, visits, block, Len(blocks[block]) + 1)

CodeInv == method \in Bodies /\ (Exact => Sound)

(* Every third block is of one kind.                                       *)
LEMMA InThrees ==
  ASSUME NEW b \in Nat
  PROVE  /\ IsLine(b) \/ IsCond(b) \/ IsBody(b)
         /\ ~ (IsLine(b) /\ IsCond(b)) /\ ~ (IsLine(b) /\ IsBody(b))
         /\ ~ (IsCond(b) /\ IsBody(b))
         /\ IsLine(b) => IsCond(b + 1) /\ IsBody(b + 2) /\ IsLine(b + 3)
         /\ IsCond(b) => IsBody(b + 1) /\ IsLine(b + 2)
         /\ IsBody(b) => IsLine(b + 1) /\ IsCond(b + 2)
         /\ b > 0 /\ IsBody(b) => IsCond(b - 1)
         /\ b > 0 /\ IsCond(b) => IsLine(b - 1)
BY SMT DEF IsLine, IsCond, IsBody

(* Where control goes from the end of a block.                             *)
Whole == /\ blocks \in Seq(Seq(InstructionsIn(method)))
         /\ BlocksAre(blocks, method.type, TRUE)

LEMMA SuccessorsAre ==
  ASSUME Whole, NEW b \in 1 .. Len(blocks)
  PROVE  /\ IsLine(b) => Successors(b) = IF b < Len(blocks) THEN {b + 1} ELSE {}
         /\ IsCond(b) => Successors(b) = {b + 1, b + 2}
         /\ IsBody(b) => Successors(b) = {b - 1}
<1>0. /\ Len(blocks) \in Nat /\ blocks[b] \in Seq(InstructionsIn(method))
      /\ Len(blocks[b]) \in Nat
  BY DEF Whole
<1>4. /\ IsLine(b) \/ IsCond(b) \/ IsBody(b)
      /\ ~ (IsLine(b) /\ IsCond(b)) /\ ~ (IsLine(b) /\ IsBody(b))
      /\ ~ (IsCond(b) /\ IsBody(b))
  BY <1>0, InThrees
<1>1. CASE IsLine(b)
  <2>1. LineIs(blocks, method.type, b, TRUE)
    BY <1>1 DEF Whole, BlocksAre
  <2> DEFINE last == Len(blocks[b])
  <2>2. last \in Nat /\ last > 0
    BY <1>0, <2>1 DEF LineIs
  <2>3. IF b < Len(blocks) THEN blocks[b][last] = Br(b + 1)
        ELSE Ending(blocks[b][last], method.type, b, last)
    BY <2>1, <2>2 DEF LineIs
  <2>4. CASE b < Len(blocks)
    <3>1. /\ Last(blocks[b]).op = "br" /\ Last(blocks[b]).via = <<b + 1>>
      BY <2>3, <2>4 DEF Last, Br, Instruction
    <3>2. Range(<<b + 1>>) = {b + 1}
      BY DEF Range
    <3>3. Successors(b) = {b + 1}
      BY <3>1, <3>2 DEF Successors
    <3> QED BY <1>4, <1>1, <2>4, <3>3
  <2>5. CASE ~ (b < Len(blocks))
    <3>1. Last(blocks[b]).op = "ret"
      BY <2>3, <2>5 DEF Last, Ending
    <3>2. Successors(b) = {}
      BY <3>1 DEF Successors
    <3> QED BY <1>4, <1>1, <2>5, <3>2
  <2> QED BY <2>4, <2>5
<1>2. CASE IsCond(b)
  <2>1. CondIs(blocks, b)
    BY <1>2 DEF Whole, BlocksAre
  <2>2. PICK expo : blocks[b] = PowCond(b - 1, b, expo)
    BY <2>1 DEF CondIs
  <2>3. Last(blocks[b]) = CondBr(Computed(Bool, b, 3), b + 1, b + 2)
    BY <2>2 DEF Last, PowCond
  <2>4. Last(blocks[b]).op = "condbr" /\ Last(blocks[b]).via = <<b + 1, b + 2>>
    BY <2>3 DEF CondBr, Instruction
  <2>5. Range(<<b + 1, b + 2>>) = {b + 1, b + 2}
    BY DEF Range
  <2>6. Successors(b) = {b + 1, b + 2}
    BY <2>4, <2>5 DEF Successors
  <2> QED BY <1>4, <1>2, <2>6
<1>3. CASE IsBody(b)
  <2>1. BodyIs(blocks, b)
    BY <1>3 DEF Whole, BlocksAre
  <2>2. PICK base : blocks[b] = PowBody(b - 1, base, 1)
    BY <2>1 DEF BodyIs
  <2>3. Last(blocks[b]) = Br(b - 1)
    BY <2>2 DEF Last, PowBody
  <2>4. Last(blocks[b]).op = "br" /\ Last(blocks[b]).via = <<b - 1>>
    BY <2>3 DEF Br, Instruction
  <2>5. Range(<<b - 1>>) = {b - 1}
    BY DEF Range
  <2>6. Successors(b) = {b - 1}
    BY <2>4, <2>5 DEF Successors
  <2> QED BY <1>4, <1>3, <2>6
<1> QED BY <1>1, <1>2, <1>3, <1>4

(* The condition of a power is entered from the line and from the body.    *)
LEMMA CondIsEntered ==
  ASSUME Whole, NEW b \in 1 .. Len(blocks), IsCond(b)
  PROVE  Entering(b) = {b - 1, b + 1}
<1>0. Len(blocks) \in Nat /\ DOMAIN blocks = 1 .. Len(blocks)
  BY DEF Whole
<1>1. b > 1 /\ b + 2 <= Len(blocks)
  BY DEF Whole, BlocksAre, CondIs
<1>2. b - 1 \in 1 .. Len(blocks) /\ b + 1 \in 1 .. Len(blocks) /\ b \in Nat
  BY <1>0, <1>1
<1>3. IsLine(b - 1) /\ IsBody(b + 1)
  BY <1>1, <1>2, InThrees
<1>4. b \in Successors(b - 1) /\ b \in Successors(b + 1)
  BY <1>0, <1>1, <1>2, <1>3, SuccessorsAre
<1>5. ASSUME NEW c \in 1 .. Len(blocks), b \in Successors(c)
      PROVE  c \in {b - 1, b + 1}
  <2>0. c \in Nat
    BY <1>0
  <2>1. CASE IsLine(c)
    BY <1>0, <1>5, <2>1, SuccessorsAre
  <2>2. CASE IsCond(c)
    <3>1. b = c + 1 \/ b = c + 2
      BY <1>5, <2>2, SuccessorsAre
    <3>2. IsBody(c + 1) /\ IsLine(c + 2)
      BY <2>0, <2>2, InThrees
    <3> QED BY <1>2, <3>1, <3>2, InThrees
  <2>3. CASE IsBody(c)
    BY <1>0, <1>5, <2>3, SuccessorsAre
  <2> QED BY <2>0, <2>1, <2>2, <2>3, InThrees
<1> QED BY <1>0, <1>2, <1>4, <1>5 DEF Entering

(* Ways that avoid a block that is not the body of a power stay in front   *)
(* of it: every way to a later block leads through it.                     *)
LEMMA EarlierDominates ==
  ASSUME Whole, NEW b \in 1 .. Len(blocks), NEW c \in 1 .. Len(blocks),
         b < c, ~ IsBody(b)
  PROVE  Dominates(b, c)
<1> DEFINE n == Len(blocks)
           Step(S) == S \cup ((UNION {Successors(d) : d \in S}) \ {b})
           base == {1} \ {b}
           V == SUBSET (1 .. b - 1)
           step == [k \in 1 .. n |-> [S \in V |-> Step(S)]]
           Turn(g) == [k \in 0 .. n |-> IF k = 0 THEN base ELSE Step(g[k - 1])]
           without == CHOOSE g : g = Turn(g)
<1>0. n \in Nat /\ b \in Nat /\ b > 0
  BY DEF Whole
<1>1. base \in V
  BY <1>0
<1>2. ASSUME NEW S \in V PROVE Step(S) \in V
  <2>1. SUFFICES ASSUME NEW d \in S, NEW e \in Successors(d), e # b PROVE e \in 1 .. b - 1
    OBVIOUS
  <2>2. d \in 1 .. n /\ d \in Nat /\ 0 < d /\ d < b
    BY <1>0
  <2>3. CASE IsLine(d)
    <3>1. e = d + 1
      BY <2>2, <2>3, SuccessorsAre
    <3> QED BY <1>0, <2>1, <2>2, <3>1
  <2>4. CASE IsCond(d)
    <3>1. e = d + 1 \/ e = d + 2
      BY <2>2, <2>4, SuccessorsAre
    <3>2. IsBody(d + 1)
      BY <2>2, <2>4, InThrees
    <3>3. d + 1 # b
      BY <3>2
    <3> QED BY <1>0, <2>1, <2>2, <3>1, <3>3
  <2>5. CASE IsBody(d)
    <3>1. e = d - 1
      BY <2>2, <2>5, SuccessorsAre
    <3>2. d # 1
      BY <2>5 DEF IsBody
    <3> QED BY <1>0, <2>2, <3>1, <3>2
  <2> QED BY <2>2, <2>3, <2>4, <2>5, InThrees
<1> HIDE DEF Step, base, V
<1>3. step \in [1 .. n -> [V -> V]]
  BY <1>2
<1>4. \A k \in 1 .. n : \A S \in V : step[k][S] = Step(S)
  OBVIOUS
<1> HIDE DEF step
<1>5. PICK g \in [0 .. n -> V] : g[0] = base /\ \A k \in 1 .. n : g[k] = step[k][g[k - 1]]
  <2>1. \E g \in [0 .. n -> V] : Follows(g, base, step, n)
    BY <1>0, <1>1, <1>3, LoopExists
  <2> QED BY <2>1 DEF Follows
<1> HIDE DEF n
<1>6. \A k \in 1 .. n : g[k - 1] \in V
  BY <1>0, <1>5
<1>7. g = Turn(g)
  BY <1>0, <1>4, <1>5, <1>6
<1>8. without = Turn(without)
  <2> HIDE DEF Turn
  <2> QED BY <1>7
<1> HIDE DEF without
<1>9. without[0] = base /\ \A k \in 1 .. n : without[k] = Step(without[k - 1])
  <2>1. \A k \in 0 .. n : without[k] = IF k = 0 THEN base ELSE Step(without[k - 1])
    BY <1>8
  <2> QED BY <1>0, <2>1
<1>10. \A k \in 0 .. n : without[k] = g[k]
  <2>1. without[0] = g[0]
    BY <1>5, <1>9
  <2>2. \A k \in 1 .. n : without[k - 1] = g[k - 1] => without[k] = g[k]
    BY <1>4, <1>5, <1>6, <1>9
  <2>3. Together(without, g, n)
    BY <1>0, <2>1, <2>2 DEF Together
  <2> QED BY ONLY <2>3, LoopIsOne, ZenonT(60)
<1>11. without[n] \in V
  BY <1>0, <1>5, <1>10
<1>12. c \notin without[n]
  BY <1>0, <1>11 DEF V
<1>13. Dominates(b, c) <=> (b = c \/ c \notin without[Len(blocks)])
  BY DEF Dominates, without, Turn, Step, base, n
<1> QED BY <1>12, <1>13 DEF n

(* So what is ready can be used.                                           *)
LEMMA ReadyReaches ==
  ASSUME Whole, NEW b \in 1 .. Len(blocks), NEW k \in Nat, NEW value, Ready(value, b, k)
  PROVE  Reaches(value, b, k)
<1>1. CASE value.is = "computed"
  <2>1. /\ value.of[1] \in 1 .. b /\ ~ IsBody(value.of[1])
        /\ value.of[1] = b => value.of[2] < k
    BY <1>1 DEF Ready
  <2>2. CASE value.of[1] = b
    BY <1>1, <2>1, <2>2 DEF Reaches
  <2>3. CASE value.of[1] # b
    <3>1. value.of[1] \in 1 .. Len(blocks) /\ value.of[1] < b
      BY <2>1, <2>3 DEF Whole
    <3>2. Dominates(value.of[1], b)
      BY <2>1, <3>1, EarlierDominates
    <3> QED BY <1>1, <2>3, <3>2 DEF Reaches
  <2> QED BY <2>2, <2>3
<1>2. CASE value.is # "computed"
  BY <1>2 DEF Ready, Reaches
<1> QED BY <1>1, <1>2

(* What LLVM asks of the instruction at place k of block b.                *)
Passes(b, k) ==
  LET ins == blocks[b][k]
  IN /\ (k = Len(blocks[b])) <=> (ins.op \in {"br", "condbr", "ret"})
     /\ TypesFit(ins, method.type)
     /\ IF ins.op = "phi"
        THEN /\ Range(ins.via) = Entering(b)
             /\ \A j \in DOMAIN ins.args :
                  Reaches(ins.args[j], ins.via[j], Len(blocks[ins.via[j]]) + 1)
        ELSE \A j \in DOMAIN ins.args : Reaches(ins.args[j], b, k)

LEMMA LinePasses ==
  ASSUME Whole, NEW b \in 1 .. Len(blocks), IsLine(b), NEW k \in 1 .. Len(blocks[b])
  PROVE  Passes(b, k)
<1>0. Len(blocks) \in Nat /\ Len(blocks[b]) \in Nat /\ k \in Nat
  BY DEF Whole
<1>1. LineIs(blocks, method.type, b, TRUE)
  BY DEF Whole, BlocksAre
<1> DEFINE ins == blocks[b][k]
<1>2. CASE k < Len(blocks[b])
  <2>1. Inner(ins, method.type, b, k)
    BY <1>1, <1>2 DEF LineIs
  <2> HIDE DEF ins
  <2>2. \A j \in DOMAIN ins.args : Reaches(ins.args[j], b, k)
    BY <1>0, <2>1, ReadyReaches DEF Inner, Fits
  <2>3. ins.op \notin {"br", "condbr", "ret", "phi"} /\ TypesFit(ins, method.type)
    BY <2>1 DEF Inner, Fits
  <2> QED BY <1>0, <1>2, <2>2, <2>3 DEF Passes, ins
<1>3. CASE k = Len(blocks[b]) /\ b < Len(blocks)
  <2>1. ins = Br(b + 1)
    BY <1>0, <1>1, <1>3 DEF LineIs
  <2> HIDE DEF ins
  <2>2. ins.op = "br" /\ ins.args = <<>>
    BY <2>1 DEF Br, Instruction
  <2>3. TypesFit(ins, method.type)
    BY <2>2 DEF TypesFit
  <2> QED BY <1>3, <2>2, <2>3 DEF Passes, ins
<1>4. CASE k = Len(blocks[b]) /\ b = Len(blocks)
  <2>1. Ending(ins, method.type, b, k)
    BY <1>0, <1>1, <1>4 DEF LineIs
  <2> HIDE DEF ins
  <2>2. \A j \in DOMAIN ins.args : Reaches(ins.args[j], b, k)
    BY <1>0, <2>1, ReadyReaches DEF Ending, Fits
  <2>3. ins.op = "ret" /\ TypesFit(ins, method.type)
    BY <2>1 DEF Ending, Fits
  <2> QED BY <1>0, <1>4, <2>2, <2>3 DEF Passes, ins
<1> QED BY <1>0, <1>2, <1>3, <1>4

(* What has been computed is ready where it is used.                       *)
LEMMA ComputedIsReady ==
  ASSUME NEW type, NEW c \in Nat, NEW j \in Nat, NEW b \in Nat, NEW k \in Nat,
         c > 0, c <= b, c = b => j < k, ~ IsBody(c), type # Unit
  PROVE  Usable(Computed(type, c, j), type, b, k)
BY DEF Usable, Ready, Computed, Value

LEMMA ConstIsReady ==
  ASSUME NEW type, NEW v, NEW b, NEW k, type # Unit
  PROVE  Usable(Const(type, v), type, b, k)
BY DEF Usable, Ready, Const, Value

LEMMA CondPasses ==
  ASSUME Whole, NEW b \in 1 .. Len(blocks), IsCond(b), NEW k \in 1 .. Len(blocks[b])
  PROVE  Passes(b, k)
<1>0. Len(blocks) \in Nat /\ b \in Nat
  BY DEF Whole
<1>1. b > 1 /\ b + 2 <= Len(blocks)
  BY DEF Whole, BlocksAre, CondIs
<1>2. PICK expo : /\ Usable(expo, Int32, b - 1, Len(blocks[b - 1]))
                  /\ blocks[b] = PowCond(b - 1, b, expo)
  BY DEF Whole, BlocksAre, CondIs
<1>3. b - 1 \in 1 .. Len(blocks) /\ b + 1 \in 1 .. Len(blocks) /\ b + 1 \in Nat /\ b - 1 \in Nat
  BY <1>0, <1>1
<1>4. IsLine(b - 1) /\ IsBody(b + 1) /\ ~ IsBody(b)
  BY <1>0, <1>1, InThrees
<1>5. Len(blocks[b - 1]) \in Nat /\ Len(blocks[b + 1]) = 3
  <2>1. BodyIs(blocks, b + 1)
    BY <1>3, <1>4 DEF Whole, BlocksAre
  <2>2. PICK cond, base : blocks[b + 1] = PowBody(cond, base, 1)
    BY <2>1 DEF BodyIs
  <2>3. Len(blocks[b + 1]) = 3
    BY <2>2 DEF PowBody
  <2> QED BY <1>3, <2>3 DEF Whole
<1>6. Len(blocks[b]) = 4 /\ k \in 1 .. 4
  BY <1>2 DEF PowCond
<1>7. Range(<<b - 1, b + 1>>) = Entering(b)
  <2>1. Range(<<b - 1, b + 1>>) = {b - 1, b + 1}
    BY DEF Range
  <2> QED BY <2>1, CondIsEntered
<1> DEFINE ins == blocks[b][k]
<1>8. CASE k = 1 \/ k = 2
  <2> DEFINE first == IF k = 1 THEN One ELSE expo
             next == Computed(Int32, b + 1, k)
  <2>1. ins = Phi(Int32, <<first, next>>, <<b - 1, b + 1>>)
    BY <1>2, <1>8 DEF PowCond
  <2>2. /\ ins.op = "phi" /\ ins.args = <<first, next>> /\ ins.type = Int32
        /\ ins.via = <<b - 1, b + 1>>
    BY <2>1 DEF Phi, Instruction
  <2>3. Reaches(first, b - 1, Len(blocks[b - 1]) + 1)
    <3>1. Ready(first, b - 1, Len(blocks[b - 1]) + 1)
      <4>1. CASE k = 1
        BY <4>1, ConstIsReady DEF One, Usable, Int32, Unit
      <4>2. CASE k # 1
        BY <1>2, <1>5, <4>2 DEF Usable, Ready
      <4> QED BY <4>1, <4>2
    <3> QED BY <1>3, <1>5, <3>1, ReadyReaches
  <2>4. Reaches(next, b + 1, Len(blocks[b + 1]) + 1)
    BY <1>5, <1>8 DEF Reaches, Computed, Value
  <2>5. first.type = Int32 /\ next.type = Int32
    BY <1>2 DEF One, Const, Computed, Value, Usable
  <2> HIDE DEF ins, first, next
  <2>6. TypesFit(ins, method.type)
    <3>1. Types(ins) = <<Int32, Int32>>
      BY <2>2, <2>5 DEF Types
    <3>2. Range(Types(ins)) = {Int32}
      BY <3>1 DEF Range
    <3> QED BY <2>2, <3>2 DEF TypesFit
  <2>7. \A j \in DOMAIN ins.args :
          Reaches(ins.args[j], ins.via[j], Len(blocks[ins.via[j]]) + 1)
    <3>1. DOMAIN ins.args = {1, 2}
      BY <2>2
    <3>2. ins.args[1] = first /\ ins.args[2] = next
      BY <2>2
    <3>3. ins.via[1] = b - 1 /\ ins.via[2] = b + 1
      BY <2>2
    <3> QED BY <2>3, <2>4, <3>1, <3>2, <3>3
  <2>8. k # Len(blocks[b]) /\ ins.op \notin {"br", "condbr", "ret"}
    BY <1>6, <1>8, <2>2
  <2>9. Range(ins.via) = Entering(b)
    BY ONLY <1>7, <2>2
  <2> QED BY ONLY <2>2, <2>6, <2>7, <2>8, <2>9 DEF Passes, ins
<1>9. CASE k = 3
  <2>1. ins = Instruction("sgt", Bool, <<Computed(Int32, b, 2), Const(Int32, 0)>>, <<>>)
    BY <1>2, <1>9 DEF PowCond
  <2>2. ins.op = "sgt" /\ ins.args = <<Computed(Int32, b, 2), Const(Int32, 0)>>
    BY <2>1 DEF Instruction
  <2> HIDE DEF ins
  <2>3. TypesFit(ins, method.type)
    <3>1. Types(ins) = <<Int32, Int32>>
      BY <2>2 DEF Types, Computed, Const, Value
    <3> QED BY <2>2, <3>1 DEF TypesFit
  <2>4. /\ Reaches(Computed(Int32, b, 2), b, 3)
        /\ Reaches(Const(Int32, 0), b, 3)
    BY DEF Reaches, Computed, Const, Value
  <2>5. \A j \in DOMAIN ins.args : Reaches(ins.args[j], b, 3)
    <3>1. DOMAIN ins.args = {1, 2}
      BY <2>2
    <3> QED BY <2>2, <2>4, <3>1
  <2> QED BY <1>6, <1>9, <2>2, <2>3, <2>5 DEF Passes, ins
<1>10. CASE k = 4
  <2>1. ins = CondBr(Computed(Bool, b, 3), b + 1, b + 2)
    BY <1>2, <1>10 DEF PowCond
  <2>2. ins.op = "condbr" /\ ins.args = <<Computed(Bool, b, 3)>>
    BY <2>1 DEF CondBr, Instruction
  <2> HIDE DEF ins
  <2>3. TypesFit(ins, method.type)
    <3>1. Types(ins) = <<Bool>>
      BY <2>2 DEF Types, Computed, Value
    <3> QED BY <2>2, <3>1 DEF TypesFit
  <2>4. Reaches(Computed(Bool, b, 3), b, 4)
    BY DEF Reaches, Computed, Value
  <2>5. \A j \in DOMAIN ins.args : Reaches(ins.args[j], b, 4)
    BY <2>2, <2>4
  <2> QED BY <1>6, <1>10, <2>2, <2>3, <2>5 DEF Passes, ins
<1> QED BY <1>6, <1>8, <1>9, <1>10

LEMMA BodyPasses ==
  ASSUME Whole, NEW b \in 1 .. Len(blocks), IsBody(b), NEW k \in 1 .. Len(blocks[b])
  PROVE  Passes(b, k)
<1>0. Len(blocks) \in Nat /\ b \in Nat
  BY DEF Whole
<1>1. b > 2
  BY DEF Whole, BlocksAre, BodyIs
<1>2. PICK base : /\ Usable(base, Int32, b - 2, Len(blocks[b - 2]))
                  /\ blocks[b] = PowBody(b - 1, base, 1)
  BY DEF Whole, BlocksAre, BodyIs
<1>3. b - 1 \in Nat /\ b - 1 > 0 /\ b - 1 <= b /\ b - 1 # b /\ b - 2 < b /\ b - 2 \in Nat
  BY <1>0, <1>1
<1>4. IsCond(b - 1) /\ ~ IsBody(b - 1)
  BY <1>0, <1>3, InThrees
<1>5. Len(blocks[b]) = 3 /\ k \in 1 .. 3
  BY <1>2 DEF PowBody
<1>6. ASSUME NEW j \in Nat PROVE Reaches(Computed(Int32, b - 1, j), b, k)
  <2>1. Usable(Computed(Int32, b - 1, j), Int32, b, k)
    BY <1>0, <1>3, <1>4, <1>5, ComputedIsReady DEF Int32, Unit
  <2> QED BY <1>5, <2>1, ReadyReaches DEF Usable
<1>7. Reaches(base, b, k)
  <2>1. Ready(base, b, k)
    BY <1>0, <1>2, <1>3 DEF Usable, Ready
  <2> QED BY <1>5, <2>1, ReadyReaches
<1> DEFINE ins == blocks[b][k]
<1>8. CASE k = 1 \/ k = 2
  <2> DEFINE left == Computed(Int32, b - 1, k)
             right == IF k = 1 THEN base ELSE Const(Int32, 1)
  <2>1. ins.op \in {"mul", "sub"} /\ ins.args = <<left, right>>
    BY <1>2, <1>8 DEF PowBody, Instruction
  <2>2. Reaches(left, b, k) /\ left.type = Int32
    BY <1>5, <1>6 DEF Computed, Value
  <2>3. Reaches(right, b, k) /\ right.type = Int32
    BY <1>2, <1>7 DEF Reaches, Const, Value, Usable
  <2> HIDE DEF ins, left, right
  <2>4. TypesFit(ins, method.type)
    <3>1. Types(ins) = <<Int32, Int32>>
      BY <2>1, <2>2, <2>3 DEF Types
    <3> QED BY <2>1, <3>1 DEF TypesFit
  <2>5. \A j \in DOMAIN ins.args : Reaches(ins.args[j], b, k)
    <3>1. DOMAIN ins.args = {1, 2}
      BY <2>1
    <3> QED BY <2>1, <2>2, <2>3, <3>1
  <2> QED BY <1>5, <1>8, <2>1, <2>4, <2>5 DEF Passes, ins
<1>9. CASE k = 3
  <2>1. ins = Br(b - 1)
    BY <1>2, <1>9 DEF PowBody
  <2>2. ins.op = "br" /\ ins.args = <<>>
    BY <2>1 DEF Br, Instruction
  <2> HIDE DEF ins
  <2>3. TypesFit(ins, method.type)
    BY <2>2 DEF TypesFit
  <2> QED BY <1>5, <1>9, <2>2, <2>3 DEF Passes, ins
<1> QED BY <1>5, <1>8, <1>9

(* LLVM accepts the code.                                                  *)
LEMMA WholeIsWellFormed == Whole => WellFormed
<1> SUFFICES ASSUME Whole PROVE WellFormed
  OBVIOUS
<1>1. DOMAIN blocks = 1 .. Len(blocks) /\ Len(blocks) \in Nat
  BY DEF Whole
<1>2. ASSUME NEW b \in 1 .. Len(blocks), NEW k \in 1 .. Len(blocks[b])
      PROVE  Passes(b, k)
  <2>1. b \in Nat
    BY <1>1
  <2> QED BY <2>1, LinePasses, CondPasses, BodyPasses, InThrees
<1>3. \A b \in 1 .. Len(blocks) : DOMAIN blocks[b] = 1 .. Len(blocks[b])
  BY DEF Whole
<1> QED BY <1>1, <1>2, <1>3 DEF WellFormed, Passes

(* What is ready stays ready, further down and in later blocks.            *)
Later(b, k, c, j) == b \in Nat /\ k \in Nat /\ c \in Nat /\ j \in Nat
                     /\ (c > b \/ (c = b /\ j >= k))

LEMMA ReadyLater ==
  ASSUME NEW b, NEW k, NEW c, NEW j, Later(b, k, c, j), NEW value, Ready(value, b, k)
  PROVE  Ready(value, c, j)
<1>0. b \in Nat /\ k \in Nat /\ c \in Nat /\ j \in Nat /\ (c > b \/ (c = b /\ j >= k))
  BY DEF Later
<1>1. value.is # "null"
  BY DEF Ready
<1>2. CASE value.is = "computed"
  <2>1. /\ value.of \in Nat \X Nat /\ value.of[1] \in 1 .. b /\ ~ IsBody(value.of[1])
        /\ value.of[1] = b => value.of[2] < k
    BY <1>2 DEF Ready
  <2>2. value.of[1] \in Nat /\ value.of[2] \in Nat
    BY <2>1
  <2>3. value.of[1] \in 1 .. c /\ (value.of[1] = c => value.of[2] < j)
    BY <1>0, <2>1, <2>2
  <2> QED BY <1>1, <2>1, <2>3 DEF Ready
<1> QED BY <1>1, <1>2 DEF Ready

(* An instruction more at the end of the last block.                       *)
AddTo(bs, ins) == [bs EXCEPT ![Len(bs)] = Append(@, ins)]

LEMMA AddedTo ==
  ASSUME NEW S, NEW bs \in Seq(Seq(S)), Len(bs) > 0, NEW ins \in S
  PROVE  /\ AddTo(bs, ins) \in Seq(Seq(S)) /\ Len(AddTo(bs, ins)) = Len(bs)
         /\ \A b \in 1 .. Len(bs) - 1 : AddTo(bs, ins)[b] = bs[b]
         /\ AddTo(bs, ins)[Len(bs)] = Append(bs[Len(bs)], ins)
<1>1. Len(bs) \in Nat /\ Len(bs) \in 1 .. Len(bs) /\ bs[Len(bs)] \in Seq(S)
  OBVIOUS
<1>2. Append(bs[Len(bs)], ins) \in Seq(S)
  BY <1>1
<1> QED BY <1>1, <1>2 DEF AddTo

(* The blocks before the last are what they were, whatever the last is.    *)
LEMMA EarlierStay ==
  ASSUME NEW S, NEW bs \in Seq(Seq(S)), NEW type, BlocksAre(bs, type, FALSE),
         NEW cs \in Seq(Seq(S)), Len(cs) >= Len(bs),
         NEW b \in 1 .. Len(bs) - 1, \A c \in 1 .. Len(bs) - 1 : cs[c] = bs[c],
         NEW done \in BOOLEAN
  PROVE  /\ IsLine(b) => LineIs(cs, type, b, done)
         /\ IsCond(b) => CondIs(cs, b)
         /\ IsBody(b) => BodyIs(cs, b)
<1>0. Len(bs) \in Nat /\ Len(cs) \in Nat /\ b \in 1 .. Len(bs) /\ b \in Nat /\ b < Len(bs) /\ b < Len(cs)
  OBVIOUS
<1>1. cs[b] = bs[b] /\ Len(bs[b]) \in Nat
  BY <1>0
<1>2. ASSUME IsLine(b) PROVE LineIs(cs, type, b, done)
  <2>1. LineIs(bs, type, b, FALSE)
    BY <1>0, <1>2 DEF BlocksAre
  <2> QED BY <1>0, <1>1, <2>1 DEF LineIs
<1>3. ASSUME IsCond(b) PROVE CondIs(cs, b)
  <2>1. CondIs(bs, b)
    BY <1>0, <1>3 DEF BlocksAre
  <2>2. b > 1 /\ b + 2 <= Len(bs)
    BY <2>1 DEF CondIs
  <2>3. b - 1 \in 1 .. Len(bs) - 1
    BY <1>0, <2>2
  <2>4. cs[b - 1] = bs[b - 1]
    BY <2>3
  <2>5. b + 2 <= Len(cs)
    BY <1>0, <2>2
  <2> QED BY <1>1, <2>1, <2>2, <2>4, <2>5 DEF CondIs
<1>4. ASSUME IsBody(b) PROVE BodyIs(cs, b)
  <2>1. BodyIs(bs, b)
    BY <1>0, <1>4 DEF BlocksAre
  <2>2. b > 2 /\ b + 1 <= Len(bs)
    BY <2>1 DEF BodyIs
  <2>3. cs[b - 2] = bs[b - 2] /\ b + 1 <= Len(cs)
    BY <1>0, <2>2
  <2> QED BY <1>1, <2>1, <2>2, <2>3 DEF BodyIs
<1> QED BY <1>2, <1>3, <1>4

(* The last block is one of the line.                                      *)
LEMMA LastIsLine ==
  ASSUME NEW S, NEW bs \in Seq(Seq(S)), NEW type, BlocksAre(bs, type, FALSE)
  PROVE  /\ Len(bs) \in Nat /\ Len(bs) > 0 /\ IsLine(Len(bs)) /\ ~ IsBody(Len(bs))
         /\ bs[Len(bs)] \in Seq(S) /\ Len(bs[Len(bs)]) \in Nat
         /\ \A k \in 1 .. Len(bs[Len(bs)]) : Inner(bs[Len(bs)][k], type, Len(bs), k)
<1>0. Len(bs) % 3 = 1
  BY DEF BlocksAre
<1>1. Len(bs) \in Nat
  OBVIOUS
<1>2. Len(bs) > 0 /\ IsLine(Len(bs))
  <2>1. PICK n \in Nat : n = Len(bs)
    BY <1>1
  <2>2. n % 3 = 1
    BY <1>0, <2>1
  <2>3. n > 0
    BY ONLY n \in Nat, <2>2, SMT
  <2> QED BY <1>0, <2>1, <2>3 DEF IsLine
<1>3. ~ IsBody(Len(bs)) /\ ~ IsCond(Len(bs))
  BY <1>1, <1>2, InThrees
<1>4. Len(bs) \in 1 .. Len(bs) /\ bs[Len(bs)] \in Seq(S)
  BY <1>1, <1>2
<1>5. LineIs(bs, type, Len(bs), FALSE)
  BY <1>2, <1>4 DEF BlocksAre
<1>6. Len(bs[Len(bs)]) \in Nat
  BY <1>4
<1>7. \A k \in 1 .. Len(bs[Len(bs)]) : Inner(bs[Len(bs)][k], type, Len(bs), k)
  BY <1>5 DEF LineIs
<1> QED BY <1>1, <1>2, <1>3, <1>4, <1>6, <1>7

(* An instruction is inserted at the end of the line.                      *)
LEMMA InsertKeeps ==
  ASSUME NEW S, NEW bs \in Seq(Seq(S)), NEW type, BlocksAre(bs, type, FALSE),
         NEW ins \in S, Inner(ins, type, Len(bs), Len(bs[Len(bs)]) + 1)
  PROVE  BlocksAre(AddTo(bs, ins), type, FALSE)
<1> DEFINE n == Len(bs)
           cs == AddTo(bs, ins)
           last == Len(bs[n])
<1>0. /\ n \in Nat /\ n > 0 /\ IsLine(n) /\ bs[n] \in Seq(S) /\ last \in Nat
      /\ \A k \in 1 .. last : Inner(bs[n][k], type, n, k)
  BY LastIsLine
<1>1. cs \in Seq(Seq(S)) /\ Len(cs) = n /\ cs[n] = Append(bs[n], ins)
      /\ \A b \in 1 .. n - 1 : cs[b] = bs[b]
  BY <1>0, AddedTo
<1>2. n % 3 = 1
  BY DEF BlocksAre
<1>3. Inner(ins, type, n, last + 1)
  OBVIOUS
<1> HIDE DEF n, cs, last
<1>4. /\ Len(cs[n]) = last + 1
      /\ \A k \in 1 .. last : cs[n][k] = bs[n][k]
      /\ cs[n][last + 1] = ins
  BY <1>0, <1>1 DEF last
<1>5. LineIs(cs, type, n, FALSE)
  <2>1. \A k \in 1 .. last + 1 : Inner(cs[n][k], type, n, k)
    BY <1>0, <1>3, <1>4
  <2> QED BY <1>1, <1>4, <2>1 DEF LineIs
<1>6. ASSUME NEW b \in 1 .. n
      PROVE  /\ IsLine(b) => LineIs(cs, type, b, FALSE)
             /\ IsCond(b) => CondIs(cs, b)
             /\ IsBody(b) => BodyIs(cs, b)
  <2>1. CASE b = n
    BY <1>0, <1>5, <2>1, InThrees
  <2>2. CASE b # n
    <3>1. b \in 1 .. Len(bs) - 1 /\ Len(cs) >= Len(bs)
      BY <1>0, <1>1, <2>2 DEF n
    <3> QED BY <1>1, <3>1, EarlierStay DEF n
  <2> QED BY <2>1, <2>2
<1>7. Len(cs) % 3 = 1 /\ 1 .. Len(cs) = 1 .. n
  BY <1>1, <1>2 DEF n
<1>8. BlocksAre(cs, type, FALSE)
  BY ONLY <1>6, <1>7 DEF BlocksAre
<1> QED BY <1>8 DEF cs

(* The return is inserted there.                                           *)
LEMMA ReturnKeeps ==
  ASSUME NEW S, NEW bs \in Seq(Seq(S)), NEW type, BlocksAre(bs, type, FALSE),
         NEW ins \in S, Ending(ins, type, Len(bs), Len(bs[Len(bs)]) + 1)
  PROVE  BlocksAre(AddTo(bs, ins), type, TRUE)
<1> DEFINE n == Len(bs)
           cs == AddTo(bs, ins)
           last == Len(bs[n])
<1>0. /\ n \in Nat /\ n > 0 /\ IsLine(n) /\ bs[n] \in Seq(S) /\ last \in Nat
      /\ \A k \in 1 .. last : Inner(bs[n][k], type, n, k)
  BY LastIsLine
<1>1. cs \in Seq(Seq(S)) /\ Len(cs) = n /\ cs[n] = Append(bs[n], ins)
      /\ \A b \in 1 .. n - 1 : cs[b] = bs[b]
  BY <1>0, AddedTo
<1>2. n % 3 = 1
  BY DEF BlocksAre
<1>3. Ending(ins, type, n, last + 1)
  OBVIOUS
<1> HIDE DEF n, cs, last
<1>4. /\ Len(cs[n]) = last + 1
      /\ \A k \in 1 .. last : cs[n][k] = bs[n][k]
      /\ cs[n][last + 1] = ins
  BY <1>0, <1>1 DEF last
<1>5. LineIs(cs, type, n, TRUE)
  <2>1. \A k \in 1 .. last : Inner(cs[n][k], type, n, k)
    BY <1>0, <1>4
  <2>2. Ending(cs[n][last + 1], type, n, last + 1)
    BY <1>3, <1>4
  <2>3. \A k \in 1 .. last + 1 : k < last + 1 => k \in 1 .. last
    BY <1>0
  <2> QED BY <1>0, <1>1, <1>4, <2>1, <2>2, <2>3 DEF LineIs
<1>6. ASSUME NEW b \in 1 .. n
      PROVE  /\ IsLine(b) => LineIs(cs, type, b, TRUE)
             /\ IsCond(b) => CondIs(cs, b)
             /\ IsBody(b) => BodyIs(cs, b)
  <2>1. CASE b = n
    BY <1>0, <1>5, <2>1, InThrees
  <2>2. CASE b # n
    <3>1. b \in 1 .. Len(bs) - 1 /\ Len(cs) >= Len(bs)
      BY <1>0, <1>1, <2>2 DEF n
    <3> QED BY <1>1, <3>1, EarlierStay DEF n
  <2> QED BY <2>1, <2>2
<1>7. Len(cs) % 3 = 1 /\ 1 .. Len(cs) = 1 .. n
  BY <1>1, <1>2 DEF n
<1>8. BlocksAre(cs, type, TRUE)
  BY ONLY <1>6, <1>7 DEF BlocksAre
<1> QED BY <1>8 DEF cs

(* A power closes it and goes on three blocks later.                       *)
AddPower(bs, n, base, expo) ==
  AddTo(bs, Br(n + 1)) \o << PowCond(n, n + 1, expo), PowBody(n + 1, base, 1), <<>> >>

IsPowered(cs, S, type, n) ==
  cs \in Seq(Seq(S)) /\ Len(cs) = n + 3 /\ cs[n + 3] = <<>> /\ BlocksAre(cs, type, FALSE)

LEMMA PowerKeeps ==
  ASSUME NEW S, NEW bs \in Seq(Seq(S)), NEW type, BlocksAre(bs, type, FALSE),
         NEW base, NEW expo, NEW n, n = Len(bs),
         Usable(base, Int32, n, Len(bs[n]) + 1), Usable(expo, Int32, n, Len(bs[n]) + 1),
         Br(n + 1) \in S, PowCond(n, n + 1, expo) \in Seq(S), PowBody(n + 1, base, 1) \in Seq(S)
  PROVE  IsPowered(AddPower(bs, n, base, expo), S, type, n)
<1>a. PICK cs : cs = AddPower(bs, n, base, expo)
  OBVIOUS
<1> DEFINE last == Len(bs[n])
<1>0. /\ n \in Nat /\ n > 0 /\ IsLine(n) /\ bs[n] \in Seq(S) /\ last \in Nat
      /\ \A k \in 1 .. last : Inner(bs[n][k], type, n, k)
  BY LastIsLine
<1>1. PICK ds : ds = AddTo(bs, Br(n + 1))
  OBVIOUS
<1>2. ds \in Seq(Seq(S)) /\ Len(ds) = n /\ ds[n] = Append(bs[n], Br(n + 1))
      /\ \A b \in 1 .. n - 1 : ds[b] = bs[b]
  BY <1>0, <1>1, AddedTo
<1>3. PICK three : three = << PowCond(n, n + 1, expo), PowBody(n + 1, base, 1), <<>> >>
  OBVIOUS
<1>4. /\ three \in Seq(Seq(S)) /\ Len(three) = 3
      /\ three[1] = PowCond(n, n + 1, expo) /\ three[2] = PowBody(n + 1, base, 1)
      /\ three[3] = <<>>
  BY <1>3
<1>5. cs = ds \o three
  BY <1>a, <1>1, <1>3 DEF AddPower
<1>6. cs \in Seq(Seq(S)) /\ Len(cs) = n + 3
  <2>1. ds \o three \in Seq(Seq(S)) /\ Len(ds \o three) = Len(ds) + Len(three)
    BY ONLY <1>2, <1>4, ConcatProperties
  <2> QED BY ONLY <1>2, <1>4, <1>5, <2>1
<1>7. \A b \in 1 .. n + 3 : cs[b] = IF b <= n THEN ds[b] ELSE three[b - n]
  <2>1. \A b \in 1 .. Len(ds) + Len(three) :
          (ds \o three)[b] = IF b <= Len(ds) THEN ds[b] ELSE three[b - Len(ds)]
    BY ONLY <1>2, <1>4, ConcatProperties
  <2> QED BY ONLY <1>2, <1>4, <1>5, <2>1
<1>8. /\ cs[n + 1] = PowCond(n, n + 1, expo) /\ cs[n + 2] = PowBody(n + 1, base, 1)
      /\ cs[n + 3] = <<>> /\ cs[n] = Append(bs[n], Br(n + 1))
  <2>1. n + 1 \in 1 .. n + 3 /\ n + 2 \in 1 .. n + 3 /\ n + 3 \in 1 .. n + 3 /\ n \in 1 .. n + 3
    BY <1>0
  <2>2. ~ (n + 1 <= n) /\ ~ (n + 2 <= n) /\ ~ (n + 3 <= n) /\ n <= n
        /\ (n + 1) - n = 1 /\ (n + 2) - n = 2 /\ (n + 3) - n = 3
    BY <1>0
  <2> QED BY <1>2, <1>4, <1>7, <2>1, <2>2
<1>9. ASSUME NEW b \in 1 .. n - 1 PROVE cs[b] = bs[b]
  <2>1. b \in 1 .. n + 3 /\ b <= n
    BY ONLY <1>0, b \in 1 .. n - 1
  <2>2. cs[b] = ds[b]
    BY ONLY <1>7, <2>1
  <2> QED BY ONLY <1>2, <2>2, b \in 1 .. n - 1
<1> HIDE DEF last
<1>10. /\ Len(cs[n]) = last + 1
       /\ \A k \in 1 .. last : cs[n][k] = bs[n][k]
       /\ cs[n][last + 1] = Br(n + 1)
  BY ONLY <1>0, <1>8, Br(n + 1) \in S DEF last
<1>11. LineIs(cs, type, n, FALSE)
  <2>1. \A k \in 1 .. last : Inner(cs[n][k], type, n, k)
    BY <1>0, <1>10
  <2>2. \A k \in 1 .. last + 1 : k = last + 1 \/ (k < last + 1 /\ k \in 1 .. last)
    BY <1>0
  <2>3. n < Len(cs)
    BY <1>0, <1>6
  <2> QED BY <1>0, <1>6, <1>10, <2>1, <2>2, <2>3 DEF LineIs
<1>12. CondIs(cs, n + 1)
  <2>1. (n + 1) - 1 = n /\ n + 1 > 1 /\ (n + 1) + 2 <= Len(cs)
    BY <1>0, <1>6
  <2>2. cs[n + 1][2].args[1] = expo
    BY ONLY <1>8 DEF PowCond, Phi, Instruction
  <2>3. Usable(expo, Int32, n, Len(cs[n]))
    BY <1>10 DEF last
  <2> QED BY <1>8, <2>1, <2>2, <2>3 DEF CondIs
<1>13. BodyIs(cs, n + 2)
  <2>1. (n + 2) - 1 = n + 1 /\ (n + 2) - 2 = n /\ n + 2 > 2 /\ (n + 2) + 1 <= Len(cs)
    BY <1>0, <1>6
  <2>2. cs[n + 2][1].args[2] = base
    BY ONLY <1>8 DEF PowBody, Instruction
  <2>3. Usable(base, Int32, n, Len(cs[n]))
    BY <1>10 DEF last
  <2> QED BY <1>8, <2>1, <2>2, <2>3 DEF BodyIs
<1>14. LineIs(cs, type, n + 3, FALSE)
  <2>1. Len(cs[n + 3]) = 0
    BY <1>8
  <2>2. /\ ~ (n + 3 < Len(cs))
        /\ 1 .. Len(cs[n + 3]) = {}
    BY ONLY <1>0, <1>6, <2>1
  <2> QED BY ONLY <2>2 DEF LineIs
<1>15. ASSUME NEW b \in 1 .. n + 3
       PROVE  /\ IsLine(b) => LineIs(cs, type, b, FALSE)
              /\ IsCond(b) => CondIs(cs, b)
              /\ IsBody(b) => BodyIs(cs, b)
  <2>0. /\ IsCond(n + 1) /\ ~ IsLine(n + 1) /\ ~ IsBody(n + 1)
        /\ IsBody(n + 2) /\ ~ IsLine(n + 2) /\ ~ IsCond(n + 2)
        /\ IsLine(n + 3) /\ ~ IsCond(n + 3) /\ ~ IsBody(n + 3)
        /\ ~ IsCond(n) /\ ~ IsBody(n)
    <3>1. n \in Nat /\ n + 1 \in Nat /\ n + 2 \in Nat /\ n + 3 \in Nat
      BY <1>0
    <3>2. IsLine(n) /\ IsCond(n + 1) /\ IsBody(n + 2) /\ IsLine(n + 3)
      BY ONLY <1>0, <3>1, InThrees
    <3> QED BY ONLY <3>1, <3>2, InThrees
  <2>1. CASE b = n
    BY ONLY <1>11, <2>0, <2>1
  <2>2. CASE b = n + 1
    BY ONLY <1>12, <2>0, <2>2
  <2>3. CASE b = n + 2
    BY ONLY <1>13, <2>0, <2>3
  <2>4. CASE b = n + 3
    BY ONLY <1>14, <2>0, <2>4
  <2>5. CASE b < n
    <3>1. b \in 1 .. Len(bs) - 1 /\ Len(cs) >= Len(bs)
      BY <1>0, <1>6, <2>5
    <3> QED BY <1>6, <1>9, <3>1, EarlierStay
  <2>6. b = n \/ b = n + 1 \/ b = n + 2 \/ b = n + 3 \/ b < n
    BY ONLY <1>0, b \in 1 .. n + 3
  <2> QED BY <2>1, <2>2, <2>3, <2>4, <2>5, <2>6
<1>16. (n + 3) % 3 = 1
  BY <1>0, InThrees DEF IsLine
<1>17. BlocksAre(cs, type, FALSE)
  BY ONLY <1>6, <1>15, <1>16 DEF BlocksAre
<1> QED BY ONLY <1>a, <1>6, <1>8, <1>17 DEF IsPowered

(* The visit that runs: its node is one of the tree, the method's or one   *)
(* below it.                                                               *)
Visits(m) == [node : {m} \cup m.nodes, returned : Seq(ValuesIn(m))]

LEMMA TopIs ==
  ASSUME NEW m, TypedTree(m), NEW stack, NEW b, NEW k, VisitsAre(m, stack, b, k),
         NEW top, top = Last(stack)
  PROVE  /\ Len(stack) \in Nat /\ Len(stack) > 0 /\ top = stack[Len(stack)]
         /\ top \in Visits(m) /\ top.node \in {m} \cup m.nodes
         /\ top.returned \in Seq(ValuesIn(m)) /\ Len(top.returned) \in Nat
         /\ top.node.kids \in Seq(m.nodes) /\ Len(top.node.kids) \in Nat
         /\ Len(top.returned) <= Len(top.node.kids)
         /\ \A c \in 1 .. Len(top.returned) :
              Usable(top.returned[c], top.node.kids[c].type, b, k)
         /\ top.node.op # "MethodNode" => Len(stack) > 1 /\ top.node \in m.nodes
<1>1. stack \in Seq(Visits(m)) /\ Len(stack) > 0 /\ stack[1].node = m
  BY DEF VisitsAre, Visits
<1>2. Len(stack) \in Nat /\ top = stack[Len(stack)]
  BY <1>1 DEF Last
<1>3. Len(stack) \in 1 .. Len(stack)
  BY <1>1, <1>2
<1>4. top \in Visits(m)
  BY <1>1, <1>2, <1>3
<1>5. top.node \in {m} \cup m.nodes /\ top.returned \in Seq(ValuesIn(m))
  BY <1>4 DEF Visits
<1>6. top.node.kids \in Seq(m.nodes)
  BY <1>5 DEF TypedTree
<1>7. Len(top.returned) \in Nat /\ Len(top.node.kids) \in Nat
  BY <1>5, <1>6
<1>8. /\ Len(top.returned) <= Len(top.node.kids)
      /\ \A c \in 1 .. Len(top.returned) :
           Usable(top.returned[c], top.node.kids[c].type, b, k)
  BY <1>2, <1>3 DEF VisitsAre
<1>9. ASSUME top.node.op # "MethodNode" PROVE Len(stack) > 1 /\ top.node \in m.nodes
  <2>1. top.node # m
    BY <1>9 DEF TypedTree
  <2>2. Len(stack) > 1
    BY <1>1, <1>2, <2>1
  <2> QED BY <1>5, <2>1, <2>2
<1> QED BY <1>1, <1>2, <1>4, <1>5, <1>6, <1>7, <1>8, <1>9

(* accept for the next child.                                              *)
LEMMA AcceptKeeps ==
  ASSUME NEW m, TypedTree(m), NEW stack, NEW b, NEW k, VisitsAre(m, stack, b, k),
         NEW top, top = Last(stack), Len(top.returned) # Len(top.node.kids),
         NEW next, next = top.node.kids[Len(top.returned) + 1]
  PROVE  VisitsAre(m, Append(stack, Visit(next)), b, k)
<1> DEFINE n == Len(stack)
<1>0. /\ n \in Nat /\ n > 0 /\ top = stack[n]
      /\ Len(top.returned) \in Nat /\ Len(top.node.kids) \in Nat
      /\ top.node.kids \in Seq(m.nodes) /\ Len(top.returned) <= Len(top.node.kids)
  BY TopIs
<1>1. Len(top.returned) < Len(top.node.kids)
  BY <1>0
<1>2. next \in m.nodes
  BY <1>0, <1>1
<1>3. next.kids \in Seq(m.nodes)
  BY <1>2 DEF TypedTree
<1>4. Visit(next) \in Visits(m)
  BY <1>2 DEF Visit, Visits
<1>5. stack \in Seq(Visits(m))
  BY DEF VisitsAre, Visits
<1>6. PICK longer : longer = Append(stack, Visit(next))
  OBVIOUS
<1>7. /\ longer \in Seq(Visits(m)) /\ Len(longer) = n + 1
      /\ longer[n + 1] = Visit(next) /\ \A j \in 1 .. n : longer[j] = stack[j]
  BY ONLY <1>4, <1>5, <1>6
<1> HIDE DEF n
<1>8. longer[1].node = m
  <2>1. stack[1].node = m /\ 1 \in 1 .. n
    BY <1>0 DEF VisitsAre
  <2> QED BY <1>7, <2>1
<1>9. ASSUME NEW j \in 2 .. n + 1
      PROVE  LET before == longer[j - 1]
             IN /\ Len(before.returned) < Len(before.node.kids)
                /\ longer[j].node = before.node.kids[Len(before.returned) + 1]
  <2>1. CASE j = n + 1
    <3>1. longer[j - 1] = top /\ longer[j].node = next
      BY <1>0, <1>7, <2>1 DEF Visit
    <3> QED BY <1>1, <3>1
  <2>2. CASE j # n + 1
    <3>1. j \in 2 .. n /\ j \in 1 .. n /\ j - 1 \in 1 .. n
      BY <1>0, <2>2
    <3>2. longer[j - 1] = stack[j - 1] /\ longer[j] = stack[j]
      BY <1>7, <3>1
    <3> QED BY <3>1, <3>2 DEF VisitsAre, n
  <2> QED BY <2>1, <2>2
<1>10. ASSUME NEW j \in 1 .. n + 1
       PROVE  /\ Len(longer[j].returned) <= Len(longer[j].node.kids)
              /\ \A c \in 1 .. Len(longer[j].returned) :
                   Usable(longer[j].returned[c], longer[j].node.kids[c].type, b, k)
  <2>1. CASE j = n + 1
    <3>1. longer[j].returned = <<>> /\ longer[j].node = next
      BY <1>7, <2>1 DEF Visit
    <3>2. Len(next.kids) \in Nat /\ Len(longer[j].returned) = 0
      BY <1>3, <3>1
    <3> QED BY <3>1, <3>2
  <2>2. CASE j # n + 1
    <3>1. j \in 1 .. n
      BY <1>0, <2>2
    <3> QED BY <1>7, <3>1 DEF VisitsAre, n
  <2> QED BY <2>1, <2>2
<1>11. longer \in Seq([node : {m} \cup m.nodes, returned : Seq(ValuesIn(m))])
  BY <1>7 DEF Visits
<1>12. Len(longer) > 0
  BY <1>0, <1>7
<1>13. VisitsAre(m, longer, b, k)
  BY ONLY <1>7, <1>8, <1>9, <1>10, <1>11, <1>12 DEF VisitsAre
<1> QED BY <1>6, <1>13

(* A visit ends, and what it returns is one value more for the one around  *)
(* it.                                                                     *)
LEMMA GivenKeeps ==
  ASSUME NEW m, TypedTree(m), NEW stack, NEW b, NEW k, VisitsAre(m, stack, b, k),
         NEW top, top = Last(stack), top.node.op # "MethodNode",
         NEW c, NEW j, Later(b, k, c, j),
         NEW value \in ValuesIn(m), Usable(value, top.node.type, c, j)
  PROVE  VisitsAre(m, Given(stack, value), c, j)
<1> DEFINE n == Len(stack)
<1>0. n \in Nat /\ n > 1 /\ top = stack[n]
  BY TopIs
<1>1. stack \in Seq(Visits(m))
  BY DEF VisitsAre, Visits
<1>2. PICK p \in Nat : p = n - 1
  BY <1>0
<1>3. p \in 1 .. n /\ p > 0 /\ p + 1 = n /\ n \in 2 .. n
  BY <1>0, <1>2
<1>4. PICK front : front = Front(stack)
  OBVIOUS
<1>5. front \in Seq(Visits(m)) /\ Len(front) = p /\ \A i \in 1 .. p : front[i] = stack[i]
  BY ONLY <1>0, <1>1, <1>2, <1>3, <1>4 DEF Front
<1>6. PICK around : around = stack[p]
  OBVIOUS
<1>7. /\ around \in Visits(m) /\ around.returned \in Seq(ValuesIn(m))
      /\ around.node \in {m} \cup m.nodes
  <2>1. around \in Visits(m)
    BY ONLY <1>1, <1>3, <1>6
  <2> QED BY ONLY <2>1 DEF Visits
<1>8. /\ Len(around.returned) < Len(around.node.kids)
      /\ top.node = around.node.kids[Len(around.returned) + 1]
  <2>1. n - 1 = p
    BY <1>3
  <2> QED BY <1>0, <1>3, <1>6, <2>1 DEF VisitsAre
<1>9. Len(around.returned) \in Nat /\ Len(around.node.kids) \in Nat
  BY <1>7 DEF TypedTree
<1>10. PICK given : given = [around EXCEPT !.returned = Append(@, value)]
  OBVIOUS
<1>11. /\ given \in Visits(m) /\ given.node = around.node
       /\ given.returned = Append(around.returned, value)
  BY ONLY <1>7, <1>10, value \in ValuesIn(m) DEF Visits
<1>12. PICK shorter : shorter = Given(stack, value)
  OBVIOUS
<1>13. shorter = [front EXCEPT ![p] = given]
  <2>1. Len(stack) - 1 = p
    BY <1>2
  <2>2. shorter = [front EXCEPT ![p].returned = Append(@, value)]
    BY ONLY <1>4, <1>12, <2>1 DEF Given
  <2>3. front[p] = around
    BY <1>3, <1>5, <1>6
  <2> QED BY ONLY <1>10, <2>2, <2>3
<1>14. /\ shorter \in Seq(Visits(m)) /\ Len(shorter) = p /\ shorter[p] = given
       /\ \A i \in 1 .. p : i # p => shorter[i] = stack[i]
  BY ONLY <1>3, <1>5, <1>11, <1>13
<1> HIDE DEF n
<1>15. shorter[1].node = m
  <2>1. stack[1].node = m
    BY DEF VisitsAre
  <2>2. CASE p = 1
    BY <1>6, <1>11, <1>14, <2>1, <2>2
  <2>3. CASE p # 1
    <3>1. 1 \in 1 .. p
      BY <1>3
    <3> QED BY <1>14, <2>1, <2>3, <3>1
  <2> QED BY <2>2, <2>3
<1>16. ASSUME NEW i \in 2 .. p
       PROVE  LET before == shorter[i - 1]
              IN /\ Len(before.returned) < Len(before.node.kids)
                 /\ shorter[i].node = before.node.kids[Len(before.returned) + 1]
  <2>1. i \in 2 .. n /\ i - 1 \in 1 .. p /\ i - 1 # p /\ i \in 1 .. p
    BY <1>0, <1>3
  <2>2. shorter[i - 1] = stack[i - 1]
    BY <1>14, <2>1
  <2>3. shorter[i].node = stack[i].node
    BY <1>6, <1>11, <1>14, <2>1
  <2> QED BY <2>1, <2>2, <2>3 DEF VisitsAre, n
<1>17. ASSUME NEW i \in 1 .. n, NEW a \in 1 .. Len(stack[i].returned)
       PROVE  Usable(stack[i].returned[a], stack[i].node.kids[a].type, c, j)
  <2>1. Usable(stack[i].returned[a], stack[i].node.kids[a].type, b, k)
    BY DEF VisitsAre, n
  <2> QED BY <2>1, ReadyLater DEF Usable
<1>18. ASSUME NEW i \in 1 .. p
       PROVE  /\ Len(shorter[i].returned) <= Len(shorter[i].node.kids)
              /\ \A a \in 1 .. Len(shorter[i].returned) :
                   Usable(shorter[i].returned[a], shorter[i].node.kids[a].type, c, j)
  <2>0. i \in 1 .. n
    BY <1>3
  <2>1. CASE i = p
    <3>1. /\ shorter[i].returned = Append(around.returned, value)
          /\ shorter[i].node = around.node
      BY <1>11, <1>14, <2>1
    <3> DEFINE size == Len(around.returned)
    <3>2. /\ Len(shorter[i].returned) = size + 1
          /\ shorter[i].returned[size + 1] = value
          /\ \A a \in 1 .. size : shorter[i].returned[a] = around.returned[a]
      BY <1>7, <3>1
    <3> HIDE DEF size
    <3>3. size + 1 <= Len(around.node.kids)
      BY <1>8, <1>9 DEF size
    <3>4. ASSUME NEW a \in 1 .. size + 1
          PROVE  Usable(shorter[i].returned[a], around.node.kids[a].type, c, j)
      <4>1. CASE a = size + 1
        BY <1>8, <3>2, <4>1 DEF size
      <4>2. CASE a # size + 1
        <5>1. a \in 1 .. size
          BY <1>9, <4>2 DEF size
        <5> QED BY <1>6, <1>17, <2>0, <2>1, <3>2, <5>1 DEF size
      <4> QED BY <4>1, <4>2
    <3> QED BY <3>1, <3>2, <3>3, <3>4
  <2>2. CASE i # p
    <3>1. shorter[i] = stack[i]
      BY <1>14, <2>2
    <3>2. Len(stack[i].returned) <= Len(stack[i].node.kids)
      BY <2>0 DEF VisitsAre, n
    <3> QED BY <1>17, <2>0, <3>1, <3>2
  <2> QED BY <2>1, <2>2
<1>19. shorter \in Seq([node : {m} \cup m.nodes, returned : Seq(ValuesIn(m))])
  BY <1>14 DEF Visits
<1>20. Len(shorter) > 0
  BY <1>3, <1>14
<1>21. VisitsAre(m, shorter, c, j)
  BY ONLY <1>14, <1>15, <1>16, <1>18, <1>19, <1>20 DEF VisitsAre
<1> QED BY <1>12, <1>21

(* What the trees are made of goes into the instructions.                  *)
LEMMA InstructionIs ==
  ASSUME NEW m, NEW op \in OpsIn, NEW type \in TypesIn(m),
         NEW args \in Seq(ValuesIn(m)), NEW via \in Seq(ViasIn(m))
  PROVE  Instruction(op, type, args, via) \in InstructionsIn(m)
BY DEF Instruction, InstructionsIn

LEMMA ValuesAre ==
  ASSUME NEW m
  PROVE  /\ \A type \in TypesIn(m) : \A b, j \in Nat : Computed(type, b, j) \in ValuesIn(m)
         /\ \A type \in TypesIn(m) : \A v \in Int : Const(type, v) \in ValuesIn(m)
         /\ \A node \in m.nodes :
              node.type \in TypesIn(m) /\ Const(node.type, node.value) \in ValuesIn(m)
         /\ {Int32, Bool, String, Unit, m.class} \subseteq TypesIn(m)
         /\ Value("self", m.class, 0) \in ValuesIn(m)
<1>1. /\ {Int32, Bool, String, Unit, m.class} \subseteq TypesIn(m)
      /\ \A node \in m.nodes : node.type \in TypesIn(m)
  BY DEF TypesIn
<1>2. \A type \in TypesIn(m) : \A b, j \in Nat : Computed(type, b, j) \in ValuesIn(m)
  BY DEF Computed, Value, ValuesIn
<1>3. \A type \in TypesIn(m) : \A v \in Int : Const(type, v) \in ValuesIn(m)
  BY DEF Const, Value, ValuesIn
<1>4. \A node \in m.nodes : Const(node.type, node.value) \in ValuesIn(m)
  BY <1>1 DEF Const, Value, ValuesIn
<1>5. Value("self", m.class, 0) \in ValuesIn(m)
  BY <1>1 DEF Value, ValuesIn
<1> QED BY <1>1, <1>2, <1>3, <1>4, <1>5

(* The state while a body is visited.                                      *)
Emitting ==
  /\ TypedTree(method) /\ Exact /\ outcome = "emitting"
  /\ blocks \in Seq(Seq(InstructionsIn(method))) /\ block = Len(blocks)
  /\ BlocksAre(blocks, method.type, FALSE)
  /\ globals \in Seq(StringsIn(method))
  /\ VisitsAre(method, visits, block, Len(blocks[block]) + 1)

LEMMA EmittingIs == CodeInv /\ Exact /\ outcome = "emitting" => Emitting
<1> SUFFICES ASSUME CodeInv, Exact, outcome = "emitting" PROVE Emitting
  OBVIOUS
<1>1. TypedTree(method)
  BY BodiesAssumption DEF CodeInv
<1>2. (outcome = "emitted") = FALSE
  OBVIOUS
<1> QED BY <1>1, <1>2 DEF CodeInv, Sound, Emitting

LEMMA PlaceIs ==
  ASSUME Emitting
  PROVE  /\ block \in Nat /\ block > 0 /\ block = Len(blocks) /\ IsLine(block)
         /\ ~ IsBody(block)
         /\ Len(blocks[block]) \in Nat
         /\ blocks[block] \in Seq(InstructionsIn(method))
BY LastIsLine DEF Emitting

(* The node whose visit ends, and what its children have returned.         *)
LEMMA NodeIs ==
  ASSUME Emitting, Complete
  PROVE  /\ Node \in {method} \cup method.nodes /\ Node.kids \in Seq(method.nodes)
         /\ Args \in Seq(ValuesIn(method))
         /\ Len(Args) \in Nat /\ Len(Node.kids) \in Nat
         /\ Node.op \notin Stubs /\ Len(Args) = Len(Node.kids)
         /\ \A c \in 1 .. Len(Args) :
              /\ Usable(Args[c], Node.kids[c].type, block, Len(blocks[block]) + 1)
              /\ Args[c] # Null
         /\ Null \notin Range(Args)
<1>1. TypedTree(method) /\ VisitsAre(method, visits, block, Len(blocks[block]) + 1)
  BY DEF Emitting
<1>2. PICK top : top = Last(visits)
  OBVIOUS
<1>3. Node = top.node /\ Args = top.returned
  BY <1>2 DEF Node, Args
<1>4. /\ Node \in {method} \cup method.nodes
      /\ Args \in Seq(ValuesIn(method)) /\ Len(Args) \in Nat
      /\ Node.kids \in Seq(method.nodes) /\ Len(Node.kids) \in Nat
      /\ \A c \in 1 .. Len(Args) :
           Usable(Args[c], Node.kids[c].type, block, Len(blocks[block]) + 1)
  BY <1>1, <1>2, <1>3, TopIs
<1>5. Node.op \notin Stubs
  <2>1. method.op \notin Stubs
    BY <1>1 DEF TypedTree, Stubs
  <2>2. Having(Stubs) = {}
    BY DEF Emitting, Exact, NothingMissing
  <2> QED BY <1>4, <2>1, <2>2 DEF Having
<1>6. Len(Args) = Len(Node.kids)
  BY <1>5 DEF Complete
<1>7. \A c \in 1 .. Len(Args) : Args[c] # Null
  <2>1. Null.is = "null"
    BY DEF Null, Value
  <2> QED BY <1>4, <2>1 DEF Usable, Ready
<1>8. Null \notin Range(Args)
  BY <1>4, <1>7 DEF Range
<1> QED BY <1>4, <1>5, <1>6, <1>7, <1>8

(* A node below the method's has the types of a typed tree.                *)
LEMMA BelowIs ==
  ASSUME Emitting, Node.op # "MethodNode"
  PROVE  Node \in method.nodes /\ WellTyped(Node, method.class)
<1>1. TypedTree(method) /\ VisitsAre(method, visits, block, Len(blocks[block]) + 1)
  BY DEF Emitting
<1>2. Node \in method.nodes
  BY <1>1, TopIs DEF Node
<1> QED BY <1>1, <1>2 DEF TypedTree

(* The types of an instruction on what the children have returned are      *)
(* theirs.                                                                 *)
LEMMA ArgTypes ==
  ASSUME Emitting, Complete, NEW ins, ins.args = Args
  PROVE  Types(ins) = KidTypes(Node)
<1>1. DOMAIN Args = 1 .. Len(Args) /\ DOMAIN Node.kids = 1 .. Len(Node.kids)
      /\ Len(Args) = Len(Node.kids)
  BY NodeIs
<1>2. \A c \in 1 .. Len(Args) : Args[c].type = Node.kids[c].type
  BY NodeIs DEF Usable
<1> QED BY <1>1, <1>2 DEF Types, KidTypes

(* A visit that inserts nothing.                                           *)
LEMMA GivesOnly ==
  ASSUME Emitting, Node.op # "MethodNode",
         NEW value \in ValuesIn(method),
         Usable(value, Node.type, block, Len(blocks[block]) + 1),
         Give(value), globals' \in Seq(StringsIn(method)),
         UNCHANGED <<method, blocks, block, outcome>>
  PROVE  Sound'
<1> DEFINE k == Len(blocks[block]) + 1
<1>1. block \in Nat /\ k \in Nat
  BY PlaceIs
<1>2. Later(block, k, block, k)
  BY <1>1 DEF Later
<1>3. VisitsAre(method, Given(visits, value), block, k)
  BY <1>2, GivenKeeps DEF Emitting, Node
<1>4. visits' = Given(visits, value)
  BY DEF Give
<1>5. VisitsAre(method', visits', block', Len(blocks'[block']) + 1)
  BY <1>3, <1>4
<1> QED BY <1>5 DEF Sound, Emitting

(* A visit that inserts an instruction and returns what it computes.       *)
LEMMA InsertsOne ==
  ASSUME Emitting, Node.op # "MethodNode", Node.type # Unit, Node.type \in TypesIn(method),
         NEW op, NEW args, NEW via, NEW ins,
         ins = Instruction(op, Node.type, args, via), ins \in InstructionsIn(method),
         Inner(ins, method.type, block, Len(blocks[block]) + 1),
         Insert(op, Node.type, args, via)
  PROVE  Sound'
<1> DEFINE k == Len(blocks[block]) + 1
<1>0. /\ block \in Nat /\ block > 0 /\ block = Len(blocks) /\ ~ IsBody(block)
      /\ Len(blocks[block]) \in Nat /\ k \in Nat
  BY PlaceIs
<1>1. /\ blocks' = AddTo(blocks, ins)
      /\ visits' = Given(visits, Computed(Node.type, block, k))
      /\ UNCHANGED <<method, block, globals, outcome>>
  BY <1>0 DEF Insert, AddTo, Give
<1>2. /\ blocks' \in Seq(Seq(InstructionsIn(method))) /\ Len(blocks') = Len(blocks)
      /\ blocks'[block] = Append(blocks[block], ins)
  <2>1. blocks \in Seq(Seq(InstructionsIn(method))) /\ Len(blocks) > 0
    BY <1>0 DEF Emitting
  <2>2. PICK longer : longer = AddTo(blocks, ins)
    OBVIOUS
  <2>3. /\ longer \in Seq(Seq(InstructionsIn(method))) /\ Len(longer) = Len(blocks)
        /\ longer[Len(blocks)] = Append(blocks[Len(blocks)], ins)
    BY ONLY <2>1, <2>2, ins \in InstructionsIn(method), AddedTo
  <2> QED BY ONLY <1>0, <1>1, <2>2, <2>3
<1>3. BlocksAre(blocks', method.type, FALSE)
  BY <1>0, <1>1, InsertKeeps DEF Emitting
<1>4. Len(blocks'[block]) = k
  BY <1>2, PlaceIs
<1>5. Usable(Computed(Node.type, block, k), Node.type, block, k + 1)
  BY <1>0, ComputedIsReady
<1>6. Computed(Node.type, block, k) \in ValuesIn(method)
  BY <1>0, ValuesAre
<1>7. Later(block, k, block, k + 1)
  BY <1>0 DEF Later
<1>8. VisitsAre(method, Given(visits, Computed(Node.type, block, k)), block, k + 1)
  BY <1>5, <1>6, <1>7, GivenKeeps DEF Emitting, Node
<1>9. VisitsAre(method', visits', block', Len(blocks'[block']) + 1)
  BY <1>1, <1>4, <1>8
<1>10. (outcome' = "emitted") = FALSE /\ outcome' = "emitting"
  BY <1>1 DEF Emitting
<1> QED BY <1>0, <1>1, <1>2, <1>3, <1>9, <1>10 DEF Sound, Emitting

(* What the types of the tree say of each kind of node.                    *)
LEMMA NamesAre ==
  /\ DOMAIN Arithmetic = {"Plus", "Minus", "Times", "Divide"}
  /\ DOMAIN Comparison = {"Lower", "LowerEqual"}
  /\ Arithmetic["Plus"] = "add" /\ Arithmetic["Minus"] = "sub"
  /\ Arithmetic["Times"] = "mul" /\ Arithmetic["Divide"] = "sdiv"
  /\ Comparison["Lower"] = "slt" /\ Comparison["LowerEqual"] = "sle"
BY DEF Arithmetic, Comparison

LEMMA TypesAre ==
  ASSUME NEW node, NEW class, WellTyped(node, class)
  PROVE  /\ node.op = "IntegerLiteralExpr" => node.type = Int32
         /\ node.op = "BoolLiteralExpr" => node.type = Bool
         /\ node.op = "StringLiteralExpr" => node.type = String
         /\ node.op = "SelfExpr" => node.type = class
         /\ node.op = "NewExpr" => node.type # Unit
         /\ node.op = "BlockExpr" => (node.kids # <<>> => node.type = Last(node.kids).type)
         /\ node.op \in {"Plus", "Minus", "Times", "Divide", "Power"} =>
              node.type = Int32 /\ KidTypes(node) = <<Int32, Int32>>
         /\ node.op \in {"Lower", "LowerEqual"} =>
              node.type = Bool /\ KidTypes(node) = <<Int32, Int32>>
         /\ node.op = "And" => node.type = Bool /\ KidTypes(node) = <<Bool, Bool>>
         /\ node.op = "Equal" => node.type = Bool /\ Len(node.kids) = 2
         /\ node.op = "CallExpr" => FitsCall(node, Signatures[Callee(node)])
         /\ node.op # "MethodNode"
<1>1. /\ DOMAIN Arithmetic = {"Plus", "Minus", "Times", "Divide"}
      /\ DOMAIN Comparison = {"Lower", "LowerEqual"}
  BY NamesAre
<1> QED BY ONLY WellTyped(node, class), <1>1 DEF WellTyped, Stubs

LEMMA TypesDiffer == Int32 # Unit /\ Bool # Unit /\ String # Unit
BY DEF Int32, Bool, String, Unit

(* One lemma for each action: what it leads to is sound.                   *)
LEMMA AcceptIsSound == Emitting /\ Accept => Sound'
<1> SUFFICES ASSUME Emitting, Accept PROVE Sound'
  OBVIOUS
<1>1. TypedTree(method) /\ VisitsAre(method, visits, block, Len(blocks[block]) + 1)
  BY DEF Emitting
<1>2. Len(Args) # Len(Node.kids)
  BY DEF Accept, Complete
<1>3. VisitsAre(method, Append(visits, Visit(Node.kids[Len(Args) + 1])),
                block, Len(blocks[block]) + 1)
  BY <1>1, <1>2, AcceptKeeps DEF Node, Args
<1>4. /\ visits' = Append(visits, Visit(Node.kids[Len(Args) + 1]))
      /\ UNCHANGED <<method, blocks, block, globals, outcome>>
  BY DEF Accept
<1>5. VisitsAre(method', visits', block', Len(blocks'[block']) + 1)
  BY <1>3, <1>4
<1>6. (outcome' = "emitted") = FALSE /\ outcome' = "emitting"
  BY <1>4 DEF Emitting
<1> QED BY <1>4, <1>5, <1>6 DEF Sound, Emitting

LEMMA LiteralIsSound == Emitting /\ VisitLiteral => Sound'
<1> SUFFICES ASSUME Emitting, VisitLiteral PROVE Sound'
  OBVIOUS
<1>1. Node.op \in {"IntegerLiteralExpr", "BoolLiteralExpr"} /\ Complete
  BY DEF VisitLiteral, Visiting
<1>2. Node \in method.nodes /\ WellTyped(Node, method.class)
  BY <1>1, BelowIs
<1>3. Node.type # Unit
  BY <1>1, <1>2, TypesAre, TypesDiffer
<1>4. Const(Node.type, Node.value) \in ValuesIn(method)
  BY <1>2, ValuesAre
<1>5. Usable(Const(Node.type, Node.value), Node.type, block, Len(blocks[block]) + 1)
  BY <1>3, ConstIsReady
<1>6. /\ Give(Const(Node.type, Node.value))
      /\ UNCHANGED <<method, blocks, block, globals, outcome>>
  BY DEF VisitLiteral, GiveOnly
<1>7. globals' \in Seq(StringsIn(method))
  BY <1>6 DEF Emitting
<1> QED BY <1>1, <1>4, <1>5, <1>6, <1>7, GivesOnly

LEMMA StringIsSound == Emitting /\ VisitString => Sound'
<1> SUFFICES ASSUME Emitting, VisitString PROVE Sound'
  OBVIOUS
<1>1. Node.op = "StringLiteralExpr" /\ Complete
  BY DEF VisitString, Visiting
<1>2. Node \in method.nodes /\ WellTyped(Node, method.class)
  BY <1>1, BelowIs
<1>3. Node.type = String
  BY <1>1, <1>2, TypesAre
<1>4. globals \in Seq(StringsIn(method)) /\ Len(globals) + 1 \in Int
  BY DEF Emitting
<1>5. Const(String, Len(globals) + 1) \in ValuesIn(method)
  BY <1>4, ValuesAre
<1>6. Usable(Const(String, Len(globals) + 1), Node.type, block, Len(blocks[block]) + 1)
  BY <1>3, TypesDiffer, ConstIsReady
<1>7. /\ Give(Const(String, Len(globals) + 1))
      /\ globals' = Append(globals, Decode(TokenOf(Node.value)))
      /\ UNCHANGED <<method, blocks, block, outcome>>
  BY DEF VisitString
<1>8. Decode(TokenOf(Node.value)) \in StringsIn(method)
  BY <1>2 DEF StringsIn
<1>9. globals' \in Seq(StringsIn(method))
  BY <1>4, <1>7, <1>8
<1> QED BY <1>1, <1>5, <1>6, <1>7, <1>9, GivesOnly

LEMMA SelfIsSound == Emitting /\ VisitSelf => Sound'
<1> SUFFICES ASSUME Emitting, VisitSelf PROVE Sound'
  OBVIOUS
<1>1. Node.op = "SelfExpr" /\ Complete
  BY DEF VisitSelf, Visiting
<1>2. Node \in method.nodes /\ WellTyped(Node, method.class)
  BY <1>1, BelowIs
<1>3. Node.type = method.class /\ method.class # Unit
  BY <1>1, <1>2, TypesAre DEF Emitting, TypedTree
<1>4. Value("self", method.class, 0) \in ValuesIn(method)
  BY ValuesAre
<1>5. Usable(Value("self", method.class, 0), Node.type, block, Len(blocks[block]) + 1)
  BY <1>3 DEF Usable, Ready, Value
<1>6. /\ Give(Value("self", method.class, 0))
      /\ UNCHANGED <<method, blocks, block, globals, outcome>>
  BY DEF VisitSelf, GiveOnly
<1>7. globals' \in Seq(StringsIn(method))
  BY <1>6 DEF Emitting
<1> QED BY <1>1, <1>4, <1>5, <1>6, <1>7, GivesOnly

LEMMA StubIsSound == Emitting /\ VisitStub => Sound'
BY NodeIs DEF VisitStub, Visiting

LEMMA BlockIsSound == Emitting /\ VisitBlock => Sound'
<1> SUFFICES ASSUME Emitting, VisitBlock PROVE Sound'
  OBVIOUS
<1>1. Node.op = "BlockExpr" /\ Complete
  BY DEF VisitBlock, Visiting
<1>2. Node \in method.nodes /\ WellTyped(Node, method.class)
  BY <1>1, BelowIs
<1>3. Node.kids # <<>>
  BY <1>1, <1>2 DEF Emitting, Exact, NothingMissing, Having
<1>4. Node.type = Last(Node.kids).type
  BY <1>1, <1>2, <1>3, TypesAre
<1>5. /\ Args \in Seq(ValuesIn(method)) /\ Node.kids \in Seq(method.nodes)
      /\ Len(Args) \in Nat /\ Len(Args) = Len(Node.kids)
      /\ \A c \in 1 .. Len(Args) :
           Usable(Args[c], Node.kids[c].type, block, Len(blocks[block]) + 1)
  BY <1>1, NodeIs
<1>6. Len(Args) \in 1 .. Len(Args)
  BY <1>3, <1>5
<1>7. Last(Args) = Args[Len(Args)] /\ Last(Node.kids) = Node.kids[Len(Args)]
  BY <1>5 DEF Last
<1>8. Usable(Last(Args), Node.type, block, Len(blocks[block]) + 1)
  BY <1>4, <1>5, <1>6, <1>7
<1>9. Last(Args) \in ValuesIn(method)
  BY <1>5, <1>6, <1>7
<1>10. /\ Give(Last(Args))
       /\ UNCHANGED <<method, blocks, block, globals, outcome>>
  BY <1>3 DEF VisitBlock, GiveOnly
<1>11. globals' \in Seq(StringsIn(method))
  BY <1>10 DEF Emitting
<1> QED BY <1>1, <1>8, <1>9, <1>10, <1>11, GivesOnly

LEMMA NewIsSound == Emitting /\ VisitNew => Sound'
<1> SUFFICES ASSUME Emitting, VisitNew PROVE Sound'
  OBVIOUS
<1>1. Node.op = "NewExpr" /\ Complete
  BY DEF VisitNew, Visiting
<1>2. Node \in method.nodes /\ WellTyped(Node, method.class)
  BY <1>1, BelowIs
<1>3. Node.type # Unit /\ Node.type \in TypesIn(method)
  BY <1>1, <1>2, TypesAre, ValuesAre
<1>4. PICK ins : ins = Instruction("new", Node.type, <<>>, <<>>)
  OBVIOUS
<1>5. ins \in InstructionsIn(method)
  <2>1. <<>> \in Seq(ValuesIn(method)) /\ <<>> \in Seq(ViasIn(method)) /\ "new" \in OpsIn
    BY DEF OpsIn
  <2> QED BY <1>3, <1>4, <2>1, InstructionIs
<1>6. Inner(ins, method.type, block, Len(blocks[block]) + 1)
  <2>1. ins.op = "new" /\ ins.args = <<>>
    BY <1>4 DEF Instruction
  <2>2. TypesFit(ins, method.type)
    BY ONLY <2>1 DEF TypesFit
  <2> QED BY <2>1, <2>2 DEF Inner, Fits
<1>7. Insert("new", Node.type, <<>>, <<>>)
  BY DEF VisitNew
<1> QED BY <1>1, <1>3, <1>4, <1>5, <1>6, <1>7, InsertsOne

(* An instruction on what the children have returned.                      *)
LEMMA OnArgs ==
  ASSUME Emitting, Complete, Node.op # "MethodNode", Node.type # Unit,
         NEW op \in OpsIn, op \notin {"br", "condbr", "ret", "phi"},
         NEW via \in Seq(ViasIn(method)), Insert(op, Node.type, Args, via),
         TypesFit(Instruction(op, Node.type, Args, via), method.type)
  PROVE  Sound'
<1>1. Node.type \in TypesIn(method)
  BY BelowIs, ValuesAre
<1>2. Args \in Seq(ValuesIn(method))
  BY NodeIs
<1>3. PICK ins : ins = Instruction(op, Node.type, Args, via)
  OBVIOUS
<1>4. ins \in InstructionsIn(method)
  BY <1>1, <1>2, <1>3, InstructionIs
<1>5. ins.op = op /\ ins.args = Args
  BY <1>3 DEF Instruction
<1>6. \A j \in DOMAIN Args : Ready(Args[j], block, Len(blocks[block]) + 1)
  BY NodeIs DEF Usable
<1>7. Inner(ins, method.type, block, Len(blocks[block]) + 1)
  BY <1>3, <1>5, <1>6 DEF Inner, Fits
<1> QED BY <1>1, <1>3, <1>4, <1>7, InsertsOne

LEMMA BinaryIsSound == Emitting /\ VisitBinary => Sound'
<1> SUFFICES ASSUME Emitting, VisitBinary PROVE Sound'
  OBVIOUS
<1> DEFINE op == CASE Node.op \in DOMAIN Arithmetic -> Arithmetic[Node.op]
                   [] Node.op \in DOMAIN Comparison -> Comparison[Node.op]
                   [] Node.op = "And"               -> "and"
           ins == Instruction(op, Node.type, Args, <<>>)
<1>1. /\ Node.op \in {"Plus", "Minus", "Times", "Divide", "Lower", "LowerEqual", "And"}
      /\ Complete
  BY NamesAre DEF VisitBinary, Visiting
<1>2. Node \in method.nodes /\ WellTyped(Node, method.class)
  BY <1>1, BelowIs
<1>3. Insert(op, Node.type, Args, <<>>)
  BY <1>1, NodeIs DEF VisitBinary
<1>4. op = CASE Node.op = "Plus" -> "add" [] Node.op = "Minus" -> "sub"
             [] Node.op = "Times" -> "mul" [] Node.op = "Divide" -> "sdiv"
             [] Node.op = "Lower" -> "slt" [] Node.op = "LowerEqual" -> "sle"
             [] Node.op = "And" -> "and"
  BY ONLY <1>1, NamesAre
<1>5. ins.op = op /\ ins.args = Args
  BY DEF Instruction
<1>6. Types(ins) = KidTypes(Node)
  BY <1>1, <1>5, ArgTypes
<1> HIDE DEF op, ins
<1>7. op \in OpsIn /\ op \notin {"br", "condbr", "ret", "phi"}
  BY ONLY <1>1, <1>4 DEF OpsIn
<1>8. TypesFit(ins, method.type) /\ Node.type # Unit
  <2>1. CASE Node.op = "And"
    <3>1. op = "and" /\ Node.type = Bool /\ KidTypes(Node) = <<Bool, Bool>>
      BY <1>2, <1>4, <2>1, TypesAre
    <3> QED BY <1>5, <1>6, <3>1, TypesDiffer DEF TypesFit
  <2>2. CASE Node.op # "And"
    <3>1. op \in {"add", "sub", "mul", "sdiv", "slt", "sle"}
      BY ONLY <1>1, <1>4, <2>2
    <3>2. Node.type \in {Int32, Bool} /\ KidTypes(Node) = <<Int32, Int32>>
      BY <1>1, <1>2, <2>2, TypesAre
    <3>3. Types(ins) = <<Int32, Int32>>
      BY <1>6, <3>2
    <3> QED BY <1>5, <3>1, <3>2, <3>3, TypesDiffer DEF TypesFit
  <2> QED BY <2>1, <2>2
<1>9. <<>> \in Seq(ViasIn(method))
  OBVIOUS
<1> QED BY <1>1, <1>3, <1>7, <1>8, <1>9, OnArgs DEF ins

LEMMA EqualIsSound == Emitting /\ VisitEqual => Sound'
<1> SUFFICES ASSUME Emitting, VisitEqual PROVE Sound'
  OBVIOUS
<1> DEFINE ins == Instruction("eq", Bool, Args, <<>>)
<1>1. Node.op = "Equal" /\ Complete
  BY DEF VisitEqual, Visiting
<1>2. Node \in method.nodes /\ WellTyped(Node, method.class)
  BY <1>1, BelowIs
<1>3. Node.type = Bool /\ Len(Node.kids) = 2
  BY <1>1, <1>2, TypesAre
<1>4. /\ Usable(Args[1], Node.kids[1].type, block, Len(blocks[block]) + 1)
      /\ Usable(Args[2], Node.kids[2].type, block, Len(blocks[block]) + 1)
  BY <1>1, <1>3, NodeIs
<1>5. Node.kids[1].type # Unit
  BY <1>4 DEF Usable
<1>6. Node.kids[1].type = Node.kids[2].type
  BY <1>1, <1>2 DEF Emitting, Exact, TypesExact, Having
<1>7. Insert("eq", Node.type, Args, <<>>)
  BY <1>1, <1>3, <1>5, NodeIs DEF VisitEqual
<1>8. TypesFit(ins, method.type)
  <2>1. ins.op = "eq" /\ ins.args = Args
    BY DEF Instruction
  <2>2. Args[1].type = Args[2].type
    BY <1>4, <1>6 DEF Usable
  <2> HIDE DEF ins
  <2> QED BY <2>1, <2>2 DEF TypesFit
<1>9. "eq" \in OpsIn /\ <<>> \in Seq(ViasIn(method)) /\ Node.type # Unit
  BY <1>3, TypesDiffer DEF OpsIn
<1> QED BY <1>1, <1>3, <1>7, <1>8, <1>9, OnArgs

LEMMA CallIsSound == Emitting /\ VisitCall => Sound'
<1> SUFFICES ASSUME Emitting, VisitCall PROVE Sound'
  OBVIOUS
<1>0. PICK formals, ret : formals = Signatures[Callee(Node)].formals
                          /\ ret = Signatures[Callee(Node)].ret
  OBVIOUS
<1>1. Node.op = "CallExpr" /\ Complete
  BY DEF VisitCall, Visiting
<1>2. Node \in method.nodes /\ WellTyped(Node, method.class)
  BY <1>1, BelowIs
<1>3. /\ formals \in Seq(Range(formals)) /\ Len(Node.kids) = Len(formals) + 1
      /\ Node.type = ret
  BY <1>0, <1>1, <1>2, TypesAre DEF FitsCall
<1>4. ret # Unit
  BY <1>0, <1>1, <1>2 DEF Emitting, Exact, UnitsUnused, Having
<1>5. \A k \in 2 .. Len(Node.kids) : Node.kids[k].type = formals[k - 1]
  BY <1>0, <1>1, <1>2 DEF Emitting, Exact, TypesExact, Having
<1>6. Insert("call", Node.type, Args, Callee(Node))
  BY <1>0, <1>1, <1>3, NodeIs DEF VisitCall
<1>7. PICK ins : ins = Instruction("call", Node.type, Args, Callee(Node))
  OBVIOUS
<1>8. ins.op = "call" /\ ins.type = ret /\ ins.args = Args /\ ins.via = Callee(Node)
  BY <1>3, <1>7 DEF Instruction
<1>9. Tail(Types(ins)) = formals
  <2>1. Types(ins) = KidTypes(Node)
    BY <1>1, <1>8, ArgTypes
  <2>2. PICK n \in Nat : n = Len(formals)
    BY <1>3
  <2>3. Node.kids \in Seq(method.nodes) /\ Len(Node.kids) = n + 1
    BY <1>1, <1>3, <2>2, NodeIs
  <2>4. PICK types : types = KidTypes(Node)
    OBVIOUS
  <2>5. types = [k \in 1 .. n + 1 |-> Node.kids[k].type]
    BY <2>3, <2>4 DEF KidTypes
  <2>6. types \in Seq({Node.kids[k].type : k \in 1 .. n + 1}) /\ Len(types) = n + 1
    BY ONLY <2>2, <2>5
  <2>7. Tail(types) = [k \in 1 .. n |-> types[k + 1]]
    <3>1. PICK S : types \in Seq(S)
      BY <2>6
    <3>2. types # <<>>
      BY ONLY <2>2, <2>6
    <3>3. /\ Tail(types) \in Seq(S) /\ Len(Tail(types)) = Len(types) - 1
          /\ \A i \in 1 .. Len(Tail(types)) : Tail(types)[i] = types[i + 1]
      BY ONLY <3>1, <3>2, HeadTailProperties
    <3>4. Len(Tail(types)) = n
      BY ONLY <2>2, <2>6, <3>3
    <3>5. \A k \in 1 .. n : Tail(types)[k] = types[k + 1]
      BY ONLY <3>3, <3>4
    <3>6. PICK rest : rest = Tail(types)
      OBVIOUS
    <3>7. rest = [k \in 1 .. n |-> rest[k]]
      <4>1. rest \in Seq(S) /\ Len(rest) = n
        BY ONLY <3>3, <3>4, <3>6
      <4> QED BY ONLY <2>2, <4>1
    <3> QED BY ONLY <3>5, <3>6, <3>7
  <2>8. \A k \in 1 .. n : types[k + 1] = formals[k]
    <3> SUFFICES ASSUME NEW k \in 1 .. n PROVE types[k + 1] = formals[k]
      OBVIOUS
    <3>1. k + 1 \in 2 .. n + 1 /\ k + 1 \in 1 .. n + 1 /\ (k + 1) - 1 = k
      BY ONLY <2>2, k \in 1 .. n
    <3>2. Node.kids[k + 1].type = formals[k]
      BY <1>5, <2>3, <3>1
    <3> QED BY <2>5, <3>1, <3>2
  <2>9. formals = [k \in 1 .. n |-> formals[k]]
    BY ONLY <1>3, <2>2
  <2>10. Tail(types) = formals
    BY ONLY <2>7, <2>8, <2>9
  <2> QED BY <2>1, <2>4, <2>10
<1>10. TypesFit(ins, method.type)
  <2>1. Signatures[ins.via].formals = formals
    BY <1>0, <1>8
  <2> QED BY ONLY <1>4, <1>8, <1>9, <2>1 DEF TypesFit
<1>11. "call" \in OpsIn
  BY DEF OpsIn
<1>12. Callee(Node) \in Seq(ViasIn(method))
  <2>1. Node.kids \in Seq(method.nodes) /\ 1 \in 1 .. Len(Node.kids)
    BY <1>1, <1>3, NodeIs
  <2>2. Node.kids[1] \in method.nodes
    BY <2>1
  <2>3. Node.kids[1].type \in ViasIn(method) /\ Node.name \in ViasIn(method)
    BY <1>2, <2>2 DEF ViasIn, TypesIn
  <2> QED BY <2>3 DEF Callee
<1> QED BY <1>1, <1>3, <1>4, <1>6, <1>7, <1>10, <1>11, <1>12, OnArgs

LEMMA ReturnIsSound == Emitting /\ EmitReturn => Sound'
<1> SUFFICES ASSUME Emitting, EmitReturn PROVE Sound'
  OBVIOUS
<1> DEFINE k == Len(blocks[block]) + 1
<1>1. Node.op = "MethodNode" /\ Complete
  BY DEF EmitReturn, Visiting
<1>2. Node = method /\ TypedTree(method)
  <2>1. TypedTree(method) /\ Node \in {method} \cup method.nodes
    BY <1>1, NodeIs DEF Emitting
  <2>2. \A node \in method.nodes : node.op # "MethodNode"
    BY <2>1, TypesAre DEF TypedTree
  <2> QED BY <1>1, <2>1, <2>2
<1>3. Len(method.kids) = 1
  BY <1>2 DEF TypedTree
<1>4. /\ Args \in Seq(ValuesIn(method)) /\ Len(Args) = 1
      /\ Usable(Args[1], method.kids[1].type, block, k)
  BY <1>1, <1>2, <1>3, NodeIs
<1>5. method.type \in {Unit, method.kids[1].type}
  BY DEF Emitting, Exact, TypesExact
<1>6. PICK args : args = IF method.type = Unit THEN <<>> ELSE Args
  OBVIOUS
<1>7. PICK ins : ins = Instruction("ret", Unit, args, <<>>)
  OBVIOUS
<1>8. ins.op = "ret" /\ ins.args = args
  BY <1>7 DEF Instruction
<1>9. /\ blocks' = AddTo(blocks, ins) /\ outcome' = "emitted"
      /\ UNCHANGED <<method, visits, block, globals>>
  BY <1>6, <1>7 DEF EmitReturn, AddTo, Emitting
<1>10. ins \in InstructionsIn(method)
  <2>1. args \in Seq(ValuesIn(method))
    BY <1>4, <1>6
  <2>2. "ret" \in OpsIn /\ <<>> \in Seq(ViasIn(method)) /\ Unit \in TypesIn(method)
    BY ValuesAre DEF OpsIn
  <2> QED BY <1>7, <2>1, <2>2, InstructionIs
<1>11. Ending(ins, method.type, block, k)
  <2>1. \A j \in DOMAIN args : Ready(args[j], block, k)
    <3>1. CASE method.type = Unit
      BY <1>6, <3>1
    <3>2. CASE method.type # Unit
      BY <1>4, <1>6, <3>2 DEF Usable
    <3> QED BY <3>1, <3>2
  <2>2. method.type # Unit => Types(ins) = <<method.type>>
    <3> SUFFICES ASSUME method.type # Unit PROVE Types(ins) = <<method.type>>
      OBVIOUS
    <3>1. ins.args = Args /\ DOMAIN Args = 1 .. 1 /\ Args[1].type = method.type
      BY <1>4, <1>5, <1>6, <1>8 DEF Usable
    <3>2. Types(ins) = [i \in 1 .. 1 |-> Args[i].type]
      BY ONLY <3>1 DEF Types
    <3> QED BY ONLY <3>1, <3>2
  <2>3. TypesFit(ins, method.type)
    BY ONLY <1>8, <2>2 DEF TypesFit
  <2> QED BY ONLY <1>8, <2>1, <2>3 DEF Ending, Fits
<1>12. /\ blocks \in Seq(Seq(InstructionsIn(method))) /\ block = Len(blocks)
       /\ Len(blocks) > 0 /\ BlocksAre(blocks, method.type, FALSE)
  BY PlaceIs DEF Emitting
<1>13. BlocksAre(AddTo(blocks, ins), method.type, TRUE)
  BY ONLY <1>10, <1>11, <1>12, ReturnKeeps
<1>14. /\ AddTo(blocks, ins) \in Seq(Seq(InstructionsIn(method)))
       /\ Len(AddTo(blocks, ins)) = Len(blocks)
  BY ONLY <1>10, <1>12, AddedTo
<1>15. outcome' = "emitted" /\ (outcome' = "emitted") = TRUE /\ outcome' # "emitting"
  BY <1>9
<1>16. BlocksAre(blocks', method'.type, outcome' = "emitted")
  BY ONLY <1>9, <1>13, <1>15
<1> QED BY <1>9, <1>12, <1>14, <1>15, <1>16 DEF Sound

(* The two blocks of a power are made of what a method's blocks can be.    *)
LEMMA PowersAre ==
  ASSUME NEW m, NEW n \in Nat, NEW base \in ValuesIn(m), NEW expo \in ValuesIn(m)
  PROVE  /\ Br(n + 1) \in InstructionsIn(m)
         /\ PowCond(n, n + 1, expo) \in Seq(InstructionsIn(m))
         /\ PowBody(n + 1, base, 1) \in Seq(InstructionsIn(m))
<1>1. PICK cond : cond = n + 1
  OBVIOUS
<1>2. PICK body : body = cond + 1
  OBVIOUS
<1>3. cond \in Nat /\ body \in Nat /\ cond + 2 \in Nat
  BY <1>1, <1>2
<1>4. Nat \subseteq ViasIn(m)
  BY DEF ViasIn
<1>5. Int32 \in TypesIn(m) /\ Bool \in TypesIn(m) /\ Unit \in TypesIn(m)
  BY ValuesAre
<1>6. /\ One \in ValuesIn(m) /\ Const(Int32, 0) \in ValuesIn(m) /\ Const(Int32, 1) \in ValuesIn(m)
      /\ Computed(Int32, body, 1) \in ValuesIn(m) /\ Computed(Int32, body, 2) \in ValuesIn(m)
      /\ Computed(Int32, cond, 1) \in ValuesIn(m) /\ Computed(Int32, cond, 2) \in ValuesIn(m)
      /\ Computed(Bool, cond, 3) \in ValuesIn(m)
  BY <1>3, <1>5, ValuesAre DEF One
<1>7. {"br", "phi", "sgt", "condbr", "mul", "sub"} \subseteq OpsIn
  BY DEF OpsIn
<1>8. Br(cond) \in InstructionsIn(m)
  <2>1. <<>> \in Seq(ValuesIn(m)) /\ <<cond>> \in Seq(ViasIn(m))
    BY <1>3, <1>4
  <2> QED BY <1>5, <1>7, <2>1, InstructionIs DEF Br
<1>9. /\ Phi(Int32, <<One, Computed(Int32, body, 1)>>, <<n, body>>) \in InstructionsIn(m)
      /\ Phi(Int32, <<expo, Computed(Int32, body, 2)>>, <<n, body>>) \in InstructionsIn(m)
  <2>1. /\ <<One, Computed(Int32, body, 1)>> \in Seq(ValuesIn(m))
        /\ <<expo, Computed(Int32, body, 2)>> \in Seq(ValuesIn(m))
    BY <1>6
  <2>2. <<n, body>> \in Seq(ViasIn(m))
    BY <1>3, <1>4
  <2> QED BY <1>5, <1>7, <2>1, <2>2, InstructionIs DEF Phi
<1>10. Instruction("sgt", Bool, <<Computed(Int32, cond, 2), Const(Int32, 0)>>, <<>>)
         \in InstructionsIn(m)
  <2>1. /\ <<Computed(Int32, cond, 2), Const(Int32, 0)>> \in Seq(ValuesIn(m))
        /\ <<>> \in Seq(ViasIn(m))
    BY <1>6
  <2> QED BY <1>5, <1>7, <2>1, InstructionIs
<1>11. CondBr(Computed(Bool, cond, 3), body, cond + 2) \in InstructionsIn(m)
  <2>1. <<Computed(Bool, cond, 3)>> \in Seq(ValuesIn(m))
    BY <1>6
  <2>2. <<body, cond + 2>> \in Seq(ViasIn(m))
    BY <1>3, <1>4
  <2> QED BY <1>5, <1>7, <2>1, <2>2, InstructionIs DEF CondBr
<1>12. Instruction("mul", Int32, <<Computed(Int32, cond, 1), base>>, <<>>) \in InstructionsIn(m)
  <2>1. <<Computed(Int32, cond, 1), base>> \in Seq(ValuesIn(m)) /\ <<>> \in Seq(ViasIn(m))
    BY <1>6
  <2> QED BY <1>5, <1>7, <2>1, InstructionIs
<1>13. Instruction("sub", Int32, <<Computed(Int32, cond, 2), Const(Int32, 1)>>, <<>>)
         \in InstructionsIn(m)
  <2>1. /\ <<Computed(Int32, cond, 2), Const(Int32, 1)>> \in Seq(ValuesIn(m))
        /\ <<>> \in Seq(ViasIn(m))
    BY <1>6
  <2> QED BY <1>5, <1>7, <2>1, InstructionIs
<1>14. PowCond(n, cond, expo) \in Seq(InstructionsIn(m))
  <2>1. PowCond(n, cond, expo) =
          << Phi(Int32, <<One, Computed(Int32, body, 1)>>, <<n, body>>),
             Phi(Int32, <<expo, Computed(Int32, body, 2)>>, <<n, body>>),
             Instruction("sgt", Bool, <<Computed(Int32, cond, 2), Const(Int32, 0)>>, <<>>),
             CondBr(Computed(Bool, cond, 3), body, cond + 2) >>
    BY ONLY <1>2 DEF PowCond
  <2> QED BY ONLY <1>9, <1>10, <1>11, <2>1
<1>15. PowBody(cond, base, 1) \in Seq(InstructionsIn(m))
  BY ONLY <1>8, <1>12, <1>13 DEF PowBody
<1> QED BY <1>1, <1>8, <1>14, <1>15

LEMMA PowerIsSound == Emitting /\ VisitPower => Sound'
<1> SUFFICES ASSUME Emitting, VisitPower PROVE Sound'
  OBVIOUS
<1>1. Node.op = "Power" /\ Complete
  BY DEF VisitPower, Visiting
<1>2. Node \in method.nodes /\ WellTyped(Node, method.class)
  BY <1>1, BelowIs
<1>3. Node.type = Int32 /\ KidTypes(Node) = <<Int32, Int32>>
  BY <1>1, <1>2, TypesAre
<1>4. PICK n, k, base, expo :
        n = block /\ k = Len(blocks[block]) + 1 /\ base = Args[1] /\ expo = Args[2]
  OBVIOUS
<1>5. /\ n \in Nat /\ n > 0 /\ n = Len(blocks) /\ IsLine(n) /\ k \in Nat
      /\ blocks \in Seq(Seq(InstructionsIn(method)))
      /\ BlocksAre(blocks, method.type, FALSE)
  <2>1. n \in Nat /\ n > 0 /\ n = Len(blocks) /\ IsLine(n) /\ k \in Nat
    BY <1>4, PlaceIs
  <2> QED BY <2>1 DEF Emitting
<1>6. /\ base \in ValuesIn(method) /\ Usable(base, Int32, n, k)
      /\ expo \in ValuesIn(method) /\ Usable(expo, Int32, n, k)
  <2>1. /\ Args \in Seq(ValuesIn(method)) /\ Len(Args) = Len(Node.kids)
        /\ Node.kids \in Seq(method.nodes)
        /\ \A c \in 1 .. Len(Args) : Usable(Args[c], Node.kids[c].type, n, k)
    BY <1>1, <1>4, NodeIs
  <2>2. Len(Node.kids) = 2 /\ Node.kids[1].type = Int32 /\ Node.kids[2].type = Int32
    <3>1. DOMAIN KidTypes(Node) = 1 .. Len(Node.kids) /\ Len(Node.kids) \in Nat
      BY <2>1 DEF KidTypes
    <3>2. DOMAIN KidTypes(Node) = 1 .. 2
      BY <1>3
    <3>3. Len(Node.kids) = 2
      BY ONLY <3>1, <3>2
    <3>4. KidTypes(Node)[1] = Node.kids[1].type /\ KidTypes(Node)[2] = Node.kids[2].type
      BY <3>1, <3>3 DEF KidTypes
    <3> QED BY <1>3, <3>3, <3>4
  <2>3. 1 \in 1 .. Len(Args) /\ 2 \in 1 .. Len(Args)
    BY <2>1, <2>2
  <2> QED BY <1>4, <2>1, <2>2, <2>3
<1>7. PowerFrom(n, 1)
  BY <1>1, <1>4, NodeIs DEF VisitPower
<1>8. PICK cs : cs = AddPower(blocks, n, base, expo)
  OBVIOUS
<1>9. /\ blocks' = cs /\ block' = n + 3 /\ Give(Computed(Int32, n + 1, 1))
      /\ UNCHANGED <<method, globals, outcome>>
  <2>1. Len(blocks) + 1 = n + 1 /\ (n + 1) + 2 = n + 3 /\ block = Len(blocks)
    BY <1>4, <1>5
  <2> QED BY <1>4, <1>7, <1>8, <2>1 DEF PowerFrom, AddTo, AddPower
<1>10. /\ Br(n + 1) \in InstructionsIn(method)
       /\ PowCond(n, n + 1, expo) \in Seq(InstructionsIn(method))
       /\ PowBody(n + 1, base, 1) \in Seq(InstructionsIn(method))
  BY <1>5, <1>6, PowersAre
<1>11. /\ cs \in Seq(Seq(InstructionsIn(method))) /\ Len(cs) = n + 3 /\ cs[n + 3] = <<>>
       /\ BlocksAre(cs, method.type, FALSE)
  <2>1. Usable(base, Int32, n, Len(blocks[n]) + 1) /\ Usable(expo, Int32, n, Len(blocks[n]) + 1)
    BY <1>4, <1>6
  <2>2. PICK S, type, bs : S = InstructionsIn(method) /\ type = method.type /\ bs = blocks
    OBVIOUS
  <2>3. cs = AddPower(bs, n, base, expo)
    BY ONLY <1>8, <2>2
  <2>4. /\ Usable(base, Int32, n, Len(bs[n]) + 1) /\ Usable(expo, Int32, n, Len(bs[n]) + 1)
        /\ n = Len(bs) /\ bs \in Seq(Seq(S)) /\ BlocksAre(bs, type, FALSE)
    BY ONLY <1>5, <2>1, <2>2
  <2>5. /\ Br(n + 1) \in S /\ PowCond(n, n + 1, expo) \in Seq(S)
        /\ PowBody(n + 1, base, 1) \in Seq(S)
    BY ONLY <1>10, <2>2
  <2>6. IsPowered(AddPower(bs, n, base, expo), S, type, n)
    BY ONLY <2>4, <2>5, PowerKeeps, Zenon
  <2> QED BY ONLY <2>2, <2>3, <2>6 DEF IsPowered
<1>12. Computed(Int32, n + 1, 1) \in ValuesIn(method)
  BY <1>5, ValuesAre
<1>13. Usable(Computed(Int32, n + 1, 1), Node.type, n + 3, 1)
  <2>1. IsCond(n + 1) /\ ~ IsBody(n + 1)
    BY <1>5, InThrees
  <2>2. n + 1 \in Nat /\ n + 3 \in Nat /\ n + 1 > 0 /\ n + 1 <= n + 3 /\ n + 1 # n + 3
    BY <1>5
  <2> QED BY <1>3, <2>1, <2>2, TypesDiffer, ComputedIsReady
<1>14. Later(n, k, n + 3, 1)
  BY <1>5 DEF Later
<1>15. VisitsAre(method, Given(visits, Computed(Int32, n + 1, 1)), n + 3, 1)
  <2>1. VisitsAre(method, visits, n, k) /\ TypedTree(method)
    BY <1>4 DEF Emitting
  <2>2. PICK top : top = Last(visits)
    OBVIOUS
  <2>3. top.node = Node /\ top.node.op # "MethodNode"
    BY <1>1, <2>2 DEF Node
  <2> QED BY <1>12, <1>13, <1>14, <2>1, <2>2, <2>3, GivenKeeps
<1>16. VisitsAre(method', visits', block', Len(blocks'[block']) + 1)
  <2>1. Len(cs[n + 3]) + 1 = 1
    BY <1>11
  <2>2. visits' = Given(visits, Computed(Int32, n + 1, 1))
    BY <1>9 DEF Give
  <2> QED BY <1>9, <1>15, <2>1, <2>2
<1>17. (outcome' = "emitted") = FALSE /\ outcome' = "emitting"
  BY <1>9 DEF Emitting
<1>18. globals' \in Seq(StringsIn(method'))
  BY <1>9 DEF Emitting
<1> QED BY <1>9, <1>11, <1>16, <1>17, <1>18 DEF Sound

(* At the start.                                                           *)
LEMMA StartIsSound == ExecutionInit => CodeInv
<1> SUFFICES ASSUME ExecutionInit PROVE CodeInv
  OBVIOUS
<1>1. /\ method \in Bodies /\ visits = << Visit(method) >>
      /\ blocks = << <<>> >> /\ block = 1 /\ globals = <<>> /\ outcome = "emitting"
  BY DEF ExecutionInit, EmissionInit
<1>2. TypedTree(method)
  BY <1>1, BodiesAssumption
<1>3. blocks \in Seq(Seq(InstructionsIn(method))) /\ Len(blocks) = 1 /\ Len(blocks[1]) = 0
  <2>1. <<>> \in Seq(InstructionsIn(method))
    OBVIOUS
  <2> QED BY ONLY <1>1, <2>1
<1>4. BlocksAre(blocks, method.type, FALSE)
  <2>1. IsLine(1) /\ ~ IsCond(1) /\ ~ IsBody(1)
    BY SMT DEF IsLine, IsCond, IsBody
  <2>2. LineIs(blocks, method.type, 1, FALSE)
    <3>1. ~ (1 < Len(blocks)) /\ 1 .. Len(blocks[1]) = {}
      BY ONLY <1>3
    <3> QED BY ONLY <3>1 DEF LineIs
  <2>3. Len(blocks) % 3 = 1 /\ \A b \in 1 .. Len(blocks) : b = 1
    BY ONLY <1>3
  <2> QED BY ONLY <2>1, <2>2, <2>3 DEF BlocksAre
<1>5. VisitsAre(method, visits, 1, 1)
  <2>1. PICK first : first = Visit(method)
    OBVIOUS
  <2>2. first \in Visits(method) /\ first.node = method /\ first.returned = <<>>
    BY <2>1 DEF Visit, Visits
  <2>3. visits \in Seq(Visits(method)) /\ Len(visits) = 1 /\ visits[1] = first
    BY ONLY <1>1, <2>1, <2>2
  <2>4. Len(method.kids) = 1
    BY <1>2 DEF TypedTree
  <2>5. 2 .. Len(visits) = {} /\ \A j \in 1 .. Len(visits) : j = 1
    BY ONLY <2>3
  <2>6. Len(first.returned) = 0 /\ 1 .. Len(first.returned) = {}
    BY ONLY <2>2
  <2> QED BY ONLY <2>2, <2>3, <2>4, <2>5, <2>6 DEF VisitsAre, Visits
<1>6. Sound
  <2>1. (outcome = "emitted") = FALSE
    BY <1>1
  <2>2. Len(blocks[block]) + 1 = 1
    BY <1>1, <1>3
  <2>3. globals \in Seq(StringsIn(method))
    BY <1>1
  <2> QED BY <1>1, <1>3, <1>4, <1>5, <2>1, <2>2, <2>3 DEF Sound
<1> QED BY <1>1, <1>6 DEF CodeInv

(* No step has another method, nor changes what is excepted.               *)
LEMMA MethodStays == [ExecutionNext]_executionVars => method' = method /\ (Exact' <=> Exact)
<1> SUFFICES ASSUME [ExecutionNext]_executionVars PROVE method' = method /\ (Exact' <=> Exact)
  OBVIOUS
<1>1. method' = method
  <2>1. CASE EmissionNext
    <3>1. Accept \/ VisitLiteral \/ VisitString \/ VisitSelf \/ VisitStub \/ VisitBlock
            => method' = method
      BY DEF Accept, VisitLiteral, VisitString, VisitSelf, VisitStub, VisitBlock,
             GiveOnly, Crash
    <3>2. VisitNew \/ VisitBinary \/ VisitEqual \/ VisitCall => method' = method
      BY DEF VisitNew, VisitBinary, VisitEqual, VisitCall, GiveOnly, Crash, Insert
    <3>3. VisitPower \/ EmitReturn => method' = method
      BY DEF VisitPower, EmitReturn, PowerFrom, Crash
    <3> QED BY <2>1, <3>1, <3>2, <3>3 DEF EmissionNext
  <2>2. CASE Verify \/ Divide \/ Return
    BY <2>2 DEF Verify, Divide, Return
  <2>3. CASE Compute \/ Choose \/ Make \/ Call \/ Branch
    BY <2>3 DEF Compute, Choose, Make, Call, Branch, Store, Jump, emissionVars
  <2>4. CASE UNCHANGED executionVars
    BY <2>4 DEF executionVars, emissionVars
  <2> QED BY <2>1, <2>2, <2>3, <2>4 DEF ExecutionNext
<1>2. Exact' <=> Exact
  BY <1>1 DEF Exact, NothingMissing, UnitsUnused, TypesExact, Having
<1> QED BY <1>1, <1>2

(* The steps of the visits, all together.                                  *)
LEMMA EmissionIsSound == CodeInv /\ Exact /\ EmissionNext => Sound'
<1> SUFFICES ASSUME CodeInv, Exact, EmissionNext PROVE Sound'
  OBVIOUS
<1>1. outcome = "emitting"
  BY DEF EmissionNext, Accept, VisitLiteral, VisitString, VisitSelf, VisitStub, VisitBlock,
         VisitNew, VisitBinary, VisitEqual, VisitPower, VisitCall, EmitReturn, Visiting
<1>2. Emitting
  BY <1>1, EmittingIs
<1> QED BY <1>2, AcceptIsSound, LiteralIsSound, StringIsSound, SelfIsSound, StubIsSound,
           BlockIsSound, NewIsSound, BinaryIsSound, EqualIsSound, PowerIsSound,
           CallIsSound, ReturnIsSound
        DEF EmissionNext

(* LLVM accepts the code, and the run keeps to its outcomes.               *)
LEMMA VerifyIsSound == CodeInv /\ Exact /\ Verify => Sound'
<1> SUFFICES ASSUME CodeInv, Exact, Verify PROVE Sound'
  OBVIOUS
<1>1. Sound /\ outcome = "emitted"
  BY DEF CodeInv, Verify
<1>2. (outcome = "emitted") = TRUE
  BY <1>1
<1>3. Whole
  BY <1>1, <1>2 DEF Sound, Whole
<1>4. outcome' = "running"
  BY <1>3, WholeIsWellFormed DEF Verify
<1> QED BY <1>4 DEF Sound

LEMMA RunIsSound ==
  CodeInv /\ Exact /\ (Compute \/ Divide \/ Choose \/ Make \/ Call \/ Branch \/ Return) => Sound'
<1> SUFFICES ASSUME CodeInv, Exact,
                    Compute \/ Divide \/ Choose \/ Make \/ Call \/ Branch \/ Return
             PROVE  Sound'
  OBVIOUS
<1>1. outcome' \in {"running", "undefined", "returned"}
  BY DEF Compute, Divide, Choose, Make, Call, Branch, Return, Running, Store, Jump,
         emissionVars
<1> QED BY <1>1 DEF Sound

LEMMA StepIsSound == CodeInv /\ [ExecutionNext]_executionVars => CodeInv'
<1> SUFFICES ASSUME CodeInv, [ExecutionNext]_executionVars PROVE CodeInv'
  OBVIOUS
<1>1. method' = method /\ (Exact' <=> Exact)
  BY MethodStays
<1>2. ASSUME Exact PROVE Sound'
  <2>1. CASE EmissionNext
    BY <1>2, <2>1, EmissionIsSound
  <2>2. CASE Verify
    BY <1>2, <2>2, VerifyIsSound
  <2>3. CASE Compute \/ Divide \/ Choose \/ Make \/ Call \/ Branch \/ Return
    BY <1>2, <2>3, RunIsSound
  <2>4. CASE UNCHANGED executionVars
    <3>1. Sound
      BY <1>2 DEF CodeInv
    <3>2. UNCHANGED <<method, visits, blocks, block, globals, outcome>>
      BY <2>4 DEF executionVars, emissionVars
    <3> QED BY <3>1, <3>2 DEF Sound
  <2> QED BY <2>1, <2>2, <2>3, <2>4 DEF ExecutionNext
<1> QED BY <1>1, <1>2 DEF CodeInv

LEMMA SoundIsCompiled == CodeInv => WrittenIsCompiled
BY DEF CodeInv, Exact, Sound, WrittenIsCompiled

(* Whatever the tree of a method: if it is of written expressions, exact   *)
(* in its types, and calls nothing that returns unit, CodeGenVisitor never *)
(* meets a null pointer on it, and LLVM never rejects what it emits.       *)
THEOREM WrittenCorrect == ExecutionSpec => []WrittenIsCompiled
<1>1. ExecutionInit => CodeInv
  BY StartIsSound
<1>2. CodeInv /\ [ExecutionNext]_executionVars => CodeInv'
  BY StepIsSound
<1>3. CodeInv => WrittenIsCompiled
  BY SoundIsCompiled
<1> QED BY <1>1, <1>2, <1>3, PTL DEF ExecutionSpec
=============================================================================

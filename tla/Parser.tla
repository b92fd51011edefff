------------------------------- MODULE Parser -------------------------------
(***************************************************************************)
(* The parser Bison makes of parser.y: it shifts the tokens of a file,     *)
(* reduces by the rules of the grammar, whose actions build the tree and   *)
(* report, and at a token it cannot use looks for an error rule to go on   *)
(* with.  The skeleton (lalr1.cc) is external; rules, actions and          *)
(* precedences are parser.y's.                                             *)
(***************************************************************************)
EXTENDS Grammar, SequencesExt

CONSTANTS
  Machine,     (* the tables that Bison makes of the grammar: see Automaton  *)
  Inputs,      (* the files: sequences of tokens                             *)
  Clean        (* those among them that the manual's syntax gives            *)

(* No state completes two rules.                                           *)
ASSUME MachineAssumption ==
  \A s \in DOMAIN Machine.complete : Cardinality(Machine.complete[s]) <= 1
ASSUME CleanAssumption == Clean \subseteq Inputs

VARIABLES
  text,        (* the tokens of the file; "YYerror" is what the lexer        *)
               (* returns where it has just reported an error                *)
  at,          (* the next token                                             *)
  stack,       (* the automaton's states, the current one last               *)
  values,      (* the values of the symbols between them                     *)
  recovering,  (* yyerrstatus_: how many tokens until errors count again     *)
  reports,     (* how many errors and warnings the driver was told of        *)
  ast_root,    (* the driver's tree                                          *)
  result       (* of parse()                                                 *)

parserVars == <<text, at, stack, values, recovering, reports, ast_root, result>>

-----------------------------------------------------------------------------
(* The tree.  A leaf is a token with its place; what the actions make up   *)
(* has no place.  Parentheses around an expression leave nothing in the    *)
(* compiler's tree; here the node counts them, for the properties' sake.   *)
Made(node, kids) == [node |-> node, at |-> 0, kids |-> kids, parens |-> 0]
Leaf(token, place) == [Made(token, <<>>) EXCEPT !.at = place]
None == Made("none", <<>>)

Parts(value) == IF value.node = "list" THEN value.kids ELSE <<value>>

(* MethodNode::makeDummy: a formal and a body nobody wrote.                *)
Dummy(name) ==
  LET formal == Made("FormalNode", <<Made("DEFAULT_FORMAL", <<>>), Made("no type", <<>>)>>)
  IN Made("MethodNode", <<name, Made("list", <<formal>>), Made("no type", <<>>),
                          Made("BlockExpr", <<>>)>>)

(* The action of a rule on the values of its symbols.                      *)
Arg(vals, a) == CASE a = NoType  -> Made("no type", <<>>)
                  [] a = OwnSelf -> Made("SelfExpr", <<>>)
                  [] a > 0       -> vals[a]

Act(rule, vals) ==
  LET args == [i \in DOMAIN rule.args |-> Arg(vals, rule.args[i])]
      Members(node) == Made("list", SelectSeq(args[3].kids, LAMBDA m : m.node = node))
  IN CASE rule.make = "same"      -> args[1]
       [] rule.make = "list"      -> Made("list", FlattenSeq([i \in DOMAIN args |-> Parts(args[i])]))
       [] rule.make = "enclosed"  -> [args[1] EXCEPT !.parens = @ + 1]
       [] rule.make = "makeDummy" -> Dummy(args[1])
       [] rule.make = "ClassNode" ->
            Made("ClassNode", <<args[1], args[2], Members("FieldNode"), Members("MethodNode")>>)
       [] OTHER                   -> Made(rule.make, args)

-----------------------------------------------------------------------------
ParserInit == /\ text \in Inputs /\ at = 1
              /\ stack = <<Machine.first>> /\ values = <<>>
              /\ recovering = 0 /\ reports = [errors |-> 0, warnings |-> 0]
              /\ ast_root = None /\ result = "none"

Lookahead == IF at <= Len(text) THEN text[at] ELSE "$end"
Current == Last(stack)

(* The parser does decision next; it reads the next token for it, unless   *)
(* all it can do is reduce.                                                *)
Does(decision) == /\ result = "none"
                  /\ Lookahead # "YYerror" \/ Current \in Machine.consistent
                  /\ Machine.decision[Current][Lookahead] = decision

Accept == /\ Does("shift") /\ Lookahead = "$end"
          /\ result' = "accepted"
          /\ UNCHANGED <<text, at, stack, values, recovering, reports, ast_root>>

Shift == /\ Does("shift") /\ Lookahead # "$end"
         /\ stack' = Append(stack, Machine.goto[Current][Lookahead])
         /\ values' = Append(values, Leaf(Lookahead, at))
         /\ at' = at + 1
         /\ recovering' = IF recovering > 0 THEN recovering - 1 ELSE 0
         /\ UNCHANGED <<text, reports, ast_root, result>>

Reduce ==
  /\ Does("reduce")
  /\ LET rule == Rules[CHOOSE r \in Machine.complete[Current] : TRUE]
         kept == Len(values) - Len(rule.rhs)
         value == Act(rule, SubSeq(values, kept + 1, Len(values)))
     IN /\ stack' = Append(SubSeq(stack, 1, kept + 1), Machine.goto[stack[kept + 1]][rule.lhs])
        /\ values' = Append(SubSeq(values, 1, kept), value)
        /\ reports' = [errors   |-> reports.errors + (IF rule.report = "error" THEN 1 ELSE 0),
                       warnings |-> reports.warnings + (IF rule.report = "warning" THEN 1 ELSE 0)]
        /\ ast_root' = IF rule.lhs = "program" THEN value ELSE ast_root
  /\ UNCHANGED <<text, at, recovering, result>>

(* Go back to the last state that has an error rule open; without one the  *)
(* parser gives up, and nobody is told: Parser::error is empty.            *)
Opens == {n \in DOMAIN stack : "error" \in DOMAIN Machine.goto[stack[n]]}

Recover ==
  IF Opens = {}
  THEN result' = "aborted" /\ UNCHANGED <<stack, values>>
  ELSE LET n == Max(Opens)
       IN /\ stack' = Append(SubSeq(stack, 1, n), Machine.goto[stack[n]]["error"])
          /\ values' = Append(SubSeq(values, 1, n - 1), Leaf("error", at))
          /\ UNCHANGED result

(* Slip: the token that could not be used is never dropped.                *)
SyntaxErrorUndropped ==
  /\ Does("error")
  /\ recovering = 3 => Lookahead # "$end"
  /\ recovering' = 3
  /\ Recover
  /\ UNCHANGED <<text, at, reports, ast_root>>

(* A token that cannot be used; one that could not be used right after     *)
(* the last recovery either is dropped.                                    *)
SyntaxError ==
  /\ Does("error")
  /\ recovering = 3 => Lookahead # "$end"
  /\ at' = IF recovering = 3 THEN at + 1 ELSE at
  /\ recovering' = 3
  /\ Recover
  /\ UNCHANGED <<text, reports, ast_root>>

AbortAtEnd == /\ Does("error") /\ recovering = 3 /\ Lookahead = "$end"
              /\ result' = "aborted"
              /\ UNCHANGED <<text, at, stack, values, recovering, reports, ast_root>>

(* The lexer has reported an error: the parser recovers at once, with a    *)
(* look-ahead that no rule can use.                                        *)
LexicalError ==
  /\ result = "none" /\ Lookahead = "YYerror" /\ Current \notin Machine.consistent
  /\ reports' = [reports EXCEPT !.errors = @ + 1]
  /\ text' = [text EXCEPT ![at] = "YYUNDEF"]
  /\ recovering' = 3
  /\ Recover
  /\ UNCHANGED <<at, ast_root>>

ParserNext == Accept \/ Shift \/ Reduce \/ SyntaxError \/ AbortAtEnd \/ LexicalError

-----------------------------------------------------------------------------
(* Reading a tree back: the tokens it stands for, each with its place when *)
(* it is one that a node carries.  This is the language's syntax again,    *)
(* from the manual (doc/statements/manuals/vsop.pdf, listing 2).           *)
Key(token) == <<<<token, 0>>>>
Sign == [Equal |-> "=", Lower |-> "<", LowerEqual |-> "<=", Plus |-> "+", Minus |-> "-",
         Times |-> "*", Divide |-> "/", Power |-> "^", And |-> "and"]
Prefix == [Not |-> "not", UnaryMinus |-> "-", IsNull |-> "isnull"]

Joined(words, separator) ==
  FlattenSeq([i \in DOMAIN words |-> IF i = 1 THEN words[i] ELSE separator \o words[i]])

RECURSIVE Text(_)
Text(tree) ==
  LET kid == [i \in DOMAIN tree.kids |-> Text(tree.kids[i])]
      List(n, separator) == Joined([i \in DOMAIN tree.kids[n].kids |-> Text(tree.kids[n].kids[i])],
                                   separator)
      Members == SortSeq(tree.kids[3].kids \o tree.kids[4].kids,
                         LAMBDA m, n : m.kids[1].at < n.kids[1].at)
      Absent(n) == tree.kids[n].at = 0 /\ tree.kids[n].kids = <<>>
      bare ==
        CASE tree.at > 0                   -> <<<<tree.node, tree.at>>>>
          [] tree.node \in DOMAIN Sign     -> kid[1] \o Key(Sign[tree.node]) \o kid[2]
          [] tree.node \in DOMAIN Prefix   -> Key(Prefix[tree.node]) \o kid[1]
          [] tree.node = "ProgramNode"     -> IF kid = <<>> THEN <<>> ELSE List(1, <<>>)
          [] tree.node = "ClassNode"       ->
               Key("class") \o kid[1] \o (IF Absent(2) THEN <<>> ELSE Key("extends") \o kid[2])
                 \o Key("{") \o FlattenSeq([i \in DOMAIN Members |-> Text(Members[i])]) \o Key("}")
          [] tree.node = "FieldNode"       ->
               kid[1] \o Key(":") \o kid[2]
                 \o (IF Len(kid) = 3 THEN Key("<-") \o kid[3] ELSE <<>>) \o Key(";")
          [] tree.node = "MethodNode"      ->
               kid[1] \o Key("(") \o List(2, Key(",")) \o Key(")") \o Key(":") \o kid[3] \o kid[4]
          [] tree.node = "FormalNode"      -> kid[1] \o Key(":") \o kid[2]
          [] tree.node = "BlockExpr"       ->
               Key("{") \o (IF kid = <<>> THEN <<>> ELSE List(1, Key(";"))) \o Key("}")
          [] tree.node = "UnitLiteralExpr" -> Key("(") \o Key(")")
          [] tree.node = "IfExpr"          ->
               Key("if") \o kid[1] \o Key("then") \o kid[2]
                 \o (IF Len(kid) = 3 THEN Key("else") \o kid[3] ELSE <<>>)
          [] tree.node = "WhileExpr"       -> Key("while") \o kid[1] \o Key("do") \o kid[2]
          [] tree.node = "LetExpr"         ->
               Key("let") \o kid[1] \o Key(":") \o kid[2]
                 \o (IF Len(kid) = 4 THEN Key("<-") \o kid[4] ELSE <<>>) \o Key("in") \o kid[3]
          [] tree.node = "AssignExpr"      -> kid[1] \o Key("<-") \o kid[2]
          [] tree.node = "NewExpr"         -> Key("new") \o kid[1]
          [] tree.node = "CallExpr"        ->
               (IF Absent(1) THEN <<>> ELSE kid[1] \o Key(".")) \o kid[2]
                 \o Key("(") \o List(3, Key(",")) \o Key(")")
          [] OTHER                         -> IF kid = <<>> THEN <<>> ELSE kid[1]
  IN FlattenSeq([i \in 1..tree.parens |-> Key("(")]) \o bare
       \o FlattenSeq([i \in 1..tree.parens |-> Key(")")])

(* What is to be found again.  A comma right behind a "(" means nothing:   *)
(* the rules of formals and arg_list let one pass.                         *)
Carried == {"id", "Type", "int32", "bool", "string", "unit",
            "text", "number", "true", "false", "self"}
Meant ==
  LET words == [i \in DOMAIN text |-> <<text[i], IF text[i] \in Carried THEN i ELSE 0>>]
      kept == {i \in DOMAIN text : ~ (text[i] = "," /\ i > 1 /\ text[i - 1] = "(")}
  IN FlattenSeq([i \in DOMAIN text |-> IF i \in kept THEN <<words[i]>> ELSE <<>>])

Outcome == [errors |-> reports.errors, warnings |-> reports.warnings, aborted |-> result = "aborted",
            root |-> IF ast_root = None THEN "none"
                     ELSE IF Text(ast_root) = Meant THEN "whole" ELSE "partial"]

-----------------------------------------------------------------------------
(* How tightly operators bind (the manual's table 1), and which of them    *)
(* group to the left.                                                      *)
Binds == [CallExpr |-> 1, Power |-> 2, UnaryMinus |-> 3, IsNull |-> 3, Times |-> 4,
          Divide |-> 4, Plus |-> 5, Minus |-> 5, Equal |-> 6, Lower |-> 6,
          LowerEqual |-> 6, Not |-> 7, And |-> 8, AssignExpr |-> 9,
          IfExpr |-> 10, WhileExpr |-> 10, LetExpr |-> 10]
LeftAssociative == {"CallExpr", "Times", "Divide", "Plus", "Minus", "And"}
RightAssociative == {"Power"}

Infixes == DOMAIN Sign
FirstKid(tree) == IF tree.node \in Infixes \cup {"CallExpr"} THEN {1} ELSE {}
LastKid(tree) ==
  IF tree.node \in Infixes \cup {"AssignExpr", "WhileExpr"} THEN {2}
  ELSE IF tree.node \in DOMAIN Prefix THEN {1}
  ELSE IF tree.node = "LetExpr" THEN {3}
  ELSE IF tree.node = "IfExpr" THEN {Len(tree.kids)} ELSE {}

(* The operators that a tree shows at its left and its right end, where no *)
(* parentheses hide them.                                                  *)
RECURSIVE ShownLeft(_), ShownRight(_), Subtrees(_)
ShownLeft(tree) == IF tree.parens > 0 \/ tree.node \notin DOMAIN Binds THEN {}
                   ELSE (IF FirstKid(tree) = {} THEN {} ELSE {tree})
                          \cup UNION {ShownLeft(tree.kids[i]) : i \in FirstKid(tree)}
ShownRight(tree) == IF tree.parens > 0 \/ tree.node \notin DOMAIN Binds THEN {}
                    ELSE (IF LastKid(tree) = {} THEN {} ELSE {tree})
                           \cup UNION {ShownRight(tree.kids[i]) : i \in LastKid(tree)}
Subtrees(tree) == {tree} \cup UNION {Subtrees(tree.kids[i]) : i \in DOMAIN tree.kids}

Tighter(op, than) == Binds[op.node] < Binds[than.node]
AsTight(op, with) == Binds[op.node] = Binds[with.node]

(* A tree is grouped as the manual says: an operator's operands show only  *)
(* tighter ones on its side, or as tight ones on the side it groups to;    *)
(* and the branch before an else shows no if that still wants one.         *)
Grouped(tree) ==
  /\ \A i \in FirstKid(tree) : \A op \in ShownRight(tree.kids[i]) :
       Tighter(op, tree) \/ (AsTight(op, tree) /\ tree.node \in LeftAssociative)
  /\ tree.node \in Infixes \cup DOMAIN Prefix => \A i \in LastKid(tree) :
       \A op \in ShownLeft(tree.kids[i]) :
         Tighter(op, tree) \/ (AsTight(op, tree) /\ tree.node \in RightAssociative)
  /\ tree.node = "IfExpr" /\ Len(tree.kids) = 3 =>
       \A op \in ShownRight(tree.kids[2]) : ~ (op.node = "IfExpr" /\ Len(op.kids) = 2)

-----------------------------------------------------------------------------
Silent == reports.errors + reports.warnings = 0

(* Where nothing was reported, operators are grouped as the manual says,   *)
(* and an else goes to the nearest if: over all rules together, which no   *)
(* single precedence declaration of parser.y shows.  But for the unary     *)
(* minus: see MinusBindsTightly.                                           *)
TreeFollowsTheManual ==
  result = "accepted" /\ Silent
    => \A tree \in Subtrees(ast_root) : tree.node # "UnaryMinus" => Grouped(tree)

(* What the manual's syntax gives is parsed without a report, comparisons  *)
(* of comparisons set aside: no conflict between the rules is settled in   *)
(* a way that loses a program.                                             *)
CleanIsAccepted ==
  result # "none" /\ text \in Clean
    => result = "accepted" /\ Silent

-----------------------------------------------------------------------------
(* What the tests say of the code: a file with a syntax error gets one     *)
(* reported (examples/automatic/output/2_syntax/42-method-no-braces.out,   *)
(* 43-missing-closing-brace.out).                                          *)
SyntaxErrorsAreReported == result = "aborted" => ~ Silent

(* What the manual's table 1 says of the code: the unary minus binds more  *)
(* tightly than any infix operator but the power.                          *)
MinusBindsTightly ==
  result = "accepted" /\ Silent
    => \A tree \in Subtrees(ast_root) : tree.node = "UnaryMinus" => Grouped(tree)
=============================================================================

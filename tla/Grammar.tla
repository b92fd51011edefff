------------------------------ MODULE Grammar ------------------------------
(***************************************************************************)
(* The rules of parser.y, with what their actions build and report, and    *)
(* the precedences it declares.  Rules that only rename (expression:       *)
(* literal, literal: unit_literal, ...) are folded into the ones they      *)
(* rename.  Tokens have the names parser.y gives them in quotes, shortened *)
(* to "id", "Type", "text" and "number" for the four that carry a value.   *)
(***************************************************************************)
EXTENDS Integers, SequencesExt

(* A rule: what it derives, from what, which node its action makes of      *)
(* which of the symbols' values, and whether it reports.  Two values are   *)
(* made up by the actions: khthon::Type(), and the self of a plain call.   *)
NoType == 0
OwnSelf == -1

Rule(lhs, rhs, make, args) ==
  [lhs |-> lhs, rhs |-> rhs, make |-> make, args |-> args, report |-> "none"]

(* Slip: an error rule whose action forgets to report.                     *)
ErrorUnreported(rule) == rule

Error(rule) == [rule EXCEPT !.report = "error"]

Warning(rule) == [rule EXCEPT !.report = "warning"]

(* "list" gathers the values of args in a vector, "same" hands one on.     *)
ProgramRules == <<
  Rule("start",      <<"program", "$end">>, "same", <<1>>),
  Error(Rule("program", <<>>, "ProgramNode", <<>>)),
  Rule("program",    <<"class_list">>, "ProgramNode", <<1>>),
  Error(Rule("program", <<"field">>,  "ProgramNode", <<>>)),
  Error(Rule("program", <<"method">>, "ProgramNode", <<>>)),
  Rule("class_list", <<"class_node">>, "list", <<1>>),
  Rule("class_list", <<"class_list", "class_node">>, "list", <<1, 2>>),
  Error(Rule("class_list", <<"class_node", "error", "class_node">>, "list", <<1>>)),
  Rule("class_node", <<"class", "Type", "optional_extends", "class_body">>,
       "ClassNode", <<2, 3, 4>>),
  Error(Rule("class_node", <<"class", "id", "optional_extends", "class_body">>,
             "ClassNode", <<2, 3, 4>>)),
  Rule("optional_extends", <<>>, "Object", <<>>),
  Rule("optional_extends", <<"extends", "Type">>, "same", <<2>>),
  Error(Rule("optional_extends", <<"extends", "Type", "error">>, "same", <<2>>)),
  Rule("class_body",    <<"{", "class_content", "}">>, "same", <<2>>),
  Rule("class_content", <<>>, "list", <<>>),
  Rule("class_content", <<"class_content", "field">>,  "list", <<1, 2>>),
  Rule("class_content", <<"class_content", "method">>, "list", <<1, 2>>),
  Error(Rule("class_content", <<"class_node">>, "list", <<>>)) >>

MemberRules == <<
  Rule("field", <<"id", ":", "type", ";">>, "FieldNode", <<1, 3>>),
  Rule("field", <<"id", ":", "type", "<-", "expression", ";">>, "FieldNode", <<1, 3, 5>>),
  Error(Rule("field", <<"id", "<-", "expression", ";">>, "FieldNode", <<1, NoType, 3>>)),
  Error(Rule("field", <<"Type", ":", "type", ";">>, "FieldNode", <<1, NoType>>)),
  Error(Rule("field", <<"Type", ":", "type", "<-", "expression", ";">>,
             "FieldNode", <<1, NoType, 5>>)),
  Warning(Rule("field", <<"id", ":", "type", "error">>, "FieldNode", <<1, 3>>)),
  Warning(Rule("field", <<"id", ":", "type", "<-", "expression", "error">>,
               "FieldNode", <<1, 3, 5>>)),
  Rule("method", <<"id", "(", "formals", ")", ":", "type", "block">>,
       "MethodNode", <<1, 3, 6, 7>>),
  Warning(Rule("method", <<"Type", "(", "formals", ")", ":", "type", "block">>,
               "MethodNode", <<1, 3, 6, 7>>)),
  Error(Rule("method", <<"id", ":", "type", "block">>, "makeDummy", <<1>>)),
  Error(Rule("method", <<"id", "(", "formals", ")", "block">>, "makeDummy", <<1>>)),
  Rule("formals", <<>>, "list", <<>>),
  Rule("formals", <<"formal">>, "list", <<1>>),
  Rule("formals", <<"formals", ",", "formal">>, "list", <<1, 3>>),
  Rule("formal",  <<"id", ":", "type">>, "FormalNode", <<1, 3>>),
  Rule("type", <<"Type">>,   "same", <<1>>),
  Rule("type", <<"int32">>,  "same", <<1>>),
  Rule("type", <<"bool">>,   "same", <<1>>),
  Rule("type", <<"string">>, "same", <<1>>),
  Rule("type", <<"unit">>,   "same", <<1>>) >>

Infix(operator) == <<"expression", operator, "expression">>

ExpressionRules == <<
  Rule("block", <<"{", "}">>, "BlockExpr", <<>>),
  Rule("block", <<"{", "expression_list", "}">>, "BlockExpr", <<2>>),
  Error(Rule("block", <<"{", "error", "}">>, "BlockExpr", <<>>)),
  Rule("expression_list", <<"expression", ";", "expression_list">>, "list", <<1, 3>>),
  Warning(Rule("expression_list", <<"expression", ";">>, "list", <<1>>)),
  Rule("expression_list", <<"expression">>, "list", <<1>>),
  Rule("expression", <<"text">>,   "StringLiteralExpr", <<1>>),
  Rule("expression", <<"number">>, "IntegerLiteralExpr", <<1>>),
  Rule("expression", <<"true">>,   "BoolLiteralExpr", <<1>>),
  Rule("expression", <<"false">>,  "BoolLiteralExpr", <<1>>),
  Rule("expression", <<"(", ")">>, "UnitLiteralExpr", <<>>),
  Rule("expression", <<"if", "expression", "then", "expression">>, "IfExpr", <<2, 4>>),
  Rule("expression", <<"if", "expression", "then", "expression", "else", "expression">>,
       "IfExpr", <<2, 4, 6>>),
  Rule("expression", <<"id", "<-", "expression">>, "AssignExpr", <<1, 3>>),
  Rule("expression", <<"new", "Type">>, "NewExpr", <<2>>),
  Rule("expression", <<"not", "expression">>,    "Not", <<2>>),
  Rule("expression", <<"-", "expression">>,      "UnaryMinus", <<2>>),
  Rule("expression", <<"isnull", "expression">>, "IsNull", <<2>>),
  Rule("expression", Infix("="),   "Equal", <<1, 3>>),
  Rule("expression", Infix("<"),   "Lower", <<1, 3>>),
  Rule("expression", Infix("<="),  "LowerEqual", <<1, 3>>),
  Rule("expression", Infix("+"),   "Plus", <<1, 3>>),
  Rule("expression", Infix("-"),   "Minus", <<1, 3>>),
  Rule("expression", Infix("*"),   "Times", <<1, 3>>),
  Rule("expression", Infix("/"),   "Divide", <<1, 3>>),
  Rule("expression", Infix("^"),   "Power", <<1, 3>>),
  Rule("expression", Infix("and"), "And", <<1, 3>>),
  Rule("expression", <<"(", "expression", ")">>, "enclosed", <<2>>),
  Rule("expression", <<"id">>,   "VariableExpr", <<1>>),
  Rule("expression", <<"self">>, "SelfExpr", <<1>>),
  Rule("expression", <<"expression", ".", "id", "(", "arg_list", ")">>,
       "CallExpr", <<1, 3, 5>>),
  Rule("expression", <<"id", "(", "arg_list", ")">>, "CallExpr", <<OwnSelf, 1, 3>>),
  Rule("arg_list", <<>>, "list", <<>>),
  Rule("arg_list", <<"expression">>, "list", <<1>>),
  Rule("arg_list", <<"arg_list", ",", "expression">>, "list", <<1, 3>>),
  Rule("expression", <<"let", "id", ":", "type", "in", "expression">>, "LetExpr", <<2, 4, 6>>),
  Rule("expression",
       <<"let", "id", ":", "type", "<-", "expression", "in", "expression">>,
       "LetExpr", <<2, 4, 8, 6>>),
  Rule("expression", <<"block">>, "same", <<1>>),
  Rule("expression", <<"while", "expression", "do", "expression">>, "WhileExpr", <<2, 4>>) >>

Rules == ProgramRules \o MemberRules \o ExpressionRules

(* What Bison finds in a list of rules.                                    *)
Nonterminals(rules) == {rule.lhs : rule \in Range(rules)}
Symbols(rules) == UNION {Range(rule.rhs) : rule \in Range(rules)}
Tokens(rules) == Symbols(rules) \ (Nonterminals(rules) \cup {"error"})

(* %left, %right and %nonassoc, the loosest first.                         *)
Precedences == <<
  [assoc |-> "right",    of |-> {"<-"}],
  [assoc |-> "nonassoc", of |-> {"let", "in"}],
  [assoc |-> "nonassoc", of |-> {"while", "do"}],
  [assoc |-> "nonassoc", of |-> {"if"}],
  [assoc |-> "nonassoc", of |-> {"then"}],
  [assoc |-> "nonassoc", of |-> {"else"}],
  [assoc |-> "left",     of |-> {"and"}],
  [assoc |-> "right",    of |-> {"not"}],
  [assoc |-> "nonassoc", of |-> {"<", "<=", "="}],
  [assoc |-> "left",     of |-> {"+", "-"}],
  [assoc |-> "left",     of |-> {"*", "/"}],
  [assoc |-> "right",    of |-> {"isnull"}],
  [assoc |-> "right",    of |-> {"^"}],
  [assoc |-> "left",     of |-> {"."}] >>

(* The level of a token, 0 when none is declared.                          *)
Level(token) == IF \E n \in DOMAIN Precedences : token \in Precedences[n].of
                THEN CHOOSE n \in DOMAIN Precedences : token \in Precedences[n].of
                ELSE 0

(* Slips: a power groups as a product does; sums do not associate.         *)
AssocPowerLeft(token) == IF token = "^" THEN "left" ELSE Precedences[Level(token)].assoc
AssocNoSums(token) == IF token \in {"+", "-"} THEN "nonassoc"
                      ELSE Precedences[Level(token)].assoc

Assoc(token) == Precedences[Level(token)].assoc

(* Bison's: the level of a rule is the one of its last token.              *)
RuleLevel(rule, tokens) ==
  IF \E i \in DOMAIN rule.rhs : rule.rhs[i] \in tokens
  THEN Level(Last(SelectSeq(rule.rhs, LAMBDA s : s \in tokens))) ELSE 0
=============================================================================

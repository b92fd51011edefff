----------------------------- MODULE MCCompiler -----------------------------
(***************************************************************************)
(* Files for the compiler: three programs and the files one mistake away   *)
(* from them, a small one with two, and expressions of the manual's syntax.*)
(***************************************************************************)
EXTENDS Compiler, Automaton

Fields == <<"class", "Type", "extends", "Type", "{",
            "id", ":", "int32", ";",
            "id", ":", "Type", "<-", "id", "+", "number", ";",
            "id", "(", "id", ":", "bool", ",", "id", ":", "Type", ")", ":", "unit",
              "{", "id", "<-", "new", "Type", ";", "id", "}", "}">>
Methods == <<"class", "Type", "{",
             "id", "(", ")", ":", "string",
               "{", "if", "true", "then", "{", "id", ".", "id", "(", "self", ",", "text", ")", "}",
                    "else", "(", ")", "}", "}">>
Classes == <<"class", "Type", "{", "}", "class", "Type", "{", "id", ":", "unit", ";", "}",
             "class", "Type", "{", "}">>
Programs == {Fields, Methods, Classes}

(* The tokens that a mistake puts in.                                      *)
Wrong == (Tokens(Rules) \ {"$end", "/", "<", "<=", "bool", "string", "false"}) \cup {"YYerror"}
Mistakes(program, tokens) ==
  {RemoveAt(program, i) : i \in DOMAIN program}
    \cup {ReplaceAt(program, i, t) : i \in DOMAIN program, t \in tokens}
    \cup {InsertAt(program, i, t) : i \in 1..(Len(program) + 1), t \in tokens}

(* Two mistakes in a small program, the second while the parser still      *)
(* recovers from the first.                                                *)
Tiny == <<"class", "Type", "{", "id", ":", "unit", ";", "}">>
Once == Mistakes(Tiny, {"class", "}", "<-", "YYerror"})
Twice == UNION {Mistakes(p, {"id", ";"}) : p \in Once}

(* Expressions of at most two operators around one another, in a field.    *)
Field(expr) == <<"class", "Type", "{", "id", ":", "Type", "<-">> \o expr \o <<";", "}">>
Around(A, B) ==
  {a \o <<op>> \o b : a \in A, b \in B, op \in {"and", "=", "-", "*", "^"}}
    \cup {<<op>> \o a : op \in {"not", "-", "isnull"}, a \in A}
    \cup {<<"id", "<-">> \o a : a \in A}
    \cup {a \o <<".", "id", "(">> \o b \o <<")">> : a \in A, b \in B}
    \cup {<<"if">> \o a \o <<"then">> \o b : a \in A, b \in B}
    \cup {<<"if", "id", "then">> \o a \o <<"else">> \o b : a \in A, b \in B}
    \cup {<<"while">> \o a \o <<"do">> \o b : a \in A, b \in B}
    \cup {<<"let", "id", ":", "int32", "<-">> \o a \o <<"in">> \o b : a \in A, b \in B}
    \cup {<<"(">> \o a \o <<")">> : a \in A}
Atoms == {<<"id">>}
Small == Around(Atoms, Atoms)
Expressions == Small \cup Around(Small, Atoms) \cup Around(Atoms, Small) \cup Around(Small, Small)

Sentences == {Field(e) : e \in Expressions}
MCInputs == Programs \cup {Tiny} \cup Once
              \cup UNION {Mistakes(p, Wrong) : p \in Programs} \cup Twice \cup Sentences

(* Comparisons do not associate.                                           *)
MCClean == Programs \cup {Tiny} \cup {s \in Sentences : Len(SelectSeq(s, LAMBDA t : t = "=")) < 2}

(* All files are parsed; the programs, and small ones with a mistake, are   *)
(* compiled too.                                                           *)
MCCounts == 0 .. 4
MCMachine == Tables
MCRequests == ({"PARSE"} \X MCInputs) \cup (Actions \X (Programs \cup {Tiny} \cup Once))

(* What example 43 is, and what the manual's example of an unary minus is  *)
(* for: files for one mistake each.                                        *)
MissingBrace == {<<"class", "Type", "{", "id", "(", "id", ":", "bool", ")", ":", "int32",
                   "{", "if", "id", "then", "number", "else", "{", "number", "}", "}">>}
MinusAndTimes == {Field(<<"id", "/", "-", "id", "*", "id">>)}
Nothing == {}
Printed == {"PARSE"} \X MissingBrace
=============================================================================

------------------------------- MODULE Driver -------------------------------
(***************************************************************************)
(* The command line's action and the pipelines of driver.cpp: scan, parse, *)
(* analyze, generate, link.  What the passes report is chosen freely, as   *)
(* far as their code allows; the driver's counts, its decisions to go on,  *)
(* what it prints and the exit code are the model.                         *)
(***************************************************************************)
EXTENDS ParseOutcomes

VARIABLES
  action,      (* what the command line asks for                             *)
  parse,       (* what the parser makes of the file                          *)
  pc,          (* where the pipeline is                                      *)
  root,        (* ast_root                                                   *)
  errors, warnings,     (* error_count_, warning_count_                      *)
  shown,       (* how many diagnostics have been printed                     *)
  output,      (* what was printed on stdout or made                         *)
  exit         (* the exit code                                              *)

vars == <<action, parse, pc, root, errors, warnings, shown, output, exit>>

Actions == {"LEX", "PARSE", "ANALYZE", "GENERATE", "NATIVE"}
Outputs == {"nothing", "tokens", "tree", "typed tree", "code", "IR", "program"}

Init == /\ action \in Actions /\ parse \in Parses
        /\ pc = "scan" /\ root = "none"
        /\ errors = 0 /\ warnings = 0 /\ shown = 0
        /\ output = "nothing" /\ exit = 0

HasError == errors > 0 \/ warnings > 0

Stop(code) == pc' = "done" /\ exit' = code
GoOn(to) == pc' = to /\ UNCHANGED <<exit, shown, output>>

-----------------------------------------------------------------------------
(* scan_begin: a file that cannot be opened ends the compiler.             *)
NoFile == /\ pc = "scan"
          /\ Stop(1)
          /\ UNCHANGED <<action, parse, root, errors, warnings, shown, output>>

(* lex: the tokens are printed whatever was reported; no YYerror is        *)
(* returned without a report.                                              *)
Lex == /\ pc = "scan" /\ action = "LEX"
       /\ \E e \in Counts, res \in {0, 1} :
            /\ e = 0 => res = 0
            /\ errors' = e /\ shown' = e
            /\ Stop(IF e > 0 THEN 1 ELSE res)
       /\ output' = "tokens"
       /\ UNCHANGED <<action, parse, root, warnings>>

(* What parse, analyze and generate begin with: Bison's result is logged   *)
(* by a debug build and used for nothing else.                             *)
Parse == /\ pc = "scan" /\ action # "LEX"
         /\ errors' = parse.errors /\ warnings' = parse.warnings
         /\ root' = parse.root
         /\ GoOn(IF action = "PARSE" THEN "print" ELSE "analyze")
         /\ UNCHANGED <<action, parse>>

(* analyze of the checker uses the tree without a test: without one the    *)
(* compiler is lost.                                                       *)
Analyze == /\ pc = "analyze" /\ root # "none"
           /\ \E e \in Counts : errors' = errors + e
           /\ GoOn(IF action = "ANALYZE" THEN "print" ELSE "generate")
           /\ UNCHANGED <<action, parse, root, warnings>>

AnalyzeNothing == /\ pc = "analyze" /\ root = "none"
                  /\ GoOn("lost")
                  /\ UNCHANGED <<action, parse, root, errors, warnings>>

(* Slip: warnings are printed by those who know them to be there.          *)
PrintErrors ==
  /\ pc = "print"
  /\ shown' = IF errors > 0 THEN errors + warnings ELSE 0
  /\ output' = IF root = "none" \/ HasError THEN "nothing"
               ELSE IF action = "PARSE" THEN "tree" ELSE "typed tree"
  /\ Stop(IF HasError THEN 1 ELSE 0)
  /\ UNCHANGED <<action, parse, root, errors, warnings>>

(* Slip: the number of errors is returned.                                 *)
PrintCount ==
  /\ pc = "print"
  /\ shown' = IF HasError THEN errors + warnings ELSE 0
  /\ output' = IF root = "none" \/ HasError THEN "nothing"
               ELSE IF action = "PARSE" THEN "tree" ELSE "typed tree"
  /\ Stop(errors + warnings)
  /\ UNCHANGED <<action, parse, root, errors, warnings>>

(* The end of parse and analyze: the tree goes to stderr with the          *)
(* diagnostics, or to stdout.                                              *)
PrintTree ==
  /\ pc = "print"
  /\ shown' = IF HasError THEN errors + warnings ELSE 0
  /\ output' = IF root = "none" \/ HasError THEN "nothing"
               ELSE IF action = "PARSE" THEN "tree" ELSE "typed tree"
  /\ Stop(IF HasError THEN 1 ELSE 0)
  /\ UNCHANGED <<action, parse, root, errors, warnings>>

(* generate after the analysis: only errors stop it.                       *)
Reject == /\ pc = "generate" /\ errors > 0
          /\ shown' = errors + warnings
          /\ Stop(1)
          /\ UNCHANGED <<action, parse, root, errors, warnings, output>>

(* Slip: what was reported is not looked at again.                         *)
GenerateAnyway == /\ pc = "generate"
                  /\ output' = "code"
                  /\ pc' = "emit"
                  /\ UNCHANGED <<action, parse, root, errors, warnings, shown, exit>>

Generate == /\ pc = "generate" /\ errors = 0
            /\ output' = "code"
            /\ pc' = "emit"
            /\ UNCHANGED <<action, parse, root, errors, warnings, shown, exit>>

RejectCode == /\ pc = "emit" /\ HasError
              /\ shown' = errors + warnings
              /\ Stop(1)
              /\ UNCHANGED <<action, parse, root, errors, warnings, output>>

PrintIR == /\ pc = "emit" /\ ~ HasError /\ action = "GENERATE"
           /\ output' = "IR"
           /\ Stop(0)
           /\ UNCHANGED <<action, parse, root, errors, warnings, shown>>

(* Slip: clang's exit code is not looked at.                               *)
LinkUnchecked == /\ pc = "emit" /\ ~ HasError /\ action = "NATIVE"
                 /\ \E made \in BOOLEAN :
                      /\ output' = IF made THEN "program" ELSE output
                      /\ Stop(0)
                 /\ UNCHANGED <<action, parse, root, errors, warnings, shown>>

(* The file for the IR is opened and clang called; either can fail.        *)
Link == /\ pc = "emit" /\ ~ HasError /\ action = "NATIVE"
        /\ \E made \in BOOLEAN :
             /\ output' = IF made THEN "program" ELSE output
             /\ Stop(IF made THEN 0 ELSE 1)
        /\ UNCHANGED <<action, parse, root, errors, warnings, shown>>

Next == \/ NoFile \/ Lex \/ Parse \/ Analyze \/ AnalyzeNothing \/ PrintTree
        \/ Reject \/ Generate \/ RejectCode \/ PrintIR \/ Link

Spec == Init /\ [][Next]_vars

-----------------------------------------------------------------------------
TypeOK ==
  /\ action \in Actions /\ parse \in Parses
  /\ pc \in {"scan", "analyze", "print", "generate", "emit", "lost", "done"}
  /\ root \in {"none", "partial", "whole"}
  /\ errors \in Nat /\ warnings \in Nat /\ shown \in Nat
  /\ output \in Outputs /\ exit \in {0, 1}

(* Whatever was reported has been printed, once, before the compiler ends, *)
(* and makes it end with an exit code of 1.                                *)
DiagnosticsAreShown ==
  pc = "done" => shown = errors + warnings /\ (HasError => exit = 1)

(* A compiler that says it succeeded has put out what it was asked for.    *)
Asked == [LEX |-> "tokens", PARSE |-> "tree", ANALYZE |-> "typed tree",
          GENERATE |-> "IR", NATIVE |-> "program"]

SuccessMeansOutput ==
  pc = "done" /\ exit = 0 /\ root # "none" => output = Asked[action]

(* IR is printed and a program is made only from a tree that no pass has   *)
(* reported anything about, and code is generated only from one without an *)
(* error.                                                                  *)
CodeIsFromAccepted ==
  /\ output \in {"IR", "program"} => ~ HasError /\ exit = 0
  /\ output \in {"code", "IR", "program"} => errors = 0 /\ root # "none"

-----------------------------------------------------------------------------
(* What driver.hpp, driver.cpp and semantics.cpp say, and is not so.       *)

(* "0 if no error happened during compilation. Non-zero otherwise."        *)
ExitTellsSyntax ==
  pc = "done" /\ action # "LEX" /\ exit = 0 => ~ parse.aborted

(* "There should not be any error left in IR.": what generate checks after *)
(* the code generation.                                                    *)
NoErrorLeft == pc = "emit" => ~ HasError

(* "No ast root.": the analysis is not called without a tree.              *)
RootIsThere == pc = "analyze" => root # "none"
=============================================================================

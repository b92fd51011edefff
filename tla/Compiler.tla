------------------------------ MODULE Compiler ------------------------------
(***************************************************************************)
(* The driver with the parser it calls: what Driver takes as given of a    *)
(* parse is here what the parser makes of a file.  The scanner's own       *)
(* action, the analysis and the code generation report freely, as there.   *)
(***************************************************************************)
EXTENDS Driver, Parser

CONSTANT Requests        (* what the compiler is run for: actions and files  *)

ASSUME RequestsAssumption == Requests \subseteq Actions \X Inputs

compilerVars == <<vars, parserVars>>

(* Until parse() returns nothing is known of the parse.                    *)
Unknown == [errors |-> 0, warnings |-> 0, aborted |-> FALSE, root |-> "unread"]

CompilerInit == /\ ParserInit
                /\ action \in Actions /\ <<action, text>> \in Requests
                /\ parse = Unknown /\ pc = "scan" /\ root = "none"
                /\ errors = 0 /\ warnings = 0 /\ shown = 0
                /\ output = "nothing" /\ exit = 0

Parsing == pc = "scan" /\ action # "LEX" /\ parse = Unknown

ParserStep == /\ Parsing
              /\ ParserNext
              /\ UNCHANGED vars

(* parse() returns to the driver.                                          *)
ParserReturns == /\ Parsing /\ result # "none"
                 /\ parse' = Outcome
                 /\ UNCHANGED <<action, pc, root, errors, warnings, shown, output, exit, parserVars>>

(* While it has not returned, all that can happen is that there was no     *)
(* file to parse.                                                          *)
DriverStep == /\ Next
              /\ Parsing => pc' = "done" /\ at = 1 /\ values = <<>>
              /\ UNCHANGED parserVars

CompilerNext == ParserStep \/ ParserReturns \/ DriverStep

CompilerSpec == CompilerInit /\ [][CompilerNext]_compilerVars /\ WF_compilerVars(ParserStep)

-----------------------------------------------------------------------------
(* When parse() returns, the driver finds what it counts on: a tree unless *)
(* Bison gave up; all of the file in it, in its order, unless something    *)
(* was reported; and never all of it when Bison gave up.  So what error    *)
(* recovery drops is never dropped in silence (class error class, popped   *)
(* halves of expressions), and no action loses or swaps its values.        *)
OutcomeIsExpected == parse # Unknown => parse \in Parses

(* parse() returns: no file keeps error recovery from making progress.     *)
ParseEnds == <>(pc = "done" \/ action = "LEX" \/ result # "none")
=============================================================================

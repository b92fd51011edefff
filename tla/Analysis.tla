------------------------------ MODULE Analysis ------------------------------
(***************************************************************************)
(* The semantic analysis of a program: the checks of the class table, then *)
(* the questions the TypesVisitor asks of the table they left, one after   *)
(* the other, in any number and order.                                     *)
(***************************************************************************)
EXTENDS Semantics

CONSTANTS Yes, No, Nothing

ASSUME AnswersAssumption == Yes # No /\ Yes # Nothing /\ No # Nothing

VARIABLES walk, query, current, ancestors, answer

Walks == INSTANCE Ancestry

walkVars == <<walk, query, current, ancestors, answer>>
allVars  == <<vars, walkVars>>

AnalysisInit == Init /\ Walks!Init

(* analyze() comes to the TypesVisitor whatever the checks have reported.  *)
AnalysisNext ==
  \/ Next /\ UNCHANGED walkVars
  \/ /\ pc = "types" /\ Walks!Next
     /\ UNCHANGED <<program, pc, index, errors, dfs>>

AnalysisSpec == AnalysisInit /\ [][AnalysisNext]_allVars

(* One thread runs the checks and, once asked, a walk: neither stops in    *)
(* the middle.  How many questions are asked is up to the program.         *)
FairAnalysisSpec ==
  /\ AnalysisSpec
  /\ WF_allVars(Next /\ UNCHANGED walkVars)
  /\ WF_allVars(/\ pc = "types" /\ Walks!Step
                /\ UNCHANGED <<program, pc, index, errors, dfs>>)

-----------------------------------------------------------------------------
(* The type visitor gets true answers from any table.                      *)
AnswersAreRight == Walks!AnswersAreRight

(* No walk over the table of an accepted program uses what is not there or *)
(* goes on forever: every question is answered, and is_subtype knows.      *)
AcceptedWalksEnd ==
  (walk = "busy" /\ errors = {})
    ~> (/\ walk = "answered"
        /\ query.fn = "is_subtype" /\ query.from \in DOMAIN table => answer # Nothing)

(* A walk ends, with nullopt when there is nothing to be found.            *)
WalksEnd == (walk = "busy") ~> (walk # "busy")

(* The checked wrapper of ancestor() makes the walk safe.                  *)
AncestorIsDefined == walk # "undefined"
=============================================================================

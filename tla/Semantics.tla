------------------------------ MODULE Semantics ------------------------------
(***************************************************************************)
(* SemanticChecker::analyze up to the point where it hands the class table *)
(* to the TypesVisitor: ClassesVisitor fills the table class by class,     *)
(* check_main and check_parent_classes_exist inspect it, and               *)
(* check_inheritance_cycles runs the depth-first search cycle_check, whose *)
(* call stack is explicit here.                                            *)
(*                                                                         *)
(* The two loops over the table run in the order of std::map, by name.     *)
(* Names are uninterpreted, so each order of the classes is the order of   *)
(* some naming: the loop of check_inheritance_cycles takes any class that  *)
(* is left.                                                                *)
(***************************************************************************)
EXTENDS Program

VARIABLES
  program,    (* the classes of the source, in source order                 *)
  pc,         (* the check analyze() is at                                  *)
  index,      (* the class ClassesVisitor visits next                       *)
  table,      (* the class table                                            *)
  errors,     (* the semantic errors reported, as <<kind, class>>           *)
  states,     (* the VisitState of each class of the table                  *)
  stack,      (* the active calls of cycle_check, outermost first           *)
  returned,   (* what the last call of cycle_check returned, or "none"      *)
  todo        (* the classes check_inheritance_cycles has not come to       *)

dfs  == <<states, stack, returned, todo>>
vars == <<program, pc, index, table, errors, dfs>>

VisitState == {"Unvisited", "Visiting", "Visited"}
ErrorKind  == {"class defined twice", "field defined twice",
               "method defined twice", "no Main", "no main",
               "main has formals", "main is not int32",
               "unknown parent", "cycle"}

(* ProgramNode: the built-in Object is the first entry of the table.       *)
Init ==
  /\ program \in Programs
  /\ pc = "collect"
  /\ index = 1
  /\ table = [c \in {Object} |-> ObjectInfo]
  /\ errors = {}
  /\ states = [c \in {} |-> "Unvisited"]
  /\ stack = <<>>
  /\ returned = "none"
  /\ todo = {}

-----------------------------------------------------------------------------
(* The errors for members of one class that share a name.                 *)
MemberErrors(d) ==
  (IF Repeats(d.fields)  THEN {<<"field defined twice", d.name>>}  ELSE {})
  \cup
  (IF Repeats(d.methods) THEN {<<"method defined twice", d.name>>} ELSE {})

(* Slip: a second class of one name replaces the first.                    *)
VisitClassAnyway ==
  /\ pc = "collect" /\ index <= Len(program)
  /\ index' = index + 1
  /\ table' = With(table, program[index].name, InfoOf(program[index]))
  /\ errors' = errors \cup MemberErrors(program[index])
  /\ UNCHANGED <<program, pc, dfs>>

(* ClassesVisitor::visit(ClassNode): a second class of one name is         *)
(* reported and skipped with all its members.                              *)
VisitClass ==
  /\ pc = "collect" /\ index <= Len(program)
  /\ index' = index + 1
  /\ LET d == program[index] IN
       \/ /\ d.name \in DOMAIN table
          /\ errors' = errors \cup {<<"class defined twice", d.name>>}
          /\ UNCHANGED table
       \/ /\ d.name \notin DOMAIN table
          /\ table' = With(table, d.name, InfoOf(d))
          /\ errors' = errors \cup MemberErrors(d)
  /\ UNCHANGED <<program, pc, dfs>>

(* Slip: the formals of main are not looked at.                            *)
MainErrorsButFormals ==
  LET m == GetMember(table[Main].methods, main) IN
    IF Main \notin DOMAIN table THEN {<<"no Main", Main>>}
    ELSE IF ~ HasMember(table[Main].methods, main) THEN {<<"no main", Main>>}
    ELSE IF m.ret # Int32 THEN {<<"main is not int32", Main>>}
    ELSE {}

(* The first thing wrong with Main and its main, as check_main finds it.   *)
MainErrors ==
  LET m == GetMember(table[Main].methods, main) IN
    IF Main \notin DOMAIN table THEN {<<"no Main", Main>>}
    ELSE IF ~ HasMember(table[Main].methods, main) THEN {<<"no main", Main>>}
    ELSE IF m.formals # <<>> THEN {<<"main has formals", Main>>}
    ELSE IF m.ret # Int32 THEN {<<"main is not int32", Main>>}
    ELSE {}

CheckMain ==
  /\ pc = "collect" /\ index > Len(program)
  /\ pc' = "parents"
  /\ errors' = errors \cup MainErrors
  /\ UNCHANGED <<program, index, table, dfs>>

(* Slip: the marks are not set up before the search.                       *)
CheckParentsOnly ==
  /\ pc = "parents"
  /\ pc' = "cycles"
  /\ errors' = errors \cup
       {<<"unknown parent", c>> :
          c \in {n \in DOMAIN table : table[n].parent \notin DOMAIN table}}
  /\ todo' = DOMAIN table
  /\ UNCHANGED <<program, index, table, states, stack, returned>>

(* check_parent_classes_exist, then the set-up of the search: every class  *)
(* of the table is unvisited.                                              *)
CheckParents ==
  /\ pc = "parents"
  /\ pc' = "cycles"
  /\ errors' = errors \cup
       {<<"unknown parent", c>> :
          c \in {n \in DOMAIN table : table[n].parent \notin DOMAIN table}}
  /\ states' = [c \in DOMAIN table |-> "Unvisited"]
  /\ todo' = DOMAIN table
  /\ UNCHANGED <<program, index, table, stack, returned>>

-----------------------------------------------------------------------------
(* cycle_check(name) starts by marking the class it is called for.         *)
Call(c) ==
  /\ states' = [states EXCEPT ![c] = "Visiting"]
  /\ stack' = Append(stack, c)
  /\ returned' = "none"

(* The innermost call returns; the loop ignores what the outermost returns. *)
Return(result) ==
  /\ stack' = SubSeq(stack, 1, Len(stack) - 1)
  /\ returned' = IF Len(stack) = 1 THEN "none" ELSE result

Top    == stack[Len(stack)]
Parent == table[Top].parent

InCall    == pc = "cycles" /\ stack # <<>> /\ returned = "none"
AfterCall == pc = "cycles" /\ stack # <<>> /\ returned # "none"

(* Slip: the loop does not go on from a class that needs no check.         *)
StartCheckStays ==
  /\ pc = "cycles" /\ stack = <<>>
  /\ \E c \in todo :
       \/ states[c] = "Unvisited" /\ Call(c) /\ todo' = todo \ {c}
       \/ states[c] # "Unvisited" /\ UNCHANGED dfs
  /\ UNCHANGED <<program, pc, index, table, errors>>

(* The loop of check_inheritance_cycles comes to a class.                  *)
StartCheck ==
  /\ pc = "cycles" /\ stack = <<>>
  /\ \E c \in todo :
       /\ todo' = todo \ {c}
       /\ \/ states[c] = "Unvisited" /\ Call(c)
          \/ states[c] # "Unvisited" /\ UNCHANGED <<states, stack, returned>>
  /\ UNCHANGED <<program, pc, index, table, errors>>

(* A parent that is not in the table ends the call with true, the class    *)
(* still marked as being visited.                                          *)
ParentMissing ==
  /\ InCall
  /\ Parent # Object /\ Parent \notin DOMAIN table
  /\ Return("true")
  /\ UNCHANGED <<program, pc, index, table, errors, states, todo>>

(* Slip: a cycle ends the call without a report.                           *)
ReportNothing ==
  /\ InCall
  /\ Parent # Object /\ Parent \in DOMAIN table
  /\ states[Parent] = "Visiting"
  /\ Return("false")
  /\ UNCHANGED <<program, pc, index, table, errors, states, todo>>

(* A parent that is being visited is taken for one of the active calls.    *)
ReportCycle ==
  /\ InCall
  /\ Parent # Object /\ Parent \in DOMAIN table
  /\ states[Parent] = "Visiting"
  /\ errors' = errors \cup {<<"cycle", Top>>}
  /\ Return("false")
  /\ UNCHANGED <<program, pc, index, table, states, todo>>

CheckParent ==
  /\ InCall
  /\ Parent # Object /\ Parent \in DOMAIN table
  /\ states[Parent] = "Unvisited"
  /\ Call(Parent)
  /\ UNCHANGED <<program, pc, index, table, errors, todo>>

(* The parent needs no check, or its check returned true.                  *)
ParentIsFine ==
  \/ InCall /\ Parent = Object
  \/ InCall /\ Parent \in DOMAIN table /\ states[Parent] = "Visited"
  \/ AfterCall /\ returned = "true"

(* Slip: a finished class stays marked as being visited.                   *)
FinishUnmarked ==
  /\ ParentIsFine
  /\ Return("true")
  /\ UNCHANGED <<program, pc, index, table, errors, states, todo>>

FinishCheck ==
  /\ ParentIsFine
  /\ states' = [states EXCEPT ![Top] = "Visited"]
  /\ Return("true")
  /\ UNCHANGED <<program, pc, index, table, errors, todo>>

(* Slip: a failed check marks its class finished.                          *)
FailMarked ==
  /\ AfterCall /\ returned = "false"
  /\ states' = [states EXCEPT ![Top] = "Visited"]
  /\ Return("false")
  /\ UNCHANGED <<program, pc, index, table, errors, todo>>

(* The parent's check returned false: so does this one, marks unchanged.   *)
FailCheck ==
  /\ AfterCall /\ returned = "false"
  /\ Return("false")
  /\ UNCHANGED <<program, pc, index, table, errors, states, todo>>

(* The loop is over; analyze() goes on to the TypesVisitor.                *)
EndChecks ==
  /\ pc = "cycles" /\ stack = <<>> /\ todo = {}
  /\ pc' = "types"
  /\ UNCHANGED <<program, index, table, errors, dfs>>

-----------------------------------------------------------------------------
Next == \/ VisitClass \/ CheckMain \/ CheckParents
        \/ StartCheck \/ ParentMissing \/ ReportCycle \/ CheckParent
        \/ FinishCheck \/ FailCheck \/ EndChecks

Spec == Init /\ [][Next]_vars

(* The analysis is one thread that runs until analyze() returns.           *)
FairSpec == Spec /\ WF_vars(Next)

-----------------------------------------------------------------------------
Calls == {stack[i] : i \in 1 .. Len(stack)}

(* The shape of the state.                                                 *)
TypeOK ==
  /\ program \in Programs
  /\ pc \in {"collect", "parents", "cycles", "types"}
  /\ index \in 1 .. Len(program) + 1
  /\ DOMAIN table \subseteq ClassName
  /\ \A c \in DOMAIN table : table[c].parent \in ClassName
  /\ errors \subseteq ErrorKind \X ClassName
  /\ states \in [DOMAIN states -> VisitState]
  /\ DOMAIN states = IF pc \in {"cycles", "types"} THEN DOMAIN table ELSE {}
  /\ stack \in Seq(DOMAIN states)
  /\ returned \in {"none", "true", "false"}
  /\ todo \subseteq DOMAIN states

(* What the class table holds is the first class of each name the visitor  *)
(* has come to, with all of that class's members and of no other, and the  *)
(* built-in Object, which no class of the source replaces.                 *)
FirstDeclarationWins ==
  /\ table[Object] = ObjectInfo
  /\ DOMAIN table = {Object} \cup {program[i].name : i \in 1 .. index - 1}
  /\ \A i \in 1 .. index - 1 :
       \/ program[i].name = Object
       \/ \E j \in 1 .. i - 1 : program[j].name = program[i].name
       \/ table[program[i].name] = InfoOf(program[i])

(* A class reported in an inheritance cycle is on a chain of parents that  *)
(* never reaches Object: it is in a cycle or extends a class that is.  It  *)
(* needs every parent to exist; see NoFalseCycle.                          *)
CycleReportsAreTrue ==
  ParentsKnown(table) =>
    \A c \in DOMAIN table : <<"cycle", c>> \in errors => Endless(table, c)

(* When the search is over, the marks tell the classes on endless chains   *)
(* from the others exactly, if every parent exists.                        *)
MarksTellCycles ==
  pc = "types" /\ ParentsKnown(table) =>
    \A c \in DOMAIN table : states[c] = "Visiting" <=> Endless(table, c)

(* What the rest of the compiler relies on when no error was reported:     *)
(* every class has its own entry, every parent an entry, no inheritance    *)
(* cycle is left, so every walk towards Object ends there.                 *)
AcceptedTableIsSound ==
  pc = "types" /\ errors = {} =>
    /\ \A i, j \in DOMAIN program :
         i # j => program[i].name # program[j].name
    /\ \A i \in DOMAIN program : table[program[i].name] = InfoOf(program[i])
    /\ ParentsKnown(table)
    /\ WellFounded(table, DOMAIN table \ {Object})
    /\ Main \in DOMAIN table

(* The analysis reaches the TypesVisitor for every program.                *)
Terminates == <>(pc = "types")

(* The checks accept the well-formed programs and no others.               *)
Verdict == IF pc # "types" THEN "pending"
           ELSE IF errors = {} THEN "accepted" ELSE "rejected"

Promise == INSTANCE Acceptance WITH verdict <- Verdict

ImplementsAcceptance == Promise!Spec

(* The message "inheritance cycle detected involving class" is true of the *)
(* class it names, whatever else is wrong with the program.                *)
NoFalseCycle ==
  \A c \in DOMAIN table : <<"cycle", c>> \in errors => Endless(table, c)
=============================================================================

-------------------------- MODULE Analysis_proofs ---------------------------
(***************************************************************************)
(* The semantic analysis, for every set of names and every program: the    *)
(* checks of the class table, that they do what Acceptance says, and that  *)
(* the walks over the table give true answers whatever the checks have     *)
(* reported.                                                               *)
(***************************************************************************)
EXTENDS Analysis, Induction, SequenceTheorems, TLAPS


Searching == pc \in {"cycles", "types"}

Visiting == {c \in DOMAIN table : states[c] = "Visiting"}
Visited  == {c \in DOMAIN table : states[c] = "Visited"}

-----------------------------------------------------------------------------
(* The inductive invariant.  Before the search: what the table holds and   *)
(* which errors the classes visited so far must have caused.               *)
RepeatsReported ==
  \A i \in 1 .. index - 1 :
    \/ program[i].name = Object
    \/ \E j \in 1 .. i - 1 : program[j].name = program[i].name
    => errors # {}

Stages ==
  /\ Object \in DOMAIN table
  /\ pc # "collect" => /\ index = Len(program) + 1
                       /\ errors = {} => Main \in DOMAIN table
  /\ Searching /\ errors = {} => ParentsKnown(table)
  /\ ~ Searching => /\ \A c \in ClassName : <<"cycle", c>> \notin errors
                    /\ stack = <<>> /\ returned = "none" /\ todo = {}
  /\ pc = "types" => stack = <<>> /\ todo = {}

(* The active calls are classes being visited, each once, each extending   *)
(* the next; Object is only ever checked on its own.                       *)
CallsAreAChain ==
  /\ \A i \in 1 .. Len(stack) : stack[i] \in Visiting
  /\ \A i, j \in 1 .. Len(stack) : stack[i] = stack[j] => i = j
  /\ \A i \in 1 .. Len(stack) - 1 : table[stack[i]].parent = stack[i + 1]
  /\ Object \in Visiting => /\ Len(stack) = 1 /\ stack[1] = Object
                            /\ returned = "none"

(* What a call has just returned says of the class it was called for.      *)
ReturnedIsRight ==
  /\ returned # "none" => stack # <<>>
  /\ returned = "true" => Parent \in Visited

(* Finished classes lead to finished classes, and never in a circle.       *)
VisitedIsGrounded ==
  /\ \A c \in Visited : table[c].parent \in Visited \cup {Object}
  /\ WellFounded(table, Visited \ {Object})

(* Every class being visited extends another one, except the innermost     *)
(* call, whose parent is still to be looked at or has passed; and once the *)
(* calls have failed back to the loop, the classes they leave behind       *)
(* extend each other.                                                      *)
VisitingIsClosed ==
  \A c \in Visiting :
    \/ stack # <<>> /\ c = Top /\ returned # "false"
    \/ /\ table[c].parent \in Visiting \ {Object}
       /\ c \notin Calls /\ returned # "false" =>
            table[c].parent \notin Calls

(* Without a report there are no classes being visited but the active      *)
(* calls, and the classes the loop has come to are being visited or done.  *)
NothingAbandoned ==
  /\ \A c \in DOMAIN table : c \notin todo => states[c] # "Unvisited"
  /\ \/ \E c \in DOMAIN table : <<"cycle", c>> \in errors
     \/ returned # "false" /\ \A c \in Visiting : c \in Calls

SearchInv ==
  Searching /\ ParentsKnown(table) =>
    /\ CallsAreAChain
    /\ ReturnedIsRight
    /\ VisitedIsGrounded
    /\ VisitingIsClosed
    /\ NothingAbandoned

IInv == /\ TypeOK
        /\ FirstDeclarationWins
        /\ RepeatsReported
        /\ Stages
        /\ SearchInv
        /\ CycleReportsAreTrue

-----------------------------------------------------------------------------
(* A class of the source has the fields of a ClassDecl.                    *)
LEMMA ProgramTyped ==
  ASSUME TypeOK, NEW i \in 1 .. Len(program)
  PROVE  /\ program \in Seq(ClassDecl)
         /\ program[i] \in ClassDecl
         /\ program[i].name \in ClassName
         /\ program[i].parent \in ClassName
<1>1. program \in Seq(ClassDecl)
  BY ProgramsAssumption DEF TypeOK
<1>2. program[i] \in ClassDecl
  BY <1>1
<1> QED
  BY <1>1, <1>2 DEF ClassDecl

(* A call and a return keep the stack a sequence of classes of the table.  *)
LEMMA CallTyped ==
  ASSUME TypeOK, Searching, NEW c \in DOMAIN table, Call(c)
  PROVE  /\ states' \in [DOMAIN table -> VisitState]
         /\ DOMAIN states' = DOMAIN table
         /\ stack' \in Seq(DOMAIN table)
         /\ returned' \in {"none", "true", "false"}
<1>1. DOMAIN states = DOMAIN table /\ stack \in Seq(DOMAIN table)
  BY DEF TypeOK, Searching
<1> QED
  BY <1>1 DEF TypeOK, Call, VisitState

(* So does a return.                                                       *)
LEMMA ReturnTyped ==
  ASSUME TypeOK, Searching, stack # <<>>,
         NEW r \in {"true", "false"}, Return(r)
  PROVE  /\ stack' \in Seq(DOMAIN table)
         /\ Len(stack') = Len(stack) - 1
         /\ \A i \in 1 .. Len(stack) - 1 : stack'[i] = stack[i]
         /\ returned' \in {"none", "true", "false"}
<1>1. stack \in Seq(DOMAIN table)
  BY DEF TypeOK, Searching
<1>2. Len(stack) - 1 \in 0 .. Len(stack)
  BY <1>1, EmptySeq
<1> QED
  BY <1>1, <1>2, Prefix DEF Return

(* The innermost call is for a class of the table.                         *)
LEMMA TopTyped ==
  ASSUME TypeOK, Searching, stack # <<>>
  PROVE  /\ Len(stack) \in Nat /\ Len(stack) >= 1
         /\ Top \in DOMAIN table
<1>1. stack \in Seq(DOMAIN table)
  BY DEF TypeOK, Searching
<1>2. Len(stack) \in Nat /\ Len(stack) >= 1
  BY <1>1, EmptySeq
<1> QED
  BY <1>1, <1>2 DEF Top

(* The state has its shape at first.                                       *)
LEMMA TypeInit == Init => TypeOK
  BY NamesAssumption, ProgramsAssumption
  DEF Init, TypeOK, ObjectInfo, VisitState

(* Every step keeps the shape of the state.                                *)
LEMMA TypeStep == TypeOK /\ [Next]_vars => TypeOK'
<1> SUFFICES ASSUME TypeOK, [Next]_vars PROVE TypeOK'
  OBVIOUS
<1>1. CASE VisitClass
  <2> DEFINE d == program[index]
  <2>1. index \in 1 .. Len(program) /\ pc = "collect"
    <3>1. Len(program) \in Nat
      BY ProgramsAssumption DEF TypeOK
    <3>2. index \in 1 .. Len(program) + 1
      BY DEF TypeOK
    <3>3. index <= Len(program) /\ pc = "collect"
      BY <1>1 DEF VisitClass
    <3> QED
      BY <3>1, <3>2, <3>3
  <2>2. d.name \in ClassName /\ d.parent \in ClassName
    BY <2>1, ProgramTyped
  <2>3. DOMAIN table' \subseteq ClassName
        /\ \A c \in DOMAIN table' : table'[c].parent \in ClassName
    <3>1. UNCHANGED table \/ table' = With(table, d.name, InfoOf(d))
      BY <1>1 DEF VisitClass
    <3>2. InfoOf(d).parent = d.parent
      BY DEF InfoOf
    <3> QED
      BY <3>1, <3>2, <2>2 DEF TypeOK, With
  <2>4. errors' \subseteq ErrorKind \X ClassName
    <3>1. \/ errors' = errors \cup {<<"class defined twice", d.name>>}
          \/ errors' = errors \cup MemberErrors(d)
      BY <1>1 DEF VisitClass
    <3>2. {"class defined twice", "field defined twice",
           "method defined twice"} \subseteq ErrorKind
      BY DEF ErrorKind
    <3>3. \A k \in ErrorKind : <<k, d.name>> \in ErrorKind \X ClassName
      BY <2>2
    <3>4. MemberErrors(d) \subseteq ErrorKind \X ClassName
      BY <3>2, <3>3 DEF MemberErrors
    <3> QED
      BY <3>1, <3>2, <3>3, <3>4 DEF TypeOK
  <2>5. index' \in 1 .. Len(program') + 1
    <3>1. Len(program) \in Nat
      BY ProgramsAssumption DEF TypeOK
    <3>2. index' = index + 1 /\ program' = program
      BY <1>1 DEF VisitClass
    <3> QED
      BY <2>1, <3>1, <3>2
  <2> QED
    BY <1>1, <2>1, <2>3, <2>4, <2>5 DEF VisitClass, TypeOK, dfs
<1>2. CASE CheckMain
  <2>1. MainErrors \subseteq ErrorKind \X ClassName
    <3>1. {"no Main", "no main", "main has formals", "main is not int32"}
            \subseteq ErrorKind
      BY DEF ErrorKind
    <3>2. \/ MainErrors = {}
          \/ \E k \in {"no Main", "no main", "main has formals",
                      "main is not int32"} : MainErrors = {<<k, Main>>}
      BY DEF MainErrors
    <3>3. \A k \in ErrorKind : <<k, Main>> \in ErrorKind \X ClassName
      BY NamesAssumption
    <3> QED
      BY <3>1, <3>2, <3>3
  <2> QED
    BY <1>2, <2>1 DEF CheckMain, TypeOK, dfs
<1>3. CASE CheckParents
  <2>1. stack = <<>>
    <3>1. stack \in Seq({})
      BY <1>3 DEF CheckParents, TypeOK
    <3> QED
      BY <3>1, EmptySeq
  <2>2. errors' \subseteq ErrorKind \X ClassName
    <3>1. "unknown parent" \in ErrorKind
      BY DEF ErrorKind
    <3>2. \A c \in DOMAIN table :
            <<"unknown parent", c>> \in ErrorKind \X ClassName
      BY <3>1 DEF TypeOK
    <3> QED
      BY <1>3, <3>2 DEF CheckParents, TypeOK
  <2>3. stack' \in Seq(DOMAIN states')
    BY <1>3, <2>1, EmptySeq DEF CheckParents
  <2> QED
    BY <1>3, <2>2, <2>3 DEF CheckParents, TypeOK, VisitState
<1>4. CASE StartCheck
  <2>1. DOMAIN states = DOMAIN table /\ Searching
    BY <1>4 DEF StartCheck, TypeOK, Searching
  <2>2. PICK c \in todo :
          /\ todo' = todo \ {c}
          /\ Call(c) \/ UNCHANGED <<states, stack, returned>>
    BY <1>4 DEF StartCheck
  <2>3. c \in DOMAIN table
    BY <2>1 DEF TypeOK
  <2>4. CASE Call(c)
    BY <1>4, <2>1, <2>2, <2>3, <2>4, CallTyped DEF StartCheck, TypeOK
  <2>5. CASE UNCHANGED <<states, stack, returned>>
    BY <1>4, <2>2, <2>5 DEF StartCheck, TypeOK
  <2> QED
    BY <2>2, <2>4, <2>5
<1>5. CASE ParentMissing
  BY <1>5, ReturnTyped DEF ParentMissing, InCall, Searching, TypeOK
<1>6. CASE ReportCycle
  <2>1. stack \in Seq(DOMAIN table) /\ stack # <<>> /\ Searching
    BY <1>6 DEF ReportCycle, InCall, Searching, TypeOK
  <2>2. <<"cycle", Top>> \in ErrorKind \X ClassName
    <3>1. "cycle" \in ErrorKind
      BY DEF ErrorKind
    <3>2. Top \in DOMAIN table
      BY <2>1, TopTyped
    <3> QED
      BY <3>1, <3>2 DEF TypeOK
  <2> QED
    BY <1>6, <2>1, <2>2, ReturnTyped DEF ReportCycle, InCall, TypeOK
<1>7. CASE CheckParent
  BY <1>7, CallTyped DEF CheckParent, InCall, Searching, TypeOK
<1>8. CASE FinishCheck
  <2>1. pc = "cycles" /\ stack # <<>> /\ Searching
    BY <1>8 DEF FinishCheck, ParentIsFine, InCall, AfterCall, Searching
  <2> QED
    BY <1>8, <2>1, ReturnTyped DEF FinishCheck, TypeOK, VisitState
<1>9. CASE FailCheck
  BY <1>9, ReturnTyped DEF FailCheck, AfterCall, Searching, TypeOK
<1>10. CASE EndChecks
  BY <1>10 DEF EndChecks, TypeOK, dfs
<1>11. CASE UNCHANGED vars
  BY <1>11 DEF vars, dfs, TypeOK
<1> QED
  BY <1>1, <1>2, <1>3, <1>4, <1>5, <1>6, <1>7, <1>8, <1>9, <1>10, <1>11
  DEF Next

(* The state of the analysis keeps its shape: classes visited are classes  *)
(* of the table, calls are for classes of the table, errors are about      *)
(* classes.                                                                *)
THEOREM TypeCorrect == Spec => []TypeOK
  BY TypeInit, TypeStep, PTL DEF Spec

-----------------------------------------------------------------------------
(* Collecting the classes, checking Main and the parents.                  *)
LEMMA TableInit == Init => IInv
<1> SUFFICES ASSUME Init PROVE IInv
  OBVIOUS
<1>1. TypeOK
  BY TypeInit
<1>2. FirstDeclarationWins /\ RepeatsReported
  <2>1. index - 1 = 0 /\ 1 .. 0 = {}
    BY DEF Init
  <2> QED
    BY <2>1 DEF Init, FirstDeclarationWins, RepeatsReported
<1>3. Stages /\ SearchInv /\ CycleReportsAreTrue
  BY DEF Init, Stages, SearchInv, CycleReportsAreTrue, Searching
<1> QED
  BY <1>1, <1>2, <1>3 DEF IInv

(* Collecting a class keeps the table that of the first declarations.      *)
LEMMA TableStep ==
  IInv /\ [Next]_vars => FirstDeclarationWins' /\ RepeatsReported'
<1> SUFFICES ASSUME IInv, [Next]_vars
             PROVE  FirstDeclarationWins' /\ RepeatsReported'
  OBVIOUS
<1>0. index \in Nat \ {0} /\ errors \subseteq errors' /\ program' = program
  <2>1. Len(program) \in Nat /\ index \in 1 .. Len(program) + 1
    BY ProgramsAssumption DEF IInv, TypeOK
  <2>2. errors \subseteq errors' /\ program' = program
    BY DEF Next, VisitClass, CheckMain, CheckParents, StartCheck,
      ParentMissing, ReportCycle, CheckParent, FinishCheck, FailCheck,
      EndChecks, vars
  <2> QED
    BY <2>1, <2>2
<1>1. CASE VisitClass
  <2> DEFINE d == program[index]
  <2>1. index' = index + 1 /\ 1 .. index' - 1 = (1 .. index - 1) \cup {index}
    <3>1. index' = index + 1
      BY <1>1 DEF VisitClass
    <3> QED
      BY <1>0, <3>1
  <2>2. CASE d.name \in DOMAIN table
    <3>1. UNCHANGED table /\ errors' # {}
      BY <1>1, <2>2 DEF VisitClass
    <3>2. \/ d.name = Object
          \/ \E j \in 1 .. index - 1 : program[j].name = d.name
      BY <2>2 DEF IInv, FirstDeclarationWins
    <3>3. DOMAIN table' = {Object} \cup {program[i].name : i \in 1 .. index' - 1}
      BY <2>1, <2>2, <3>1 DEF IInv, FirstDeclarationWins
    <3> QED
      BY <1>0, <2>1, <3>1, <3>2, <3>3
      DEF IInv, FirstDeclarationWins, RepeatsReported
  <2>3. CASE d.name \notin DOMAIN table
    <3>1. table' = With(table, d.name, InfoOf(d))
      BY <1>1, <2>3 DEF VisitClass
    <3>2. /\ DOMAIN table' = DOMAIN table \cup {d.name}
          /\ table'[d.name] = InfoOf(d)
          /\ \A c \in DOMAIN table : table'[c] = table[c]
      BY <2>3, <3>1 DEF With
    <3>3. \A i \in 1 .. index - 1 : program[i].name \in DOMAIN table
      BY DEF IInv, FirstDeclarationWins
    <3>4. d.name # Object
      BY <2>3 DEF IInv, FirstDeclarationWins
    <3>5. DOMAIN table' = {Object} \cup {program[i].name : i \in 1 .. index' - 1}
      BY <2>1, <3>2 DEF IInv, FirstDeclarationWins
    <3>6. FirstDeclarationWins'
      BY <1>0, <2>1, <3>2, <3>3, <3>5 DEF IInv, FirstDeclarationWins
    <3>7. RepeatsReported'
      BY <1>0, <2>1, <2>3, <3>3, <3>4 DEF IInv, RepeatsReported
    <3> QED
      BY <3>6, <3>7
  <2> QED
    BY <2>2, <2>3
<1>2. CASE ~ VisitClass
  <2>1. UNCHANGED <<index, table>>
    BY <1>2 DEF Next, CheckMain, CheckParents, StartCheck, ParentMissing,
      ReportCycle, CheckParent, FinishCheck, FailCheck, EndChecks, vars
  <2> QED
    BY <1>0, <2>1 DEF IInv, FirstDeclarationWins, RepeatsReported
<1> QED
  BY <1>1, <1>2

(* The checks come one after the other, each with what the last one left.  *)
LEMMA StagesStep == IInv /\ [Next]_vars => Stages'
<1> SUFFICES ASSUME IInv, [Next]_vars PROVE Stages'
  OBVIOUS
<1>1. CASE VisitClass
  <2> DEFINE d == program[index]
  <2>1. \A c \in ClassName : <<"cycle", c>> \notin errors'
    <3>1. MemberErrors(d) \subseteq
            {<<"field defined twice", d.name>>, <<"method defined twice", d.name>>}
      BY DEF MemberErrors
    <3>2. \A e \in errors' : \/ e \in errors
                             \/ e = <<"class defined twice", d.name>>
                             \/ e = <<"field defined twice", d.name>>
                             \/ e = <<"method defined twice", d.name>>
      BY <1>1, <3>1 DEF VisitClass
    <3> QED
      BY <1>1, <3>2 DEF VisitClass, IInv, Stages, Searching
  <2>2. Object \in DOMAIN table'
    BY <1>1 DEF VisitClass, IInv, Stages, With
  <2> QED
    BY <1>1, <2>1, <2>2 DEF VisitClass, dfs, IInv, Stages, Searching
<1>2. CASE CheckMain
  <2>1. index = Len(program) + 1
    <3>1. Len(program) \in Nat /\ index \in 1 .. Len(program) + 1
      BY ProgramsAssumption DEF IInv, TypeOK
    <3> QED
      BY <1>2, <3>1 DEF CheckMain
  <2>2. errors' = {} => Main \in DOMAIN table
    BY <1>2 DEF CheckMain, MainErrors
  <2>3. \A c \in ClassName : <<"cycle", c>> \notin errors'
    <3>1. \A c : <<"cycle", c>> \notin MainErrors
      BY DEF MainErrors
    <3> QED
      BY <1>2, <3>1 DEF CheckMain, IInv, Stages, Searching
  <2> QED
    BY <1>2, <2>1, <2>2, <2>3 DEF CheckMain, dfs, IInv, Stages, Searching
<1>3. CASE CheckParents
  <2>1. errors' = {} => ParentsKnown(table)
    BY <1>3 DEF CheckParents, ParentsKnown
  <2>2. errors' = {} => errors = {}
    BY <1>3 DEF CheckParents
  <2> QED
    BY <1>3, <2>1, <2>2 DEF CheckParents, IInv, Stages, Searching
<1>4. CASE EndChecks
  BY <1>4 DEF EndChecks, dfs, IInv, Stages, Searching
<1>5. CASE StartCheck \/ ParentMissing \/ ReportCycle \/ CheckParent
           \/ FinishCheck \/ FailCheck
  <2>1. /\ pc = "cycles" /\ errors \subseteq errors'
        /\ UNCHANGED <<program, pc, index, table>>
    BY <1>5 DEF StartCheck, ParentMissing, ReportCycle, CheckParent,
      FinishCheck, FailCheck, ParentIsFine, InCall, AfterCall
  <2> QED
    BY <2>1 DEF IInv, Stages, Searching
<1>6. CASE UNCHANGED vars
  BY <1>6 DEF vars, dfs, IInv, Stages, Searching
<1> QED
  BY <1>1, <1>2, <1>3, <1>4, <1>5, <1>6 DEF Next

-----------------------------------------------------------------------------
(* The search.  What holds in the middle of it, as facts to cite.          *)
LEMMA SearchFacts ==
  ASSUME IInv, Searching, ParentsKnown(table)
  PROVE  /\ DOMAIN states = DOMAIN table
         /\ states \in [DOMAIN table -> VisitState]
         /\ stack \in Seq(DOMAIN table)
         /\ Len(stack) \in Nat
         /\ table[Object].parent = Object
         /\ CallsAreAChain /\ ReturnedIsRight /\ VisitedIsGrounded
         /\ VisitingIsClosed /\ NothingAbandoned
<1>1. DOMAIN states = DOMAIN table /\ stack \in Seq(DOMAIN states)
  BY DEF IInv, TypeOK, Searching
<1>2. table[Object].parent = Object
  BY DEF IInv, FirstDeclarationWins, ObjectInfo
<1> QED
  BY <1>1, <1>2 DEF IInv, TypeOK, SearchInv

(* cycle_check is called for a class nobody has visited, the parent of the *)
(* innermost call if there is one.                                         *)
LEMMA CallStep ==
  ASSUME IInv, pc = "cycles", ParentsKnown(table), NEW c \in DOMAIN table,
         states[c] = "Unvisited", Call(c), returned = "none",
         stack # <<>> => c = Parent /\ c # Object,
         UNCHANGED <<pc, table, errors>>,
         todo' \subseteq todo, todo \subseteq todo' \cup {c}
  PROVE  SearchInv'
<1> USE SearchFacts DEF Searching
<1>1. /\ Visiting' = Visiting \cup {c} /\ Visited' = Visited
      /\ c \notin Visiting
  BY DEF Call, Visiting, Visited, VisitState
<1>2. /\ Len(stack') = Len(stack) + 1 /\ stack' # <<>>
      /\ stack'[Len(stack) + 1] = c
      /\ \A i \in 1 .. Len(stack) : stack'[i] = stack[i]
  BY DEF Call
<1>3. \A i \in 1 .. Len(stack) : stack[i] \in Visiting
  BY DEF CallsAreAChain
<1>4. Top' = c /\ Calls' = Calls \cup {c} /\ returned' = "none"
  <2>1. Top' = c /\ returned' = "none"
    BY <1>2 DEF Call, Top
  <2>2. 1 .. Len(stack') = (1 .. Len(stack)) \cup {Len(stack) + 1}
    BY <1>2
  <2>3. Calls' = Calls \cup {c}
    BY <1>2, <2>2 DEF Calls
  <2> QED
    BY <2>1, <2>3
<1>5. CallsAreAChain'
  <2>1. \A i \in 1 .. Len(stack') : stack'[i] \in Visiting'
    BY <1>1, <1>2, <1>3
  <2>2. \A i, j \in 1 .. Len(stack') : stack'[i] = stack'[j] => i = j
    <3>1. \A i, j \in 1 .. Len(stack) : stack[i] = stack[j] => i = j
      BY DEF CallsAreAChain
    <3> QED
      BY <1>1, <1>2, <1>3, <3>1
  <2>3. \A i \in 1 .. Len(stack') - 1 : table'[stack'[i]].parent = stack'[i + 1]
    <3>1. SUFFICES ASSUME NEW i \in 1 .. Len(stack)
                   PROVE  table[stack[i]].parent = stack'[i + 1]
      BY <1>2
    <3>2. CASE i = Len(stack)
      <4>1. stack # <<>>
        BY <3>2
      <4> QED
        BY <1>2, <3>2, <4>1 DEF Parent, Top
    <3>3. CASE i < Len(stack)
      BY <1>2, <3>3 DEF CallsAreAChain
    <3> QED
      BY <3>2, <3>3
  <2>4. Object \in Visiting' =>
          Len(stack') = 1 /\ stack'[1] = Object /\ returned' = "none"
    <3>1. CASE stack = <<>>
      <4>1. Object \notin Visiting
        BY <3>1 DEF CallsAreAChain
      <4> QED
        BY <1>1, <1>2, <1>4, <3>1, <4>1
    <3>2. CASE stack # <<>>
      <4>1. Object \in Visiting => Parent = Object
        BY <3>2 DEF CallsAreAChain, Parent, Top
      <4> QED
        BY <1>1, <3>2, <4>1
    <3> QED
      BY <3>1, <3>2
  <2> QED
    BY <2>1, <2>2, <2>3, <2>4 DEF CallsAreAChain
<1>6. ReturnedIsRight'
  BY <1>4 DEF ReturnedIsRight
<1>7. VisitedIsGrounded'
  BY <1>1 DEF VisitedIsGrounded, WellFounded, ClosedUnderExtends
<1>8. VisitingIsClosed'
  <2>1. SUFFICES ASSUME NEW x \in Visiting
                 PROVE  /\ table[x].parent \in Visiting' \ {Object}
                        /\ x \notin Calls' => table[x].parent \notin Calls'
    BY <1>1, <1>2, <1>4 DEF VisitingIsClosed
  <2>2. CASE stack # <<>> /\ x = Top
    <3>1. Top \in Calls
      BY <2>2 DEF Top, Calls
    <3> QED
      BY <1>1, <1>4, <2>2, <3>1 DEF Parent
  <2>3. CASE ~ (stack # <<>> /\ x = Top)
    BY <1>1, <1>4, <2>3 DEF VisitingIsClosed
  <2> QED
    BY <2>2, <2>3
<1>9. NothingAbandoned'
  BY <1>1, <1>4 DEF NothingAbandoned, Call, VisitState
<1> QED
  BY <1>5, <1>6, <1>7, <1>8, <1>9 DEF SearchInv

(* What any return does to the active calls: the innermost one goes, and   *)
(* no other call is for the same class.                                    *)
LEMMA ReturnFacts ==
  ASSUME IInv, pc = "cycles", ParentsKnown(table), stack # <<>>,
         NEW r \in {"true", "false"}, Return(r)
  PROVE  /\ Len(stack) \in Nat /\ Len(stack) >= 1
         /\ Len(stack') = Len(stack) - 1
         /\ \A i \in 1 .. Len(stack) - 1 : stack'[i] = stack[i]
         /\ \A i \in 1 .. Len(stack) - 1 : stack'[i] # Top
         /\ Top \in Visiting /\ Top \in Calls
         /\ Calls' = Calls \ {Top}
         /\ stack' = <<>> => returned' = "none" /\ Calls' = {}
         /\ stack' # <<>> => returned' = r /\ Len(stack) >= 2
<1> USE SearchFacts DEF Searching
<1>1. Len(stack) \in Nat /\ Len(stack) >= 1 /\ stack' \in Seq(DOMAIN table)
  BY TopTyped, ReturnTyped DEF IInv
<1>2. /\ Len(stack') = Len(stack) - 1
      /\ \A i \in 1 .. Len(stack) - 1 : stack'[i] = stack[i]
  BY ReturnTyped DEF IInv
<1>3. Top = stack[Len(stack)] /\ Len(stack) \in 1 .. Len(stack)
  BY <1>1 DEF Top
<1>4. \A i, j \in 1 .. Len(stack) : stack[i] = stack[j] => i = j
  BY DEF CallsAreAChain
<1>5. \A i \in 1 .. Len(stack) - 1 : stack'[i] # Top
  <2>1. ASSUME NEW i \in 1 .. Len(stack) - 1 PROVE stack'[i] # Top
    <3>1. i \in 1 .. Len(stack) /\ i # Len(stack)
      BY <1>1
    <3> QED
      BY <1>2, <1>3, <1>4, <3>1
  <2> QED
    BY <2>1
<1>6. Top \in Visiting /\ Top \in Calls
  BY <1>3 DEF CallsAreAChain, Calls
<1>7. Calls' = Calls \ {Top}
  <2>1. 1 .. Len(stack) = (1 .. Len(stack) - 1) \cup {Len(stack)}
    BY <1>1
  <2>2. Calls' = {stack[i] : i \in 1 .. Len(stack) - 1}
    BY <1>2 DEF Calls
  <2> QED
    BY <1>2, <1>3, <1>5, <2>1, <2>2 DEF Calls
<1>8. stack' = <<>> => Len(stack) = 1
  BY <1>1, <1>2
<1>9. stack' # <<>> => Len(stack) >= 2
  BY <1>1, <1>2, EmptySeq
<1>10. returned' = IF Len(stack) = 1 THEN "none" ELSE r
  BY DEF Return
<1>11. stack' = <<>> => Calls' = {}
  <2>1. stack' = <<>> => Len(stack') = 0
    BY <1>1, <1>2, <1>8
  <2>2. 1 .. 0 = {}
    OBVIOUS
  <2> QED
    BY <2>1, <2>2 DEF Calls
<1> QED
  BY <1>1, <1>2, <1>5, <1>6, <1>7, <1>8, <1>9, <1>10, <1>11

(* A call that returns leaves a chain of calls behind.                     *)
LEMMA ReturnChain ==
  ASSUME IInv, pc = "cycles", ParentsKnown(table), stack # <<>>,
         NEW r \in {"true", "false"}, Return(r), UNCHANGED table,
         Visiting' \subseteq Visiting, Visiting \subseteq Visiting' \cup {Top},
         Object \notin Visiting'
  PROVE  CallsAreAChain'
<1> USE SearchFacts, ReturnFacts DEF Searching
<1>1. \A i \in 1 .. Len(stack') : stack'[i] \in Visiting'
  BY DEF CallsAreAChain
<1>2. \A i, j \in 1 .. Len(stack') : stack'[i] = stack'[j] => i = j
  <2>1. \A i, j \in 1 .. Len(stack) : stack[i] = stack[j] => i = j
    BY DEF CallsAreAChain
  <2> QED
    BY <2>1
<1>3. \A i \in 1 .. Len(stack') - 1 : table'[stack'[i]].parent = stack'[i + 1]
  <2>1. ASSUME NEW i \in 1 .. Len(stack') - 1
        PROVE  table[stack'[i]].parent = stack'[i + 1]
    <3>1. i \in 1 .. Len(stack) - 1 /\ i + 1 \in 1 .. Len(stack) - 1
      OBVIOUS
    <3>2. table[stack[i]].parent = stack[i + 1]
      BY <3>1 DEF CallsAreAChain
    <3> QED
      BY <3>1, <3>2
  <2> QED
    BY <2>1
<1> QED
  BY <1>1, <1>2, <1>3 DEF CallsAreAChain

(* A call that fails, on its own or because an inner one did.              *)
LEMMA FailStep ==
  ASSUME IInv, pc = "cycles", ParentsKnown(table), stack # <<>>,
         Return("false"), UNCHANGED <<pc, table, states, todo>>,
         \E c \in DOMAIN table : <<"cycle", c>> \in errors',
         \A c \in Visiting : table[c].parent \in Visiting \ {Object},
         Object \notin Visiting
  PROVE  SearchInv'
<1> USE SearchFacts DEF Searching
<1>1. Visiting' = Visiting /\ Visited' = Visited
  BY DEF Visiting, Visited
<1>2. CallsAreAChain'
  BY <1>1, ReturnChain
<1>3. ReturnedIsRight'
  BY ReturnFacts DEF ReturnedIsRight
<1>4. VisitedIsGrounded'
  BY <1>1 DEF VisitedIsGrounded, WellFounded, ClosedUnderExtends
<1>5. VisitingIsClosed'
  BY <1>1, ReturnFacts DEF VisitingIsClosed
<1>6. NothingAbandoned'
  BY DEF NothingAbandoned
<1> QED
  BY <1>2, <1>3, <1>4, <1>5, <1>6 DEF SearchInv

(* A class is finished when its parent is Object or finished.              *)
LEMMA FinishStep ==
  ASSUME IInv, pc = "cycles", ParentsKnown(table), FinishCheck
  PROVE  SearchInv'
<1> USE SearchFacts DEF Searching
<1>1. /\ stack # <<>> /\ returned # "false" /\ Return("true")
      /\ UNCHANGED <<pc, table, errors, todo>>
  BY DEF FinishCheck, ParentIsFine, InCall, AfterCall
<1>2. /\ Top \in Visiting /\ Top \in Calls /\ Top \in DOMAIN table
      /\ Calls' = Calls \ {Top}
  BY <1>1, ReturnFacts DEF Visiting
<1>3. Parent = Object \/ Parent \in Visited
  BY DEF FinishCheck, ParentIsFine, Visited, ReturnedIsRight
<1>4. states' = [states EXCEPT ![Top] = "Visited"]
  BY DEF FinishCheck
<1>5. Visiting' = Visiting \ {Top} /\ Visited' = Visited \cup {Top}
  BY <1>1, <1>2, <1>4 DEF Visiting, Visited
<1>6. Top \notin Visited
  BY <1>2 DEF Visiting, Visited
<1>7. Object \notin Visiting'
  BY <1>1, <1>5 DEF CallsAreAChain, Top
<1>8. CallsAreAChain'
  BY <1>1, <1>5, <1>7, ReturnChain
<1>9. ReturnedIsRight'
  <2>1. CASE stack' = <<>>
    BY <1>1, <2>1, ReturnFacts DEF ReturnedIsRight
  <2>2. CASE stack' # <<>>
    <3>1. Len(stack) - 1 \in 1 .. Len(stack) - 1
      BY <1>1, <2>2, ReturnFacts
    <3>2. Top' = stack[Len(stack) - 1]
      BY <1>1, <3>1, ReturnFacts DEF Top
    <3>3. table[stack[Len(stack) - 1]].parent = Top
      BY <3>1 DEF CallsAreAChain, Top
    <3>4. Parent' = Top
      BY <1>1, <3>2, <3>3 DEF Parent
    <3> QED
      BY <1>1, <1>5, <2>2, <3>4, ReturnFacts DEF ReturnedIsRight
  <2> QED
    BY <2>1, <2>2
<1>10. VisitedIsGrounded'
  <2>1. \A c \in Visited : table[c].parent \in Visited \cup {Object}
    BY DEF VisitedIsGrounded
  <2>2. \A c \in Visited' : table'[c].parent \in Visited' \cup {Object}
    BY <1>1, <1>3, <1>5, <2>1 DEF Parent
  <2>3. WellFounded(table', Visited' \ {Object})
    <3>1. SUFFICES ASSUME NEW S \in SUBSET (Visited' \ {Object}), S # {},
                          \A c \in S : table[c].parent \in S
                   PROVE  FALSE
      BY <1>1 DEF WellFounded, ClosedUnderExtends
    <3> DEFINE R == S \ {Top}
    <3>2. R \subseteq Visited \ {Object}
      BY <1>5
    <3>3. R # {}
      <4>1. Top \in S => Parent \in Visited
        BY <1>3, <3>1 DEF Parent
      <4> QED
        BY <1>6, <3>1, <4>1 DEF Parent
    <3>4. \A c \in R : table[c].parent \in R
      <4>1. ASSUME NEW c \in R PROVE table[c].parent \in R
        <5>1. table[c].parent \in S /\ table[c].parent # Object
          BY <3>1
        <5>2. table[c].parent \in Visited
          BY <2>1, <3>2, <5>1
        <5> QED
          BY <1>6, <5>1, <5>2
      <4> QED
        BY <4>1
    <3> QED
      BY <3>2, <3>3, <3>4
      DEF VisitedIsGrounded, WellFounded, ClosedUnderExtends
  <2> QED
    BY <2>2, <2>3 DEF VisitedIsGrounded
<1>11. VisitingIsClosed'
  <2>1. SUFFICES ASSUME NEW c \in Visiting'
                 PROVE  \/ stack' # <<>> /\ c = Top' /\ returned' # "false"
                        \/ /\ table[c].parent \in Visiting' \ {Object}
                           /\ c \notin Calls' /\ returned' # "false" =>
                                table[c].parent \notin Calls'
    BY <1>1 DEF VisitingIsClosed
  <2>2. /\ c \in Visiting /\ c # Top
        /\ table[c].parent \in Visiting \ {Object}
        /\ c \notin Calls => table[c].parent \notin Calls
    BY <1>1, <1>5 DEF VisitingIsClosed
  <2>3. CASE c \notin Calls
    BY <1>2, <1>5, <2>2, <2>3
  <2>4. CASE c \in Calls
    <3>1. PICK i \in 1 .. Len(stack) : c = stack[i]
      BY <2>4 DEF Calls
    <3>2. i # Len(stack)
      BY <2>2, <3>1 DEF Top
    <3>3. i + 1 \in 1 .. Len(stack) /\ table[c].parent = stack[i + 1]
      BY <3>1, <3>2 DEF CallsAreAChain
    <3>4. c \in Calls'
      BY <1>2, <2>2, <2>4
    <3>5. CASE i + 1 = Len(stack)
      <4>1. /\ i = Len(stack') /\ stack'[i] = c
            /\ stack' # <<>> => returned' = "true"
        BY <1>1, <3>1, <3>2, <3>5, ReturnFacts
      <4>2. stack' # <<>>
        BY <3>1, <4>1
      <4> QED
        BY <4>1, <4>2 DEF Top
    <3>6. CASE i + 1 # Len(stack)
      <4>1. stack[i + 1] # Top
        BY <3>3, <3>6 DEF CallsAreAChain, Top
      <4> QED
        BY <1>5, <2>2, <3>3, <3>4, <4>1
    <3> QED
      BY <3>5, <3>6
  <2> QED
    BY <2>3, <2>4
<1>12. NothingAbandoned'
  <2>1. \A c \in DOMAIN table' : c \notin todo' => states'[c] # "Unvisited"
    BY <1>1, <1>2, <1>4 DEF NothingAbandoned
  <2>2. \/ \E c \in DOMAIN table : <<"cycle", c>> \in errors
        \/ returned' # "false" /\ \A c \in Visiting' : c \in Calls'
    BY <1>1, <1>2, <1>5, ReturnFacts DEF NothingAbandoned
  <2> QED
    BY <1>1, <2>1, <2>2 DEF NothingAbandoned
<1> QED
  BY <1>1, <1>8, <1>9, <1>10, <1>11, <1>12 DEF SearchInv

(* When a report is made, every class being visited extends another one.   *)
LEMMA ReportFacts ==
  ASSUME IInv, pc = "cycles", ParentsKnown(table), ReportCycle
  PROVE  /\ stack # <<>> /\ Return("false") /\ Top \in Visiting
         /\ Object \notin Visiting
         /\ \A c \in Visiting : table[c].parent \in Visiting \ {Object}
<1> USE SearchFacts DEF Searching
<1>1. stack # <<>> /\ Return("false") /\ Top \in Visiting
  BY ReturnFacts DEF ReportCycle, InCall
<1>2. Object \notin Visiting
  BY <1>1 DEF ReportCycle, CallsAreAChain, Parent, Top
<1>3. Parent \in Visiting \ {Object}
  BY DEF ReportCycle, Visiting
<1> QED
  BY <1>1, <1>2, <1>3 DEF VisitingIsClosed, Parent

(* Every step of the search keeps its invariant.                           *)
LEMMA SearchStep == IInv /\ [Next]_vars => SearchInv'
<1> SUFFICES ASSUME IInv, [Next]_vars, Searching', ParentsKnown(table')
             PROVE  SearchInv'
  BY DEF SearchInv
<1>1. CASE VisitClass \/ CheckMain
  BY <1>1 DEF VisitClass, CheckMain, Searching
<1>2. CASE CheckParents
  <2>1. /\ stack' = <<>> /\ returned' = "none" /\ table' = table
        /\ states' = [c \in DOMAIN table |-> "Unvisited"]
        /\ todo' = DOMAIN table
    BY <1>2 DEF CheckParents, IInv, Stages, Searching
  <2>2. Visiting' = {} /\ Visited' = {}
    BY <2>1 DEF Visiting, Visited
  <2>3. CallsAreAChain' /\ ReturnedIsRight'
    BY <2>1, <2>2 DEF CallsAreAChain, ReturnedIsRight
  <2>4. VisitedIsGrounded' /\ VisitingIsClosed' /\ NothingAbandoned'
    BY <2>1, <2>2
    DEF VisitedIsGrounded, WellFounded, VisitingIsClosed, NothingAbandoned
  <2> QED
    BY <2>3, <2>4 DEF SearchInv
<1>3. CASE StartCheck
  <2>1. /\ pc = "cycles" /\ stack = <<>> /\ Searching
        /\ UNCHANGED <<program, pc, index, table, errors>>
    BY <1>3 DEF StartCheck, Searching
  <2>2. PICK c \in todo :
          /\ todo' = todo \ {c}
          /\ \/ states[c] = "Unvisited" /\ Call(c)
             \/ states[c] # "Unvisited" /\ UNCHANGED <<states, stack, returned>>
    BY <1>3 DEF StartCheck
  <2>3. c \in DOMAIN table /\ returned = "none"
    BY <2>1, SearchFacts DEF ReturnedIsRight, IInv, TypeOK
  <2>4. CASE states[c] = "Unvisited" /\ Call(c)
    BY <2>1, <2>2, <2>3, <2>4, CallStep
  <2>5. CASE states[c] # "Unvisited" /\ UNCHANGED <<states, stack, returned>>
    BY <2>1, <2>2, <2>5, SearchFacts
    DEF SearchInv, CallsAreAChain, ReturnedIsRight, VisitedIsGrounded,
        VisitingIsClosed, NothingAbandoned, WellFounded, ClosedUnderExtends,
        Visiting, Visited, Calls, Top, Parent
  <2> QED
    BY <2>2, <2>4, <2>5
<1>4. CASE ParentMissing
  <2>1. Top \in DOMAIN table /\ table' = table
    BY <1>4, TopTyped DEF ParentMissing, InCall, Searching, IInv
  <2> QED
    BY <1>4, <2>1 DEF ParentMissing, ParentsKnown, Parent
<1>5. CASE ReportCycle
  <2>1. /\ pc = "cycles" /\ ParentsKnown(table)
        /\ UNCHANGED <<pc, table, states, todo>>
        /\ <<"cycle", Top>> \in errors'
    BY <1>5 DEF ReportCycle, InCall
  <2>2. \E c \in DOMAIN table : <<"cycle", c>> \in errors'
    BY <1>5, <2>1, ReportFacts DEF Visiting
  <2> QED
    BY <1>5, <2>1, <2>2, ReportFacts, FailStep
<1>6. CASE CheckParent
  <2>1. /\ pc = "cycles" /\ ParentsKnown(table) /\ stack # <<>>
        /\ returned = "none" /\ UNCHANGED <<pc, table, errors, todo>>
        /\ Parent # Object /\ Parent \in DOMAIN table
        /\ states[Parent] = "Unvisited" /\ Call(Parent)
    BY <1>6 DEF CheckParent, InCall
  <2> QED
    BY <2>1, CallStep
<1>7. CASE FinishCheck
  <2>1. pc = "cycles" /\ ParentsKnown(table)
    BY <1>7 DEF FinishCheck, ParentIsFine, InCall, AfterCall
  <2> QED
    BY <1>7, <2>1, FinishStep
<1>8. CASE FailCheck
  <2>1. /\ pc = "cycles" /\ ParentsKnown(table) /\ stack # <<>> /\ Searching
        /\ returned = "false" /\ Return("false")
        /\ UNCHANGED <<pc, table, errors, states, todo>>
    BY <1>8 DEF FailCheck, AfterCall, Searching
  <2>2. \E c \in DOMAIN table : <<"cycle", c>> \in errors'
    BY <2>1, SearchFacts DEF NothingAbandoned
  <2>3. Object \notin Visiting
    BY <2>1, SearchFacts DEF CallsAreAChain
  <2>4. \A c \in Visiting : table[c].parent \in Visiting \ {Object}
    BY <2>1, SearchFacts DEF VisitingIsClosed
  <2> QED
    BY <2>1, <2>2, <2>3, <2>4, FailStep
<1>9. CASE EndChecks \/ UNCHANGED vars
  <2>1. Searching /\ UNCHANGED <<table, errors, states, stack, returned, todo>>
    BY <1>9 DEF EndChecks, vars, dfs, Searching
  <2> QED
    BY <2>1, SearchFacts
    DEF SearchInv, CallsAreAChain, ReturnedIsRight, VisitedIsGrounded,
        VisitingIsClosed, NothingAbandoned, WellFounded, ClosedUnderExtends,
        Visiting, Visited, Calls, Top, Parent
<1> QED
  BY <1>1, <1>2, <1>3, <1>4, <1>5, <1>6, <1>7, <1>8, <1>9 DEF Next

(* The only step that adds a report is ReportCycle, and the classes being  *)
(* visited then are the endless chain.                                     *)
LEMMA ReportsStep == IInv /\ [Next]_vars => CycleReportsAreTrue'
<1> SUFFICES ASSUME IInv, [Next]_vars, ParentsKnown(table'),
                    NEW c \in DOMAIN table', <<"cycle", c>> \in errors'
             PROVE  Endless(table', c)
  BY DEF CycleReportsAreTrue
<1>1. CASE VisitClass \/ CheckMain \/ CheckParents
  <2>1. c \in ClassName
    BY TypeStep DEF IInv, TypeOK
  <2>2. CASE VisitClass \/ CheckMain
    <3>1. ~ Searching' /\ Stages'
      BY <2>2, StagesStep DEF VisitClass, CheckMain, Searching
    <3> QED
      BY <2>1, <3>1 DEF Stages
  <2>3. CASE CheckParents
    BY <2>1, <2>3 DEF CheckParents, IInv, Stages, Searching
  <2> QED
    BY <1>1, <2>2, <2>3
<1>2. CASE ReportCycle
  <2>1. /\ pc = "cycles" /\ ParentsKnown(table) /\ table' = table
        /\ errors' = errors \cup {<<"cycle", Top>>}
    BY <1>2 DEF ReportCycle, InCall
  <2>2. CASE c = Top
    BY <1>2, <2>1, <2>2, ReportFacts
    DEF Endless, ClosedUnderExtends, Visiting
  <2>3. CASE c # Top
    BY <2>1, <2>3 DEF IInv, CycleReportsAreTrue
  <2> QED
    BY <2>2, <2>3
<1>3. CASE ~ (VisitClass \/ CheckMain \/ CheckParents \/ ReportCycle)
  <2>1. UNCHANGED <<table, errors>>
    BY <1>3 DEF Next, StartCheck, ParentMissing, CheckParent, FinishCheck,
      FailCheck, EndChecks, vars
  <2> QED
    BY <2>1 DEF IInv, CycleReportsAreTrue
<1> QED
  BY <1>1, <1>2, <1>3

(* Everything above at once: the inductive invariant of the analysis.      *)
THEOREM Inductive == Spec => []IInv
<1>1. IInv /\ [Next]_vars => IInv'
  BY TypeStep, TableStep, StagesStep, SearchStep, ReportsStep DEF IInv
<1> QED
  BY TableInit, <1>1, PTL DEF Spec

-----------------------------------------------------------------------------
(* A class that reaches Object through finished classes is on no endless   *)
(* chain.                                                                  *)
LEMMA GroundedIsNotEndless ==
  ASSUME VisitedIsGrounded, NEW c \in Visited
  PROVE  ~ Endless(table, c)
<1> SUFFICES ASSUME NEW S \in SUBSET (DOMAIN table \ {Object}), c \in S,
                    \A x \in S : table[x].parent \in S
             PROVE  FALSE
  BY DEF Endless, ClosedUnderExtends
<1> DEFINE R == S \cap Visited
<1>1. R \in SUBSET (Visited \ {Object}) /\ R # {}
  OBVIOUS
<1>2. \A x \in R : table[x].parent \in R
  BY DEF VisitedIsGrounded
<1> QED
  BY <1>1, <1>2 DEF VisitedIsGrounded, WellFounded, ClosedUnderExtends

(* At the end of the search no call is active, so every class is finished  *)
(* or left behind by a call that failed.                                   *)
LEMMA AtTheEnd ==
  ASSUME IInv, pc = "types", ParentsKnown(table)
  PROVE  /\ DOMAIN table = Visited \cup Visiting
         /\ \A c \in Visiting : Endless(table, c)
         /\ Visiting # {} => errors # {}
<1> USE SearchFacts DEF Searching
<1>1. stack = <<>> /\ todo = {}
  BY DEF IInv, Stages
<1>2. DOMAIN table = Visited \cup Visiting
  BY <1>1 DEF NothingAbandoned, Visited, Visiting, VisitState
<1>3. Object \notin Visiting
  BY <1>1 DEF CallsAreAChain
<1>4. \A c \in Visiting : table[c].parent \in Visiting
  BY <1>1 DEF VisitingIsClosed
<1>5. \A c \in Visiting : Endless(table, c)
  BY <1>2, <1>3, <1>4 DEF Endless, ClosedUnderExtends
<1>6. Calls = {}
  BY <1>1 DEF Calls
<1> QED
  BY <1>2, <1>5, <1>6 DEF NothingAbandoned

(* The marks left by the search tell the classes on endless chains.        *)
THEOREM MarksCorrect == Spec => []MarksTellCycles
<1>1. IInv => MarksTellCycles
  <2> SUFFICES ASSUME IInv, pc = "types", ParentsKnown(table),
                      NEW c \in DOMAIN table
               PROVE  states[c] = "Visiting" <=> Endless(table, c)
    BY DEF MarksTellCycles
  <2>1. c \in Visited \/ c \in Visiting
    BY AtTheEnd
  <2>2. VisitedIsGrounded
    BY SearchFacts DEF Searching
  <2> QED
    BY <2>1, <2>2, AtTheEnd, GroundedIsNotEndless DEF Visited, Visiting
<1> QED
  BY Inductive, <1>1, PTL

(* A report of a cycle is true when every parent exists.                   *)
THEOREM ReportsCorrect == Spec => []CycleReportsAreTrue
  BY Inductive, PTL DEF IInv

(* The table holds the first class of each name.                           *)
THEOREM TableCorrect == Spec => []FirstDeclarationWins
  BY Inductive, PTL DEF IInv

(* When no error was reported the table is what the compiler relies on.    *)
THEOREM AcceptedCorrect == Spec => []AcceptedTableIsSound
<1>1. IInv => AcceptedTableIsSound
  <2> SUFFICES ASSUME IInv, pc = "types", errors = {}
               PROVE  AcceptedTableIsSound
    BY DEF AcceptedTableIsSound
  <2>1. /\ DOMAIN program = 1 .. index - 1 /\ index - 1 \in Nat
        /\ Main \in DOMAIN table
    <3>1. program \in Seq(ClassDecl)
      BY ProgramsAssumption DEF IInv, TypeOK
    <3>2. index = Len(program) + 1 /\ Main \in DOMAIN table
      BY DEF IInv, Stages
    <3> QED
      BY <3>1, <3>2, LenProperties
  <2>2. \A i \in 1 .. index - 1 :
          /\ program[i].name # Object
          /\ \A j \in 1 .. i - 1 : program[j].name # program[i].name
    BY DEF IInv, RepeatsReported
  <2>3. ASSUME NEW i \in DOMAIN program, NEW j \in DOMAIN program, i # j
        PROVE  program[i].name # program[j].name
    <3>1. i \in 1 .. j - 1 \/ j \in 1 .. i - 1
      BY <2>1, <2>3
    <3> QED
      BY <2>1, <2>2, <3>1
  <2>4. \A i \in DOMAIN program : table[program[i].name] = InfoOf(program[i])
    BY <2>1, <2>2 DEF IInv, FirstDeclarationWins
  <2>5. ParentsKnown(table)
    BY DEF IInv, Stages, Searching
  <2>6. WellFounded(table, DOMAIN table \ {Object})
    <3>1. DOMAIN table = Visited /\ VisitedIsGrounded
      BY <2>5, AtTheEnd, SearchFacts DEF Searching
    <3> QED
      BY <3>1 DEF VisitedIsGrounded
  <2> QED
    BY <2>1, <2>3, <2>4, <2>5, <2>6 DEF AcceptedTableIsSound
<1> QED
  BY Inductive, <1>1, PTL
-----------------------------------------------------------------------------
(* The checks of the class table implement Acceptance, for every set of    *)
(* names and every program: the initial states map to its initial states,  *)
(* and every step of the checks is its one step or changes nothing it can  *)
(* see.  Liveness is left to TLC.                                          *)

-----------------------------------------------------------------------------
(* The invariant that the step of Acceptance needs beside that of the      *)
(* checks: a report is a reason to reject, and what has been passed in     *)
(* silence is as it must be.                                               *)
SilentMembers ==
  errors = {} => \A i \in 1 .. index - 1 :
                   ~ Repeats(program[i].fields) /\ ~ Repeats(program[i].methods)

SilentMain == pc # "collect" /\ errors = {} => Promise!MainIsThere(program)

ReasonsToReject == errors # {} => ~ Promise!WellFormed(program)

RInv == IInv /\ SilentMembers /\ SilentMain /\ ReasonsToReject

(* The classes and members of a program.                                   *)
LEMMA SourceTyped ==
  ASSUME TypeOK
  PROVE  /\ program \in Seq(ClassDecl) /\ Len(program) \in Nat
         /\ DOMAIN program = 1 .. Len(program)
         /\ index \in Nat /\ index >= 1 /\ index <= Len(program) + 1
         /\ \A i \in DOMAIN program : program[i].methods \in Seq(Method)
<1>1. program \in Seq(ClassDecl) /\ index \in 1 .. Len(program) + 1
  BY ProgramsAssumption DEF TypeOK
<1>2. \A i \in DOMAIN program : program[i] \in ClassDecl
  BY <1>1
<1> QED
  BY <1>1, <1>2 DEF ClassDecl

(* A class that is declared once and is not Object has its own entry.      *)
LEMMA OwnEntry ==
  ASSUME IInv, Promise!OneEach(program), NEW i \in 1 .. index - 1
  PROVE  table[program[i].name] = InfoOf(program[i])
<1>1. i \in DOMAIN program /\ \A j \in 1 .. i - 1 : j \in DOMAIN program /\ j # i
  BY SourceTyped DEF IInv
<1>2. program[i].name # Object
  BY <1>1 DEF Promise!OneEach
<1>3. \A j \in 1 .. i - 1 : program[j].name # program[i].name
  BY <1>1 DEF Promise!OneEach
<1> QED
  BY <1>2, <1>3 DEF IInv, FirstDeclarationWins

(* Once all classes are visited the table has the declared ones.           *)
LEMMA WholeTable ==
  ASSUME IInv, index = Len(program) + 1
  PROVE  DOMAIN table = Promise!Declared(program)
<1>1. 1 .. index - 1 = DOMAIN program
  BY SourceTyped DEF IInv
<1> QED
  BY <1>1 DEF IInv, FirstDeclarationWins, Promise!Declared, Promise!Names

-----------------------------------------------------------------------------
(* What each check reports, against the program it reads.                  *)

(* A class that ClassesVisitor complains about is one of two of its name,  *)
(* or Object, or has two members of one name.                              *)
LEMMA CollectReports ==
  ASSUME RInv, VisitClass
  PROVE  /\ errors' # {} => ~ Promise!WellFormed(program)
         /\ errors' = {} => /\ errors = {}
                            /\ ~ Repeats(program[index].fields)
                            /\ ~ Repeats(program[index].methods)
<1> DEFINE d == program[index]
<1>1. TypeOK /\ index \in DOMAIN program
  <2>1. index <= Len(program) /\ TypeOK
    BY DEF RInv, IInv, VisitClass
  <2> QED
    BY <2>1, SourceTyped
<1>2. CASE d.name \in DOMAIN table
  <2>1. errors' = errors \cup {<<"class defined twice", d.name>>}
    BY <1>2 DEF VisitClass
  <2>2. \/ d.name = Object
        \/ \E j \in 1 .. index - 1 : program[j].name = d.name
    BY <1>2 DEF RInv, IInv, FirstDeclarationWins
  <2>3. \A j \in 1 .. index - 1 : j \in DOMAIN program /\ j # index
    BY <1>1, SourceTyped
  <2>4. ~ Promise!OneEach(program)
    BY <1>1, <2>2, <2>3 DEF Promise!OneEach
  <2> QED
    BY <2>1, <2>4 DEF Promise!WellFormed
<1>3. CASE d.name \notin DOMAIN table
  <2>1. errors' = errors \cup MemberErrors(d)
    BY <1>3 DEF VisitClass
  <2>2. MemberErrors(d) = {} <=> ~ Repeats(d.fields) /\ ~ Repeats(d.methods)
    BY DEF MemberErrors
  <2>3. Promise!OneEach(program) => ~ Repeats(d.fields) /\ ~ Repeats(d.methods)
    BY <1>1 DEF Promise!OneEach, Promise!Repeats, Repeats
  <2> QED
    BY <2>1, <2>2, <2>3 DEF RInv, ReasonsToReject, Promise!WellFormed
<1> QED
  BY <1>2, <1>3

(* The entry of a Main that is declared once is what the source says.      *)
LEMMA MainEntry ==
  ASSUME IInv, index = Len(program) + 1, NEW i \in DOMAIN program,
         program[i].name = Main, table[Main] = InfoOf(program[i]),
         ~ Repeats(program[i].methods)
  PROVE  table[Main].methods = program[i].methods
<1>1. program[i].methods \in Seq(Method)
  BY SourceTyped DEF IInv
<1> QED
  BY <1>1, NoneIsLeftOut DEF InfoOf

(* check_main complains if and only if there is no such Main and main.     *)
LEMMA MainReports ==
  ASSUME RInv, CheckMain
  PROVE  /\ errors' # {} => ~ Promise!WellFormed(program)
         /\ errors' = {} => errors = {} /\ Promise!MainIsThere(program)
<1>1. /\ TypeOK /\ IInv /\ errors' = errors \cup MainErrors
      /\ index = Len(program) + 1
  <2>1. IInv /\ TypeOK /\ index > Len(program) /\ errors' = errors \cup MainErrors
    BY DEF RInv, IInv, CheckMain
  <2> QED
    BY <2>1, SourceTyped
<1>2. DOMAIN program = 1 .. index - 1 /\ DOMAIN program = 1 .. Len(program)
  BY <1>1, SourceTyped
<1>3. ASSUME Promise!WellFormed(program) PROVE MainErrors = {}
  <2>1. PICK i \in DOMAIN program :
          /\ program[i].name = Main
          /\ \E k \in DOMAIN program[i].methods :
               /\ program[i].methods[k].name = main
               /\ program[i].methods[k].formals = <<>>
               /\ program[i].methods[k].ret = Int32
    BY <1>3 DEF Promise!WellFormed, Promise!MainIsThere
  <2>2. PICK k \in DOMAIN program[i].methods :
          /\ program[i].methods[k].name = main
          /\ program[i].methods[k].formals = <<>>
          /\ program[i].methods[k].ret = Int32
    BY <2>1
  <2>3. Promise!OneEach(program)
    BY <1>3 DEF Promise!WellFormed
  <2>4. ~ Repeats(program[i].methods)
    BY <2>3 DEF Promise!OneEach, Promise!Repeats, Repeats
  <2>5. table[Main] = InfoOf(program[i])
    BY <1>1, <1>2, <2>1, <2>3, OwnEntry
  <2>6. Main \in DOMAIN table
    BY <1>1, <2>1, WholeTable DEF Promise!Declared, Promise!Names
  <2>7. table[Main].methods = program[i].methods
    BY <1>1, <2>1, <2>4, <2>5, MainEntry
  <2>8. program[i].methods \in Seq(Method) /\ k \in 1 .. Len(program[i].methods)
    BY <1>1, <2>2, SourceTyped
  <2>9. /\ HasMember(table[Main].methods, main)
        /\ GetMember(table[Main].methods, main) = program[i].methods[k]
    BY <2>2, <2>4, <2>7, <2>8, FoundOnce
  <2> QED
    BY <2>2, <2>6, <2>9 DEF MainErrors
<1>4. ASSUME errors = {}, MainErrors = {} PROVE Promise!MainIsThere(program)
  <2> DEFINE m == GetMember(table[Main].methods, main)
  <2>1. /\ Main \in DOMAIN table /\ HasMember(table[Main].methods, main)
        /\ m.formals = <<>> /\ m.ret = Int32
    BY <1>4 DEF MainErrors
  <2>2. PICK i \in DOMAIN program : program[i].name = Main
    BY <1>1, <2>1, WholeTable, NamesAssumption DEF Promise!Declared, Promise!Names
  <2>3. table[Main] = InfoOf(program[i])
    <3>1. /\ program[i].name # Object
          /\ ~ \E j \in 1 .. i - 1 : program[j].name = program[i].name
      BY <1>1, <1>2, <1>4 DEF IInv, RepeatsReported
    <3> QED
      BY <1>1, <1>2, <2>2, <3>1 DEF IInv, FirstDeclarationWins
  <2>4. ~ Repeats(program[i].methods)
    BY <1>2, <1>4 DEF RInv, SilentMembers
  <2>5. table[Main].methods = program[i].methods
    BY <1>1, <2>2, <2>3, <2>4, MainEntry
  <2>6. PICK k \in DOMAIN program[i].methods : program[i].methods[k].name = main
    BY <2>1, <2>5 DEF HasMember
  <2>7. program[i].methods \in Seq(Method) /\ k \in 1 .. Len(program[i].methods)
    BY <1>1, <2>6, SourceTyped
  <2>8. m = program[i].methods[k]
    BY <2>4, <2>5, <2>6, <2>7, FoundOnce
  <2> QED
    BY <2>1, <2>2, <2>6, <2>8 DEF Promise!MainIsThere
<1> QED
  BY <1>1, <1>3, <1>4 DEF RInv, ReasonsToReject

(* An entry whose parent is missing is a class whose parent is not         *)
(* declared.                                                               *)
LEMMA ParentsReports ==
  ASSUME IInv, index = Len(program) + 1, Promise!WellFormed(program)
  PROVE  ParentsKnown(table)
<1> SUFFICES ASSUME NEW c \in DOMAIN table PROVE table[c].parent \in DOMAIN table
  BY DEF ParentsKnown
<1>1. /\ DOMAIN table = Promise!Declared(program)
      /\ DOMAIN program = 1 .. index - 1
  BY WholeTable, SourceTyped DEF IInv
<1>2. CASE c = Object
  BY <1>2 DEF IInv, FirstDeclarationWins, ObjectInfo
<1>3. CASE c # Object
  <2>1. PICK i \in DOMAIN program : c = program[i].name
    BY <1>1, <1>3 DEF Promise!Declared, Promise!Names
  <2>2. table[c] = InfoOf(program[i])
    BY <1>1, <2>1, OwnEntry DEF Promise!WellFormed
  <2>3. table[c].parent = program[i].parent
    BY <2>2 DEF InfoOf
  <2> QED
    BY <1>1, <2>3 DEF Promise!WellFormed, Promise!ParentsAreDeclared
<1> QED
  BY <1>2, <1>3

(* A class on an endless chain is in a group of classes that extend each   *)
(* other.                                                                  *)
LEMMA CycleReports ==
  ASSUME IInv, index = Len(program) + 1, Promise!WellFormed(program),
         NEW c \in DOMAIN table
  PROVE  ~ Endless(table, c)
<1> SUFFICES ASSUME NEW S \in SUBSET (DOMAIN table \ {Object}), c \in S,
                    \A x \in S : table[x].parent \in S
             PROVE  FALSE
  BY DEF Endless, ClosedUnderExtends
<1>1. S \in SUBSET Promise!Names(program) /\ DOMAIN program = 1 .. index - 1
  BY WholeTable, SourceTyped DEF IInv, Promise!Declared
<1>2. PICK i \in DOMAIN program :
        program[i].name \in S /\ program[i].parent \notin S
  BY <1>1 DEF Promise!WellFormed, Promise!NoCycle
<1>3. table[program[i].name] = InfoOf(program[i])
  BY <1>1, OwnEntry DEF Promise!WellFormed
<1>4. table[program[i].name].parent = program[i].parent
  BY <1>3 DEF InfoOf
<1> QED
  BY <1>2, <1>4

-----------------------------------------------------------------------------
(* The invariant holds at first.                                           *)
LEMMA ReasonsInit == Init => RInv
<1> SUFFICES ASSUME Init PROVE RInv
  OBVIOUS
<1>1. IInv
  BY TableInit
<1>2. errors = {} /\ pc = "collect" /\ 1 .. index - 1 = {}
  BY DEF Init
<1> QED
  BY <1>1, <1>2 DEF RInv, SilentMembers, SilentMain, ReasonsToReject

(* A step that adds no class and no report and goes on in the same or a    *)
(* later stage leaves it as it is.                                         *)
LEMMA QuietStep ==
  ASSUME RInv, IInv', UNCHANGED <<program, index, errors>>,
         pc # "collect" \/ pc' = "collect"
  PROVE  RInv'
<1>1. SilentMembers' /\ ReasonsToReject'
  BY DEF RInv, SilentMembers, ReasonsToReject, Promise!WellFormed,
    Promise!OneEach, Promise!MainIsThere, Promise!ParentsAreDeclared,
    Promise!NoCycle, Promise!Declared, Promise!Names
<1>2. SilentMain'
  BY DEF RInv, SilentMain, Promise!MainIsThere
<1> QED
  BY <1>1, <1>2 DEF RInv

(* Every step of the checks keeps it.                                      *)
LEMMA ReasonsStep == RInv /\ [Next]_vars => RInv'
<1> SUFFICES ASSUME RInv, [Next]_vars PROVE RInv'
  OBVIOUS
<1>1. IInv /\ IInv'
  BY TypeStep, TableStep, StagesStep, SearchStep, ReportsStep DEF RInv, IInv
<1>2. /\ TypeOK /\ index \in Nat /\ index >= 1
      /\ pc # "collect" => index = Len(program) + 1
  BY <1>1, SourceTyped DEF IInv, Stages
<1>3. CASE VisitClass
  <2>1. pc' = "collect" /\ program' = program /\ index' = index + 1
    BY <1>3 DEF VisitClass
  <2>2. 1 .. index' - 1 = (1 .. index - 1) \cup {index}
    BY <1>2, <2>1
  <2>3. SilentMembers'
    BY <1>3, <2>1, <2>2, CollectReports DEF RInv, SilentMembers
  <2>4. SilentMain' /\ ReasonsToReject'
    BY <1>3, <2>1, CollectReports DEF SilentMain, ReasonsToReject
  <2> QED
    BY <1>1, <2>3, <2>4 DEF RInv
<1>4. CASE CheckMain
  <2>1. UNCHANGED <<program, index>>
    BY <1>4 DEF CheckMain
  <2>2. SilentMembers'
    BY <1>4, <2>1, MainReports DEF RInv, SilentMembers
  <2>3. SilentMain' /\ ReasonsToReject'
    BY <1>4, <2>1, MainReports DEF SilentMain, ReasonsToReject
  <2> QED
    BY <1>1, <2>2, <2>3 DEF RInv
<1>5. CASE CheckParents
  <2>1. /\ UNCHANGED <<program, index, table>> /\ pc # "collect"
        /\ errors' = errors \cup
             {<<"unknown parent", c>> :
                c \in {n \in DOMAIN table : table[n].parent \notin DOMAIN table}}
    BY <1>5 DEF CheckParents
  <2>2. errors' = {} => errors = {}
    BY <2>1
  <2>3. SilentMembers' /\ SilentMain'
    BY <2>1, <2>2 DEF RInv, SilentMembers, SilentMain
  <2>4. ReasonsToReject'
    <3>1. SUFFICES ASSUME Promise!WellFormed(program) PROVE errors' = {}
      BY <2>1 DEF ReasonsToReject
    <3>2. ParentsKnown(table)
      BY <1>1, <1>2, <2>1, <3>1, ParentsReports
    <3> QED
      BY <2>1, <3>1, <3>2 DEF ParentsKnown, RInv, ReasonsToReject
  <2> QED
    BY <1>1, <2>3, <2>4 DEF RInv
<1>6. CASE ReportCycle
  <2>1. /\ UNCHANGED <<program, index, table>> /\ pc = "cycles"
        /\ errors' = errors \cup {<<"cycle", Top>>} /\ stack # <<>>
    BY <1>6 DEF ReportCycle, InCall
  <2>2. SilentMembers' /\ SilentMain'
    BY <2>1 DEF RInv, SilentMembers, SilentMain
  <2>3. ReasonsToReject'
    <3>1. SUFFICES ASSUME Promise!WellFormed(program) PROVE FALSE
      BY <2>1 DEF ReasonsToReject
    <3>2. ParentsKnown(table)
      BY <1>1, <1>2, <2>1, <3>1, ParentsReports
    <3>3. Top \in DOMAIN table
      BY <1>2, <2>1, TopTyped DEF Searching
    <3>4. Endless(table, Top)
      BY <1>1, <2>1, <3>2, <3>3 DEF IInv, CycleReportsAreTrue
    <3> QED
      BY <1>1, <1>2, <2>1, <3>1, <3>3, <3>4, CycleReports
  <2> QED
    BY <1>1, <2>2, <2>3 DEF RInv
<1>7. CASE StartCheck \/ ParentMissing \/ CheckParent \/ FinishCheck
           \/ FailCheck \/ EndChecks
  <2>1. pc = "cycles" /\ UNCHANGED <<program, index, errors>>
    BY <1>7 DEF StartCheck, ParentMissing, CheckParent, FinishCheck,
      FailCheck, EndChecks, ParentIsFine, InCall, AfterCall
  <2> QED
    BY <1>1, <2>1, QuietStep
<1>8. CASE UNCHANGED vars
  BY <1>1, <1>8, QuietStep DEF vars
<1> QED
  BY <1>3, <1>4, <1>5, <1>6, <1>7, <1>8 DEF Next

-----------------------------------------------------------------------------
(* When the checks are over, nothing was reported if and only if the       *)
(* program is well formed.                                                 *)
LEMMA VerdictIsRight ==
  ASSUME RInv, pc = "types"
  PROVE  errors = {} <=> Promise!WellFormed(program)
<1>1. /\ TypeOK /\ IInv /\ index = Len(program) + 1
      /\ DOMAIN program = 1 .. index - 1
  <2>1. TypeOK /\ IInv
    BY DEF RInv, IInv
  <2>2. index = Len(program) + 1
    BY <2>1 DEF IInv, Stages
  <2> QED
    BY <2>1, <2>2, SourceTyped
<1>2. SUFFICES ASSUME errors = {} PROVE Promise!WellFormed(program)
  BY DEF RInv, ReasonsToReject
<1>3. Promise!OneEach(program)
  <2>1. \A i \in DOMAIN program :
          /\ program[i].name # Object
          /\ \A j \in 1 .. i - 1 : program[j].name # program[i].name
    BY <1>1, <1>2 DEF IInv, RepeatsReported
  <2>2. ASSUME NEW i \in DOMAIN program, NEW j \in DOMAIN program,
               program[j].name = program[i].name
        PROVE  j = i
    <3>1. i \in Nat /\ j \in Nat /\ (j # i => i \in 1 .. j - 1 \/ j \in 1 .. i - 1)
      BY <1>1, SourceTyped
    <3> QED
      BY <2>1, <2>2, <3>1
  <2>3. \A i \in DOMAIN program :
          /\ ~ Promise!Repeats(program[i].fields)
          /\ ~ Promise!Repeats(program[i].methods)
    BY <1>1, <1>2 DEF RInv, SilentMembers, Promise!Repeats, Repeats
  <2> QED
    BY <2>1, <2>2, <2>3 DEF Promise!OneEach
<1>4. Promise!MainIsThere(program)
  BY <1>1, <1>2 DEF RInv, SilentMain
<1>5. DOMAIN table = Promise!Declared(program)
  BY <1>1, WholeTable
<1>6. ASSUME NEW i \in DOMAIN program
      PROVE  table[program[i].name].parent = program[i].parent
  <2>1. table[program[i].name] = InfoOf(program[i])
    BY <1>1, <1>3, OwnEntry
  <2> QED
    BY <2>1 DEF InfoOf
<1>7. ParentsKnown(table)
  BY <1>1, <1>2 DEF IInv, Stages, Searching
<1>8. Promise!ParentsAreDeclared(program)
  <2>1. \A i \in DOMAIN program : program[i].name \in DOMAIN table
    BY <1>5 DEF Promise!Declared, Promise!Names
  <2> QED
    BY <1>5, <1>6, <1>7, <2>1 DEF ParentsKnown, Promise!ParentsAreDeclared
<1>9. Promise!NoCycle(program)
  <2>1. SUFFICES ASSUME NEW S \in SUBSET Promise!Names(program), S # {},
                        \A i \in DOMAIN program :
                          program[i].name \in S => program[i].parent \in S
                 PROVE  FALSE
    BY DEF Promise!NoCycle
  <2>2. Object \notin S
    BY <1>3 DEF Promise!OneEach, Promise!Names
  <2>3. ClosedUnderExtends(table, S)
    BY <1>6, <2>1 DEF ClosedUnderExtends, Promise!Names
  <2>4. PICK c : c \in S
    BY <2>1
  <2>5. c \in DOMAIN table /\ Endless(table, c)
    BY <1>5, <2>2, <2>3, <2>4 DEF Endless, Promise!Declared
  <2>6. c \in Visited /\ VisitedIsGrounded
    BY <1>1, <1>2, <1>7, <2>5, AtTheEnd, SearchFacts DEF Searching
  <2> QED
    BY <2>5, <2>6, GroundedIsNotEndless
<1> QED
  BY <1>3, <1>4, <1>8, <1>9 DEF Promise!WellFormed

(* What Acceptance can see of a state in which the checks are over.        *)
Decided == pc = "types" => (errors = {} <=> Promise!WellFormed(program))

(* The last step of the checks is the step of Acceptance; all the others,  *)
(* before it, change nothing that Acceptance can see.                      *)
LEMMA Refines ==
  RInv /\ Decided' /\ [Next]_vars => [Promise!Decide]_<<program, Verdict>>
<1> SUFFICES ASSUME RInv, Decided', [Next]_vars
             PROVE  [Promise!Decide]_<<program, Verdict>>
  OBVIOUS
<1>1. CASE EndChecks
  <2>1. /\ pc = "cycles" /\ pc' = "types" /\ program' = program
        /\ errors' = errors
    BY <1>1 DEF EndChecks
  <2>2. Promise!WellFormed(program') <=> Promise!WellFormed(program)
    BY <2>1
  <2>3. errors' = {} <=> Promise!WellFormed(program)
    BY <2>1, <2>2 DEF Decided
  <2>4. Verdict = "pending"
    BY <2>1 DEF Verdict
  <2>5. Verdict' = IF Promise!WellFormed(program) THEN "accepted" ELSE "rejected"
    BY <2>1, <2>3 DEF Verdict
  <2> QED
    BY <2>1, <2>4, <2>5 DEF Promise!Decide
<1>2. CASE UNCHANGED vars
  BY <1>2 DEF vars, Verdict
<1>3. CASE VisitClass \/ CheckMain \/ CheckParents \/ StartCheck
           \/ ParentMissing \/ ReportCycle \/ CheckParent \/ FinishCheck
           \/ FailCheck
  <2>1. pc # "types" /\ pc' # "types" /\ program' = program
    BY <1>3 DEF VisitClass, CheckMain, CheckParents, StartCheck,
      ParentMissing, ReportCycle, CheckParent, FinishCheck, FailCheck,
      ParentIsFine, InCall, AfterCall
  <2> QED
    BY <2>1 DEF Verdict
<1> QED
  BY <1>1, <1>2, <1>3 DEF Next

(* The checks of the class table, in their order and with the search, do   *)
(* nothing but accept, once, the programs that are well formed and reject  *)
(* the others: the safety part of ImplementsAcceptance, for every program. *)
THEOREM ChecksImplementAcceptance ==
  Spec => Promise!Init /\ [][Promise!Decide]_<<program, Verdict>>
<1>1. Init => Promise!Init
  BY DEF Init, Promise!Init, Verdict
<1>2. RInv => Decided
  BY VerdictIsRight DEF Decided
<1> QED
  BY <1>1, <1>2, ReasonsInit, ReasonsStep, Refines, PTL DEF Spec


-----------------------------------------------------------------------------
(* The ancestors of a class, from the smallest set closed under "extends". *)
ParentsNamed == \A c \in DOMAIN table : table[c].parent \in ClassName

LEMMA AncestorsHold ==
  ASSUME NEW c \in ClassName
  PROVE  c \in Walks!AncestorsOf(c) /\ Walks!AncestorsOf(c) \subseteq ClassName
  BY DEF Walks!AncestorsOf

LEMMA AncestorsLeast ==
  ASSUME NEW c \in ClassName, NEW S \in SUBSET ClassName,
         c \in S, Walks!ClosedUpward(S)
  PROVE  Walks!AncestorsOf(c) \subseteq S
  BY DEF Walks!AncestorsOf

LEMMA AncestorsClosed ==
  ASSUME ParentsNamed, NEW c \in ClassName
  PROVE  Walks!ClosedUpward(Walks!AncestorsOf(c))
<1> SUFFICES ASSUME NEW a \in Walks!AncestorsOf(c) \cap DOMAIN table, a # Object
             PROVE  table[a].parent \in Walks!AncestorsOf(c)
  BY DEF Walks!ClosedUpward
<1>1. table[a].parent \in ClassName
  BY DEF ParentsNamed
<1> SUFFICES ASSUME NEW S \in SUBSET ClassName, c \in S, Walks!ClosedUpward(S)
             PROVE  table[a].parent \in S
  BY <1>1 DEF Walks!AncestorsOf
<1>2. a \in S
  BY AncestorsLeast
<1> QED BY <1>2 DEF Walks!ClosedUpward

(* A chain ends at Object, or at a class that is not there.                *)
LEMMA AncestorsOfLast ==
  ASSUME NEW c \in ClassName, c = Object \/ c \notin DOMAIN table
  PROVE  Walks!AncestorsOf(c) = {c}
<1>1. Walks!ClosedUpward({c})
  BY DEF Walks!ClosedUpward
<1> QED BY <1>1, AncestorsHold, AncestorsLeast

(* Everywhere else it goes on with the parent's.                           *)
LEMMA AncestorsOfParent ==
  ASSUME ParentsNamed, NEW c \in ClassName, c \in DOMAIN table, c # Object
  PROVE  Walks!AncestorsOf(c) = {c} \cup Walks!AncestorsOf(table[c].parent)
<1> DEFINE p == table[c].parent
<1>1. p \in ClassName
  BY DEF ParentsNamed
<1> HIDE DEF p
<1>2. Walks!ClosedUpward(Walks!AncestorsOf(p)) /\ Walks!ClosedUpward(Walks!AncestorsOf(c))
  BY <1>1, AncestorsClosed
<1>3. p \in Walks!AncestorsOf(p) /\ Walks!AncestorsOf(p) \subseteq ClassName
  BY <1>1, AncestorsHold
<1>4. c \in Walks!AncestorsOf(c) /\ Walks!AncestorsOf(c) \subseteq ClassName
  BY AncestorsHold
<1>5. Walks!AncestorsOf(c) \subseteq {c} \cup Walks!AncestorsOf(p)
  <2>1. Walks!ClosedUpward({c} \cup Walks!AncestorsOf(p))
    BY <1>2, <1>3 DEF Walks!ClosedUpward, p
  <2> QED BY <1>3, <2>1, AncestorsLeast
<1>6. Walks!AncestorsOf(p) \subseteq Walks!AncestorsOf(c)
  <2>1. p \in Walks!AncestorsOf(c)
    BY <1>2, <1>4 DEF Walks!ClosedUpward, p
  <2> QED BY <1>1, <1>2, <1>4, <2>1, AncestorsLeast
<1> QED BY <1>4, <1>5, <1>6 DEF p

-----------------------------------------------------------------------------
(* The inductive invariant: what a walk in the middle of the chain still   *)
(* knows of the whole.  is_subtype has met neither its goal nor Object; a  *)
(* lookup has passed no class that has the member; ancestor has gathered   *)
(* what it passed, then passed nothing that was gathered.                  *)
SubtypeKept ==
  \A a \in {query.goal, Object} :
    a \in Walks!AncestorsOf(query.from) <=> a \in Walks!AncestorsOf(current)

LookupKept == Walks!Holders(query.from) = Walks!Holders(current)

ChainKept == Walks!AncestorsOf(query.from) = ancestors \cup Walks!AncestorsOf(current)

CommonKept ==
  /\ ancestors = Walks!AncestorsOf(query.from)
  /\ Walks!AncestorsOf(query.from) \cap Walks!AncestorsOf(query.goal)
       = Walks!AncestorsOf(query.from) \cap Walks!AncestorsOf(current)

Lookups == {"lookup_field", "lookup_method"}

QueryTyped ==
  /\ query.fn \in {"is_subtype", "ancestor"} \cup Lookups
  /\ query.from \in ClassName
  /\ query.fn = "ancestor" => query.goal \in ClassName

WalkKept ==
  /\ QueryTyped
  /\ current \in ClassName
  /\ query.fn = "is_subtype" => SubtypeKept
  /\ query.fn \in Lookups => LookupKept
  /\ query.fn = "ancestor" => IF Object \in ancestors THEN CommonKept ELSE ChainKept

WInv == /\ ParentsNamed
        /\ pc # "types" => walk = "idle"
        /\ walk = "busy" => WalkKept
        /\ AnswersAreRight

LEMMA QueriesAreTyped ==
  ASSUME NEW q \in Walks!Query
  PROVE  /\ q.fn \in {"is_subtype", "ancestor"} \cup Lookups
         /\ q.from \in ClassName
         /\ q.fn = "ancestor" => q.goal \in ClassName
  BY DEF Walks!Query, Lookups

-----------------------------------------------------------------------------
(* A question.                                                             *)
LEMMA AskStep ==
  ASSUME WInv, Walks!Ask
  PROVE  WalkKept' /\ walk' = "busy" /\ UNCHANGED table
<1>1. PICK q \in Walks!Query : query' = q /\ current' = q.from
  BY DEF Walks!Ask
<1>2. walk' = "busy" /\ ancestors' = {} /\ UNCHANGED table
  BY DEF Walks!Ask
<1>3. QueryTyped' /\ current' \in ClassName /\ query'.from = current'
  BY <1>1, QueriesAreTyped DEF QueryTyped, Lookups
<1>4. SubtypeKept'
  BY <1>3 DEF SubtypeKept
<1>5. LookupKept'
  BY <1>3 DEF LookupKept
<1>6. ChainKept' /\ Object \notin ancestors'
  BY <1>2, <1>3 DEF ChainKept
<1> QED BY <1>2, <1>3, <1>4, <1>5, <1>6 DEF WalkKept

(* is_subtype.                                                             *)
LEMMA SubtypeStep ==
  ASSUME WInv, Walks!IsSubtype
  PROVE  (walk' = "busy" => WalkKept') /\ AnswersAreRight'
<1>1. /\ walk = "busy" /\ query.fn = "is_subtype" /\ UNCHANGED <<table, query>>
      /\ current \in ClassName /\ QueryTyped /\ SubtypeKept /\ ParentsNamed
  BY DEF WInv, WalkKept, Walks!IsSubtype, Walks!Running, Walks!Answer, Walks!GoOn
<1>2. CASE current \in DOMAIN table /\ current \notin {query.goal, Object}
  <2>1. walk' = "busy" /\ current' = table[current].parent /\ UNCHANGED ancestors
    BY <1>1, <1>2 DEF Walks!IsSubtype, Walks!GoOn, Walks!Answer
  <2>2. current' \in ClassName /\ QueryTyped'
    BY <1>1, <1>2, <2>1 DEF ParentsNamed, QueryTyped
  <2>3. Walks!AncestorsOf(current) = {current} \cup Walks!AncestorsOf(table[current].parent)
    BY <1>1, <1>2, AncestorsOfParent
  <2>4. SubtypeKept'
    <3>1. SUFFICES ASSUME NEW a \in {query.goal, Object}
                   PROVE  a \in Walks!AncestorsOf(query.from)
                            <=> a \in Walks!AncestorsOf(table[current].parent)
      BY <1>1, <2>1 DEF SubtypeKept, Walks!AncestorsOf, Walks!ClosedUpward
    <3> QED BY <1>1, <1>2, <2>3, <3>1 DEF SubtypeKept
  <2>5. WalkKept'
    BY <1>1, <2>2, <2>4 DEF WalkKept, Lookups
  <2>6. AnswersAreRight'
    BY <2>1 DEF AnswersAreRight, Walks!AnswersAreRight
  <2> QED BY <2>5, <2>6
<1>3. CASE ~ (current \in DOMAIN table /\ current \notin {query.goal, Object})
  <2>1. /\ walk' = "answered"
        /\ answer' = IF current = query.goal THEN Yes
                     ELSE IF current = Object THEN No ELSE Nothing
    BY <1>1, <1>3 DEF Walks!IsSubtype, Walks!Answer
  <2>2. current \in Walks!AncestorsOf(current)
    BY <1>1, AncestorsHold
  <2>3. current # query.goal => Walks!AncestorsOf(current) = {current}
    BY <1>1, <1>3, AncestorsOfLast
  <2>4. /\ answer' = Yes <=> query.goal \in Walks!AncestorsOf(query.from)
        /\ answer' = No => Object \in Walks!AncestorsOf(query.from)
        /\ answer' = Nothing => Object \notin Walks!AncestorsOf(query.from)
    BY <1>1, <2>1, <2>2, <2>3, AnswersAssumption DEF SubtypeKept
  <2>5. Walks!SubtypeIsRight'
    BY <1>1, <2>4 DEF Walks!SubtypeIsRight, Walks!AncestorsOf, Walks!ClosedUpward
  <2> QED BY <1>1, <2>1, <2>5 DEF AnswersAreRight, Walks!AnswersAreRight
<1> QED BY <1>2, <1>3

(* lookup_field and lookup_method.                                         *)
LEMMA LookupStep ==
  ASSUME WInv, Walks!Lookup
  PROVE  (walk' = "busy" => WalkKept') /\ AnswersAreRight'
<1> DEFINE Has(c) == Walks!HasMember(Walks!Members(c), query.goal)
<1>1. /\ walk = "busy" /\ query.fn \in Lookups /\ UNCHANGED <<table, query>>
      /\ current \in ClassName /\ QueryTyped /\ LookupKept /\ ParentsNamed
  BY DEF WInv, WalkKept, Walks!Lookup, Walks!Running, Walks!Answer, Walks!GoOn, Lookups
<1>2. /\ current \in Walks!AncestorsOf(current)
      /\ Walks!Holders(current) = {a \in Walks!AncestorsOf(current) \cap DOMAIN table : Has(a)}
  BY <1>1, AncestorsHold DEF Walks!Holders
<1>3. CASE current \in DOMAIN table /\ ~ Has(current) /\ current # Object
  <2>1. walk' = "busy" /\ current' = table[current].parent /\ UNCHANGED ancestors
    BY <1>1, <1>3 DEF Walks!Lookup, Walks!GoOn, Walks!Answer
  <2>2. current' \in ClassName /\ QueryTyped'
    BY <1>1, <1>3, <2>1 DEF ParentsNamed, QueryTyped
  <2>3. Walks!AncestorsOf(current) = {current} \cup Walks!AncestorsOf(table[current].parent)
    BY <1>1, <1>3, AncestorsOfParent
  <2>4. Walks!Holders(query.from) = Walks!Holders(table[current].parent)
    BY <1>1, <1>2, <1>3, <2>3 DEF LookupKept, Walks!Holders
  <2>5. LookupKept'
    BY <1>1, <2>1, <2>4 DEF LookupKept, Walks!Holders, Walks!Members, Walks!AncestorsOf,
                            Walks!ClosedUpward
  <2>6. WalkKept'
    BY <1>1, <2>2, <2>5 DEF WalkKept, Lookups
  <2>7. AnswersAreRight'
    BY <2>1 DEF AnswersAreRight, Walks!AnswersAreRight
  <2> QED BY <2>6, <2>7
<1>4. CASE current \in DOMAIN table /\ Has(current)
  <2>1. walk' = "answered" /\ answer' = current
    BY <1>1, <1>4 DEF Walks!Lookup, Walks!Answer
  <2>2. /\ current \in Walks!Holders(query.from)
        /\ Walks!Holders(query.from) \subseteq Walks!AncestorsOf(current)
    BY <1>1, <1>2, <1>4 DEF LookupKept
  <2>3. Walks!LookupIsRight'
    BY <1>1, <2>1, <2>2 DEF Walks!LookupIsRight, Walks!Nearest, Walks!Holders, Walks!Members,
                            Walks!AncestorsOf, Walks!ClosedUpward
  <2> QED BY <1>1, <2>1, <2>3 DEF AnswersAreRight, Walks!AnswersAreRight, Lookups
<1>5. CASE current \notin DOMAIN table \/ (~ Has(current) /\ current = Object)
  <2>1. walk' = "answered" /\ answer' = Nothing
    BY <1>1, <1>5 DEF Walks!Lookup, Walks!Answer
  <2>2. Walks!Holders(query.from) = {}
    BY <1>1, <1>2, <1>5, AncestorsOfLast DEF LookupKept
  <2>3. Walks!LookupIsRight'
    BY <1>1, <2>1, <2>2 DEF Walks!LookupIsRight, Walks!Holders, Walks!Members,
                            Walks!AncestorsOf, Walks!ClosedUpward
  <2> QED BY <1>1, <2>1, <2>3 DEF AnswersAreRight, Walks!AnswersAreRight, Lookups
<1> QED BY <1>3, <1>4, <1>5

(* ancestor, gathering the chain of the first class.                       *)
LEMMA GatherStep ==
  ASSUME WInv, Walks!GatherChain
  PROVE  (walk' = "busy" => WalkKept') /\ AnswersAreRight'
<1>1. /\ walk = "busy" /\ query.fn = "ancestor" /\ UNCHANGED <<table, query>>
      /\ current \in ClassName /\ QueryTyped /\ ChainKept /\ ParentsNamed
      /\ Object \notin ancestors /\ ancestors' = ancestors \cup {current}
  BY DEF WInv, WalkKept, Walks!GatherChain, Walks!Running, Walks!Dereference, Walks!GoOn
<1>2. walk' # "answered"
  BY <1>1 DEF Walks!GatherChain, Walks!Dereference, Walks!GoOn
<1>3. AnswersAreRight'
  BY <1>2 DEF AnswersAreRight, Walks!AnswersAreRight
<1>4. CASE current = Object
  <2>1. current' = query.goal /\ current' \in ClassName /\ QueryTyped'
    BY <1>1, <1>4 DEF Walks!GatherChain, QueryTyped
  <2>2. ancestors' = Walks!AncestorsOf(query.from) /\ Object \in ancestors'
    BY <1>1, <1>4, AncestorsOfLast DEF ChainKept
  <2>3. CommonKept'
    BY <1>1, <2>1, <2>2 DEF CommonKept, Walks!AncestorsOf, Walks!ClosedUpward
  <2> QED BY <1>1, <1>3, <2>1, <2>2, <2>3 DEF WalkKept, Lookups
<1>5. CASE current # Object /\ current \in DOMAIN table
  <2>1. current' = table[current].parent /\ Object \notin ancestors'
    BY <1>1, <1>5 DEF Walks!GatherChain, Walks!Dereference, Walks!GoOn
  <2>2. current' \in ClassName /\ QueryTyped'
    BY <1>1, <1>5, <2>1 DEF ParentsNamed, QueryTyped
  <2>3. Walks!AncestorsOf(query.from) = ancestors' \cup Walks!AncestorsOf(table[current].parent)
    BY <1>1, <1>5, AncestorsOfParent DEF ChainKept
  <2>4. ChainKept'
    BY <1>1, <2>1, <2>3 DEF ChainKept, Walks!AncestorsOf, Walks!ClosedUpward
  <2> QED BY <1>1, <1>3, <2>1, <2>2, <2>4 DEF WalkKept, Lookups
<1>6. CASE current # Object /\ current \notin DOMAIN table
  BY <1>1, <1>3, <1>6 DEF Walks!GatherChain, Walks!Dereference
<1> QED BY <1>4, <1>5, <1>6

(* ancestor, looking for the first of the second class's that was gathered. *)
LEMMA CommonStep ==
  ASSUME WInv, Walks!FindCommon
  PROVE  (walk' = "busy" => WalkKept') /\ AnswersAreRight'
<1>1. /\ walk = "busy" /\ query.fn = "ancestor" /\ UNCHANGED <<table, query, ancestors>>
      /\ current \in ClassName /\ QueryTyped /\ CommonKept /\ ParentsNamed
      /\ Object \in ancestors
  BY DEF WInv, WalkKept, Walks!FindCommon, Walks!Running, Walks!Answer, Walks!Dereference,
         Walks!GoOn
<1>2. CASE current \in ancestors
  <2>1. walk' = "answered" /\ answer' = current
    BY <1>1, <1>2 DEF Walks!FindCommon, Walks!Answer
  <2>2. current \in Walks!AncestorsOf(current)
    BY <1>1, AncestorsHold
  <2>3. Walks!Nearest(current, Walks!AncestorsOf(query.from) \cap Walks!AncestorsOf(query.goal))
    BY <1>1, <1>2, <2>2 DEF CommonKept, Walks!Nearest
  <2>4. Walks!AncestorIsRight'
    BY <1>1, <2>1, <2>3 DEF Walks!AncestorIsRight, Walks!Nearest, Walks!AncestorsOf,
                            Walks!ClosedUpward
  <2> QED BY <1>1, <2>1, <2>4 DEF AnswersAreRight, Walks!AnswersAreRight
<1>3. CASE current \notin ancestors /\ current \in DOMAIN table
  <2>1. walk' = "busy" /\ current' = table[current].parent
    BY <1>1, <1>3 DEF Walks!FindCommon, Walks!Dereference, Walks!GoOn
  <2>2. current' \in ClassName /\ QueryTyped'
    BY <1>1, <1>3, <2>1 DEF ParentsNamed, QueryTyped
  <2>3. Walks!AncestorsOf(current) = {current} \cup Walks!AncestorsOf(table[current].parent)
    BY <1>1, <1>3, AncestorsOfParent
  <2>4. Walks!AncestorsOf(query.from) \cap Walks!AncestorsOf(query.goal)
          = Walks!AncestorsOf(query.from) \cap Walks!AncestorsOf(table[current].parent)
    BY <1>1, <1>3, <2>3 DEF CommonKept
  <2>5. CommonKept'
    BY <1>1, <2>1, <2>4 DEF CommonKept, Walks!AncestorsOf, Walks!ClosedUpward
  <2>6. WalkKept'
    BY <1>1, <2>2, <2>5 DEF WalkKept, Lookups
  <2> QED BY <2>1, <2>6 DEF AnswersAreRight, Walks!AnswersAreRight
<1>4. CASE current \notin ancestors /\ current \notin DOMAIN table
  <2>1. walk' = "undefined"
    BY <1>1, <1>4 DEF Walks!FindCommon, Walks!Dereference
  <2> QED BY <2>1 DEF AnswersAreRight, Walks!AnswersAreRight
<1> QED BY <1>2, <1>3, <1>4

-----------------------------------------------------------------------------
(* The analysis as a whole.  The checks are over when the first question   *)
(* is asked; neither disturbs what the other one has.                      *)
LEMMA ChecksAreOver == Next => pc # "types"
  BY DEF Next, VisitClass, CheckMain, CheckParents, StartCheck, ParentMissing, ReportCycle,
         CheckParent, FinishCheck, FailCheck, EndChecks, InCall, AfterCall, ParentIsFine

LEMMA WalkStep ==
  ASSUME WInv, Walks!Next, pc = "types", UNCHANGED pc
  PROVE  WInv' /\ UNCHANGED table
<1>1. CASE Walks!Ask
  <2>1. AnswersAreRight'
    BY <1>1, AskStep DEF AnswersAreRight, Walks!AnswersAreRight
  <2>2. WalkKept' /\ walk' = "busy" /\ UNCHANGED table
    BY <1>1, AskStep
  <2>3. ParentsNamed'
    BY <2>2 DEF WInv, ParentsNamed
  <2> QED BY <2>1, <2>2, <2>3 DEF WInv
<1>2. CASE Walks!Step
  <2>1. (walk' = "busy" => WalkKept') /\ AnswersAreRight'
    BY <1>2, SubtypeStep, LookupStep, GatherStep, CommonStep DEF Walks!Step
  <2>2. UNCHANGED table
    BY <1>2 DEF Walks!Step, Walks!IsSubtype, Walks!Lookup, Walks!GatherChain,
                Walks!FindCommon, Walks!Answer, Walks!Dereference, Walks!GoOn
  <2>3. ParentsNamed'
    BY <2>2 DEF WInv, ParentsNamed
  <2> QED BY <2>1, <2>2, <2>3 DEF WInv
<1> QED BY <1>1, <1>2 DEF Walks!Next

AInv == TypeOK /\ WInv

LEMMA AnalysisStart == AnalysisInit => AInv
<1> SUFFICES ASSUME AnalysisInit PROVE AInv
  OBVIOUS
<1>1. TypeOK
  BY TypeInit DEF AnalysisInit
<1>2. walk = "idle"
  BY DEF AnalysisInit, Walks!Init
<1> QED BY <1>1, <1>2 DEF AInv, WInv, TypeOK, ParentsNamed, AnswersAreRight,
                          Walks!AnswersAreRight

LEMMA AnalysisStep == AInv /\ [AnalysisNext]_allVars => AInv'
<1> SUFFICES ASSUME AInv, [AnalysisNext]_allVars PROVE AInv'
  OBVIOUS
<1>1. CASE Next /\ UNCHANGED walkVars
  <2>1. TypeOK'
    BY <1>1, TypeStep DEF AInv
  <2>2. walk = "idle" /\ walk' = "idle"
    BY <1>1, ChecksAreOver DEF AInv, WInv, walkVars
  <2> QED BY <2>1, <2>2 DEF AInv, WInv, TypeOK, ParentsNamed, AnswersAreRight,
                            Walks!AnswersAreRight
<1>2. CASE pc = "types" /\ Walks!Next /\ UNCHANGED <<program, pc, index, errors, dfs>>
  <2>1. WInv' /\ UNCHANGED table
    BY <1>2, WalkStep DEF AInv
  <2>2. UNCHANGED vars
    BY <1>2, <2>1 DEF vars
  <2> QED BY <2>1, <2>2, TypeStep DEF AInv
<1>3. CASE UNCHANGED allVars
  <2>1. UNCHANGED vars /\ UNCHANGED walkVars
    BY <1>3 DEF allVars
  <2>2. TypeOK'
    BY <2>1, TypeStep DEF AInv
  <2>3. WInv'
    BY <2>1 DEF AInv, WInv, vars, walkVars, ParentsNamed, WalkKept, QueryTyped, SubtypeKept,
                LookupKept, CommonKept, ChainKept, AnswersAreRight, Walks!AnswersAreRight,
                Walks!SubtypeIsRight, Walks!LookupIsRight, Walks!AncestorIsRight,
                Walks!Nearest, Walks!Holders, Walks!Members, Walks!AncestorsOf,
                Walks!ClosedUpward
  <2> QED BY <2>2, <2>3 DEF AInv
<1> QED BY <1>1, <1>2, <1>3 DEF AnalysisNext

(* Whatever was reported of the program, the type visitor's questions get  *)
(* true answers, for hierarchies of any size.                              *)
THEOREM AnswersCorrect == AnalysisSpec => []AnswersAreRight
<1>1. AInv => AnswersAreRight
  BY DEF AInv, WInv
<1> QED BY AnalysisStart, AnalysisStep, <1>1, PTL DEF AnalysisSpec

-----------------------------------------------------------------------------
(* What holds beside that in an accepted program: a walk uses only classes *)
(* of the table, and is_subtype always knows.  This is the safety part of  *)
(* AcceptedWalksEnd.                                                       *)
AcceptedWalksAreDefined ==
  pc = "types" /\ errors = {} =>
    /\ walk # "undefined"
    /\ walk = "answered" /\ query.fn = "is_subtype" /\ query.from \in DOMAIN table
         => answer # Nothing

(* A walk that began in the table is in it.                                *)
StaysInside ==
  pc = "types" /\ errors = {} =>
    /\ walk = "busy" /\ query.fn \in {"is_subtype", "ancestor"} /\ query.from \in DOMAIN table
         => current \in DOMAIN table
    /\ walk = "busy" /\ query.fn = "ancestor" => {query.from, query.goal} \subseteq DOMAIN table

DInv == IInv /\ WInv /\ AcceptedWalksAreDefined /\ StaysInside

LEMMA InsideStep ==
  ASSUME DInv, Walks!Next, pc = "types", errors = {}, UNCHANGED <<pc, errors>>
  PROVE  AcceptedWalksAreDefined' /\ StaysInside'
<1>1. \A c \in DOMAIN table : table[c].parent \in DOMAIN table
  BY DEF DInv, IInv, Stages, Searching, ParentsKnown
<1>2. CASE Walks!Ask
  <2>1. PICK q \in Walks!Query : query' = q /\ current' = q.from
    BY <1>2 DEF Walks!Ask
  <2>2. walk' = "busy" /\ UNCHANGED table
    BY <1>2 DEF Walks!Ask
  <2>3. q.fn = "ancestor" => {q.from, q.goal} \subseteq DOMAIN table
    BY DEF Walks!Query
  <2> QED BY <2>1, <2>2, <2>3 DEF AcceptedWalksAreDefined, StaysInside
<1>3. CASE Walks!IsSubtype
  <2>1. UNCHANGED <<table, query>> /\ walk = "busy" /\ query.fn = "is_subtype"
    BY <1>3 DEF Walks!IsSubtype, Walks!Running, Walks!Answer, Walks!GoOn
  <2>2. \/ walk' = "busy" /\ current \in DOMAIN table /\ current' = table[current].parent
        \/ walk' = "answered" /\ (current \in DOMAIN table => answer' # Nothing)
    BY <1>3, <2>1, AnswersAssumption DEF Walks!IsSubtype, Walks!Answer, Walks!GoOn
  <2> QED BY <1>1, <2>1, <2>2 DEF DInv, AcceptedWalksAreDefined, StaysInside
<1>4. CASE Walks!Lookup
  <2>1. query.fn \in Lookups /\ UNCHANGED query /\ walk' \in {"busy", "answered"}
    BY <1>4 DEF Walks!Lookup, Walks!Running, Walks!Answer, Walks!GoOn, Lookups
  <2> QED BY <2>1 DEF AcceptedWalksAreDefined, StaysInside, Lookups
<1>5. CASE Walks!GatherChain \/ Walks!FindCommon
  <2>1. walk = "busy" /\ query.fn = "ancestor" /\ UNCHANGED <<table, query>>
    BY <1>5 DEF Walks!GatherChain, Walks!FindCommon, Walks!Running, Walks!Answer,
                Walks!Dereference, Walks!GoOn
  <2>2. {query.from, query.goal, current} \subseteq DOMAIN table
    BY <2>1 DEF DInv, StaysInside
  <2>3. \/ walk' = "busy" /\ current' \in {query.goal, table[current].parent}
        \/ walk' = "answered"
    BY <1>5, <2>1, <2>2 DEF Walks!GatherChain, Walks!FindCommon, Walks!Answer,
                            Walks!Dereference, Walks!GoOn
  <2> QED BY <1>1, <2>1, <2>2, <2>3 DEF AcceptedWalksAreDefined, StaysInside
<1> QED BY <1>2, <1>3, <1>4, <1>5 DEF Walks!Next, Walks!Step

LEMMA InsideKept == DInv /\ [AnalysisNext]_allVars => DInv'
<1> SUFFICES ASSUME DInv, [AnalysisNext]_allVars PROVE DInv'
  OBVIOUS
<1>1. WInv'
  BY AnalysisStep DEF DInv, AInv, IInv
<1>2. IInv'
  <2>1. [Next]_vars
    <3>1. CASE Next /\ UNCHANGED walkVars
      BY <3>1
    <3>2. CASE pc = "types" /\ Walks!Next /\ UNCHANGED <<program, pc, index, errors, dfs>>
      BY <3>2, WalkStep DEF DInv, vars
    <3>3. CASE UNCHANGED allVars
      BY <3>3 DEF allVars
    <3> QED BY <3>1, <3>2, <3>3 DEF AnalysisNext
  <2> QED BY <2>1, TypeStep, TableStep, StagesStep, SearchStep, ReportsStep DEF DInv, IInv
<1>3. AcceptedWalksAreDefined' /\ StaysInside'
  <2>1. CASE Next /\ UNCHANGED walkVars
    <3>1. walk' = "idle"
      BY <2>1, ChecksAreOver DEF DInv, WInv, walkVars
    <3> QED BY <3>1 DEF AcceptedWalksAreDefined, StaysInside
  <2>2. CASE pc = "types" /\ Walks!Next /\ UNCHANGED <<program, pc, index, errors, dfs>>
    <3>1. CASE errors = {}
      BY <2>2, <3>1, InsideStep
    <3>2. CASE errors # {}
      BY <2>2, <3>2 DEF AcceptedWalksAreDefined, StaysInside
    <3> QED BY <3>1, <3>2
  <2>3. CASE UNCHANGED allVars
    BY <2>3 DEF allVars, vars, walkVars, DInv, AcceptedWalksAreDefined, StaysInside
  <2> QED BY <2>1, <2>2, <2>3 DEF AnalysisNext
<1> QED BY <1>1, <1>2, <1>3 DEF DInv

(* In an accepted program no walk dereferences a class that is not there,  *)
(* and is_subtype answers for every class of the table.                    *)
THEOREM WalksAreDefined == AnalysisSpec => []AcceptedWalksAreDefined
<1>1. AnalysisInit => DInv
  <2> SUFFICES ASSUME AnalysisInit PROVE DInv
    OBVIOUS
  <2>1. IInv /\ WInv
    BY TableInit, AnalysisStart DEF AnalysisInit, AInv
  <2>2. walk = "idle"
    BY DEF AnalysisInit, Walks!Init
  <2> QED BY <2>1, <2>2 DEF DInv, AcceptedWalksAreDefined, StaysInside
<1>2. DInv => AcceptedWalksAreDefined
  BY DEF DInv
<1> QED BY InsideKept, <1>1, <1>2, PTL DEF AnalysisSpec
=============================================================================

# A verification of Khthon, the VSOP compiler

Khthon (`src/` of this repository) translates VSOP, a small class-based
language, to LLVM IR. This directory holds TLA+ models of its core, the TLC
configurations that check them on small instances, and proofs for TLAPS.

The compiler is one thread: a scanner and a Bison parser build the tree, the
semantic analysis fills a class symbol table and checks it, two visitors walk
the tree, and the code generator fills an LLVM module. What is hard in it is
not concurrency but *order and leftovers*: passes that go on after errors, a
depth-first search whose marks outlive the call that made them, walks over a
hierarchy that may be cyclic or broken, scopes that must be popped on every way
out of a visit, a scanner location that each rule must leave where the next one
needs it, loops that fill a module each relying on what the earlier ones put
there, error recovery that drops half of a file and must have said so, calls
that are compiled against one class and run on another, loops emitted inside
loops whose blocks later code must name, and input that one call puts back for
the next.

## 1. Inventory

| component | state | operations | talks to | what makes it correct |
|---|---|---|---|---|
| Command line, `main.cpp` | action, file | four flags | Driver | the action of the last flag is run |
| Driver, `driver.cpp` | error and warning counts, diagnostics, the tree | `lex`, `parse`, `analyze`, `generate`, `report` | all | exit code and output agree with what was reported; code is generated only from a clean tree |
| Lexer, `lexer.lex` | start condition, stack of comment starts, current string, location | one rule per token, string and comment rules | Driver (errors), Parser (tokens) | tokens carry the place where they are; comments nest; every input ends |
| Parser, `parser.y` | Bison's stack of states and values, recovery counter | shift, reduce with the action of each of 77 rules, recover | Lexer, AST, Driver | the tree holds all of the source in its order, grouped as the manual says, or something was reported; `parse()` ends |
| AST and visitors, `ast.*`, `visitors.hpp` | the tree, the types set on expressions | `accept` | visitors | every expression is typed exactly once |
| ClassesVisitor, `classes_visitor.cpp` | none of its own | visit a program, visit a class | class table, Driver | the table holds the first class of each name |
| ClassManager, `semantics.cpp` | the class table | `add_class`, `is_subtype`, `ancestor`, `lookup_*`, `collect_*` | SemanticChecker, code generator | walks end, and answer what the hierarchy says |
| SemanticChecker, `semantics.cpp` | the manager, the visit states of the search | `analyze`, `check_main`, `check_parent_classes_exist`, `check_inheritance_cycles` | ClassesVisitor, TypesVisitor | exactly the ill-formed programs are rejected, for a true reason |
| ScopeManager, `semantics.cpp` | stack of scopes | push, pop, bind, look up | TypesVisitor | scopes are balanced, the innermost binding wins |
| TypesVisitor, `types_visitor.cpp` | current class | one visit per node | ClassManager, ScopeManager | no error means every expression is typed and conforms |
| CodeGenOrchestrator, `generation.cpp` | struct types, vtable types, slot and field indices, functions, vtables | the eleven steps of `generate` | ClassManager, CodeGenVisitor | a child's vtable and struct extend its parent's; every slot is filled; nothing is used before it is declared |
| CodeGenVisitor, `codegen_visitor.cpp` | the blocks of a function, the insertion point, strings | one visit per expression; several are stubs | Orchestrator | LLVM accepts the code, it ends, and it computes and calls what the manual says; a call runs the most derived method |
| Object runtime, `runtime/object.c` | stdin, the heap | print and input methods, constructor | generated code | buffers hold their terminator, input ends |
| Utils, Mangling | none | encode, decode, mangle | Lexer, code generator | decoding undoes encoding; names stay apart |
| PrintVisitor, Diagnostics, Types, Operators | none | formatting, tables | Driver, TypesVisitor | |

`PROJECT.json` lists each of them with its status, and under `hazards` what in
the code is hard to test, at its line, with the properties that watch it.

## 2. The modules

| module | models | extends or uses |
|---|---|---|
| `Members` | lists of named members: `get_*`, `add_field`, `add_method`, and the loop of `collect_methods` | |
| `Program` | a program as the analysis sees it, table entries, `add_class` | `Members` |
| `Semantics` | `ClassesVisitor`, `check_main`, `check_parent_classes_exist`, `check_inheritance_cycles`, in the order of `analyze` | `Program` |
| `Acceptance` | the abstract promise: a program is accepted if it is well formed, rejected otherwise | `Program` |
| `Ancestry` | the loops of `is_subtype`, `lookup_field`, `lookup_method`, `ancestor`, one turn a step | `Program` |
| `Analysis` | `Semantics` followed by any sequence of questions of the type visitor | `Semantics`, `Ancestry` |
| `ClassTable` | `collect_fields`, `collect_methods` | `Program` |
| `Generation` | `CodeGenOrchestrator::generate`, one turn of one loop a step | `ClassTable`, `Acceptance` |
| `Dispatch` | `CallExpr` and the execution of a call in the generated program | `Generation` |
| `Lexemes` | what words, signs, strings, comments and blanks are, without a scanner, and when a file is cut into such pieces | |
| `Lexer` | the rules of `lexer.lex` with their start conditions, and `Driver::lex` around them | `Lexemes` (for the property) |
| `Grammar` | the rules of `parser.y`: what their actions build and report, and the declared precedences | |
| `Automaton` | what Bison makes of a list of rules: states, look-aheads, settled conflicts (external) | `Grammar` |
| `Parser` | the run of that automaton over a file, with Bison's error recovery, and what the driver is left with | `Grammar`, takes the tables as a constant |
| `ParseOutcomes` | what the driver expects of a parse | |
| `Driver` | `lex`, `parse`, `analyze`, `generate` of the driver, from the command line's action to the exit code | `ParseOutcomes` |
| `Compiler` | the composition of the two: the driver calls the parser and goes on with what it left | `Driver`, `Parser` |
| `Types` | `TypesVisitor` and `ScopeManager` over a tree | `ClassTable` |
| `Literals` | the pieces of a string literal through the scanner, `to_printable` and `decode` | |
| `Emission` | `CodeGenVisitor` and `emit_method`: one `accept` or the end of one visit a step | `Literals` |
| `Execution` | LLVM's checks of the emitted function and its run (external) | `Emission` |
| `Meaning` | the manual's evaluation of an expression, against what its code does | `Execution` |
| `Mangling` | the names given to functions, constructors, initializers and vtables | |
| `Reader` | the input methods of `runtime/object.c` | |
| `Lexer_proofs`, `Reader_proofs` | theorems about the module they are named after | that module |
| `Output_proofs` | theorems about what comes of the compiler: `Driver`, and the code of `Emission` and `Execution` | `Driver`, `Execution`, `Induction` |
| `Analysis_proofs` | theorems about `Semantics`, its refinement of `Acceptance`, and `Analysis` | `Analysis`, `Induction` |
| `Dispatch_proofs` | theorems about `Generation`, `Dispatch` and `Mangling` | `Dispatch`, `Hierarchies` |
| `Types_proofs` | theorems about `Types` | `Types`, `Hierarchies` |
| `Hierarchies` | lemmas about the ways from a class to `Object` | `ClassTable`, `Induction` |
| `Induction` | induction as lemmas about sets, loops that are recursive functions, sequences | `TLAPS` |
| `MCSemantics`, `MCAnalysis`, `MCDispatch`, `MCLexer`, `MCCompiler`, `MCTypes`, `MCExecution`, `MCReader` | the small instances | |

### How the state corresponds to the code

`Semantics`. `table` is `class_table_`; `states` is the map of
`check_inheritance_cycles`; the recursion of `cycle_check` is the sequence
`stack` of the classes it was called for, `returned` the value that the call
just returned hands to its caller. `errors` keeps a set of *(kind, class)*
instead of the list of diagnostics. A C++ `std::map` is walked by name; names
are uninterpreted here, so the loop takes any class left in `todo`: each order
is the order of some choice of names. Each `return` of `cycle_check` is an
action: the parent is missing (`ParentMissing`, true, mark left behind), it is
being visited (`ReportCycle`, false), the recursive call failed (`FailCheck`),
or all is well (`FinishCheck`).

`Ancestry`. `query` is the call, `current` the local variable of its loop. The
table is whatever `Semantics` left, errors or not, because `analyze` goes on in
any case. Dereferencing the empty optional of a missing class is the outcome
`"undefined"`, after which nothing is asked. For `ancestor` only the calls its
wrapper lets through are asked.

`Generation`. `loops` holds the loops of `generate` that are still to finish
and `index` the class the first of them is at. The module is abstracted to
what calls depend on: struct types that exist, the method of each vtable slot,
the field of each struct slot, the functions (what they do and their types,
without `self`) and the vtable constants. A lookup with `at()` that fails, or a
null struct type, leaves the step disabled: `generate` goes no further, which
is a deadlock. Functions are named by pairs of class and method: the names of
`Mangling` are taken to be apart, which `Dispatch_proofs` proves of the classes
whose names have no two underscores in a row and none at their end.

`Dispatch`. A call has a static class, the class of the object and a method;
the slot is looked up for the first, the function read from the vtable of the
second, thunks followed until code is reached that is no thunk. Where the call
comes from is left out: any body may make any call its static type allows.

`Lexer`. A step is one match of a rule: the location moves over the match, as
`YY_USER_ACTION` does, then the action runs. A file is a sequence of kinds of
characters; `read` is how far it has been matched, `condition` flex's start
condition, `starts` the stack of comment starts, `string` the place kept for
the string. Where the code keeps a place, the model keeps with it the index of
the character it is meant to be of, so that a property can tell whether the two
agree. The longest match is part of each rule. A file also says where its
pieces are meant to be cut; the scanner never looks at that. `Clean` tells
whether every piece is a word, a sign, a string, a comment or a run of blanks as
`Lexemes` defines them: by which characters it consists of, where its
backslashes escape, how deep its comment marks nest at each place. What strings
hold is in `Literals`; the spelling of keywords and the values of integer
literals are left out.

`Parser`. `stack` and `values` are Bison's `yystack_`, `recovering` its
`yyerrstatus_`. The states are numbers of the tables `Machine`, which
`Automaton` computes from the 77 rules as Bison does: the item sets, the
look-aheads, conflicts settled by the declared levels, default reductions, and
"consistent" states that reduce without reading a token. The generated files are
not in the repository, so that all of this is external and from Bison's
documented construction. Look-aheads are SLR ones: no state completes two rules
(`MachineAssumption`, which TLC evaluates), so LALR ones decide the same. A
token is its kind; a tree is a record of a node and its children, the leaves
being tokens with their places. `YYerror` is what the lexer returns after it has
reported an error. `Outcome` is what `parse()` leaves: what was reported, whether
Bison gave up, and whether the tree, read back in the language's syntax
(`Text`), is the whole file, part of it, or missing.

`Driver`. `pc` is where the pipeline is. What the scanner alone, the analysis and
the code generation report is free. `parse` is what the parser makes of the
file: any member of `Parses` in `Driver` itself and its proofs, what `Parser`
does to one in `Compiler`. `"lost"` is the use of a missing tree.

`Compiler`. A request is an action and a file. The driver waits at `"scan"`
while the parser runs (`ParserStep`); when it returns, `parse` becomes
`Outcome`. `OutcomeIsExpected` is the link between the two: what `Driver` and its
theorems take as given is what the parser does.

`Types`. The tree is a record of an operator, a name, a type and children; a
node is named by its path. The recursion of the visits is `stack`: each entry is
a node and the child to visit next, so that a visit that returns early, as many
do, is an entry popped with children left unvisited. `scopes` is the vector of
the ScopeManager; `types` the types set so far; `errors` the places reported.
The class table is the one the classes pass makes of the tree; it has no class
errors, since `Ancestry` shows what those do to the walks.

`Emission`. The recursion of the visits is `visits`: each entry is a node and
what the visits of its children have returned; `Accept` enters the next child,
the other actions are what a visit does once its children are done. `blocks`
are the basic blocks of the function, `block` the insertion point; a power
makes three of them and leaves the builder in the last. A visit that is a stub
returns a null pointer; using one, or asking for a null of type void, is
`"crashed"`. The `IRBuilder` folds constants, which is left out: here each
operation is an instruction, as it is when its operands are not constants, and
the checks and the results do not depend on it. Methods are trees with the types
`TypesVisitor` sets and accepts (`BodiesAssumption`): the operands of an operation
are of its types, a block is of the type of its last expression, a call has as
many arguments as formals. The children of stubs are never looked at, and have
any type. `Execution` then verifies the function as LLVM does (`WellFormed`:
blocks end in one terminator, phis have a value for each entering block,
operands dominate their uses, types fit) and runs it, with integers that wrap.
`Half` is 2^31 in the code. `Meaning` evaluates the expression by recursion and
compares.

`Literals`. Characters are their codes. A piece is one match of a scanner rule
inside a string: a character, an escape, or a line break. `TokenOf` is what the
scanner puts into the token, `Decode` what the code generator makes of that.

`Reader`. A step is one `getc` of one of the two loops; the buffer has its
capacity, its garbage and its terminator. A character that is put back is one
that is not taken. `malloc` and `realloc` may fail at each call.

Operators called a *slip* in the modules are mutated forms of the definition
after them: plausible mistakes in that code. They are not used by any
specification; each shows that a property would notice the mistake.

## 3. What is checked

| run | instance | properties | result |
|---|---|---|---|
| `semantics` | three classes and `Main`, every parent among them, `Object` and a missing class; and sources of up to two classes with repeated names and members, `Object` redefined, every wrong `Main`; every order of the search | `TypeOK`, `CycleReportsAreTrue`, `MarksTellCycles`, `FirstDeclarationWins`, `AcceptedTableIsSound`, `Terminates`, `ImplementsAcceptance` | hold |
| `analysis` | three classes, 125 hierarchies, overriding and hiding members, any question after any other | `AnswersAreRight`, `AcceptedWalksEnd` | hold |
| `dispatch` | all 16 hierarchies of three classes in a fixed order, which is every hierarchy in every source order up to names; 125 choices of methods | `ClassesExtendTheirParents`, `FieldIndexIsNearest`, `VtablesAreComplete`, `BodiesFindTheirReferences`, `CallsReachTheOverride`, `CallsAgreeOnTypes`, `ThunksGoUp` | hold |
| `lexer` | every file of up to 3 characters of any kind, of up to 6 of those that matter in comments, of up to 6 of those that matter in strings, and every composition of up to 3 of eight texts; those of 3 characters cut in every clean way | `EndIsTrue`, `TokensAreInPlace`, `CommentsAreOpen`, `CleanIsScanned`, `ScanEnds` | hold |
| `driver` | some eleven thousand files: three programs that use most rules and every file that a token less, more or other makes of them, a small program with two mistakes, and expressions of two operators around one another; all are parsed, the programs and small files are compiled with every action; later passes that report up to four things | `OutcomeIsExpected`, `TreeFollowsTheManual`, `CleanIsAccepted`, `DiagnosticsAreShown`, `SuccessMeansOutput`, `CodeIsFromAccepted`, `ParseEnds` | hold |
| `emission` | some six thousand methods: operations around operations, powers in powers, calls at every place, stubs, strings of up to three pieces of every kind | `WrittenIsCompiled`, `ReturnedIsMeant`, `RunEnds` | hold |
| `types` | a class with a field and a method, a child of it with one or two members, and in these some four thousand expressions of every kind | `SilenceIsSound`, `ErrorsAreTrue`, `ScopesFollowTheTree`, `AcceptedIsTyped`, `NothingEscapes` | hold |
| `reader` | every input of up to five letters, digits, blanks and newlines, any calls in any order, a buffer that begins with one character | `TypeOK`, `BufferFits`, `StringIsInput`, `CallsEnd` | hold |
| `analysis_endless_walk` | as `analysis` | `WalksEnd` | violated |
| `dispatch_any_order` | as `dispatch` | `CallsReachInAnyOrder` | violated |
| `driver_exit` | the file of the test `43-missing-closing-brace` | `ExitTellsSyntax` | violated |
| `reader_lines` | as `reader` | `LinesAreTaken` | violated |

The violated ones are disagreements between the code and what it or its
documents say; the findings of `PROJECT.json` quote both. In short:

* after a true cycle report the analysis goes on and a lookup may never return;
* a class written before its parent gets thunks that miss the parent's methods;
* a syntax error that Bison does not recover from is neither reported nor told
  by the exit code, and leaves the analysis without a tree;
* the newline that ended a line is never taken, so `inputLine` reads one line
  and then empty ones.

The modules state some more of these claims, after the properties that hold.
They have no run of their own; TLC refutes each when it takes the place of the
properties of the module's passing run. They are why the passing properties
have the premises they have:

* `NoFalseCycle` (`Semantics`): a class that extends one with an unknown parent
  can be reported to be in an inheritance cycle, because the search leaves a
  mark behind (`semantics.cpp:466`);
* `AncestorIsDefined` (`Analysis`): `ancestor` uses a parent that does not
  exist (`semantics.cpp:188`);
* `CallsOnObjectReach` (`Dispatch`): a call on a receiver of type `Object` runs
  `print`, whatever it calls (`generation.cpp:688`);
* `AcceptedCallsAgree` (`Dispatch`): an override with another signature is
  accepted (`semantics.cpp:91`);
* `LocationIsCurrent`, `StartsArePositions`, `NewTokensArePrepared` (`Lexer`): a
  bare newline in a string is not counted as a line; a comment nested right
  behind the opening of another one, and a token right behind the end of a
  comment, are given the place of what is before them (`lexer.lex:329`, `360`,
  `363`);
* `SyntaxErrorsAreReported`, `MinusBindsTightly` (`Parser`): an error that Bison
  gives up at is not reported, and the unary minus has the level of the binary
  one, so that `-a*b` is `-(a*b)` (`parser.y:672`, `154`);
* `AndShortCircuits`, `StringsAreCompared` (`Meaning`): the emitted code evaluates
  both operands of `and` and compares the addresses of strings
  (`codegen_visitor.cpp:254`);
* `ChildrenServe`, `UnitsAreReturned`, `EmptyBlocksAreUnits` (`Execution`): it does
  not cast an argument or a result to its parent's type, names the value of a
  call that has none, and an empty block stops the compiler
  (`codegen_visitor.cpp:148`). What the method of `Emission` has as
  formals and its class as fields is not in the model: one of type `unit` would
  be a parameter or an element of type void, which LLVM rejects, and is outside
  what `WrittenIsCompiled` and `WrittenCorrect` claim;
* `NoErrorLeft`, `RootIsThere` (`Driver`): warnings stop the code generation
  after it has been done, and the analysis uses a tree that may be missing
  (`driver.cpp:207`, `semantics.cpp:547`);
* `InitializersFit`, `SelfIsOfMethods`, `UndefinedIsNotChecked` (`Types`): the
  initializer of a field may be of any type and may use `self`; the undefined
  type of a malformed method is checked like any other
  (`types_visitor.cpp:194`, `457`, `169`).

The passing properties say what is true in spite of them: reports and marks
are right when all parents exist, walks end and are defined in an accepted
program, calls reach the override when parents come first, the static type is
not `Object` and overrides keep their signature; the end of the location is
right in files without such newlines and so is the place of every token that
does not follow a comment; a compiler with a tree that ends with 0 has put out
what it was asked for; the operators but the unary minus group as the manual says;
code of exact types, without the parts that are still stubs, computes what it
should; strings are what was read.

`OutcomeIsExpected` is about error recovery: Bison pops states and drops tokens
until an error rule fits, and whatever was popped or dropped must have been
reported. It compares the file with the tree read back, so that an action that
swaps or loses a value breaks it as well as a rule that does not report.
`TreeFollowsTheManual` states the manual's table of operators over the tree, not
over declarations.

`SilenceIsSound` and `ErrorsAreTrue` compare the visitor with typing rules
(`Derives`) that know neither scopes nor an order of visits: what an identifier
means is found by looking at the nodes around it. Together they say that the
visitor reports an expression if and only if the rules give it no type.
`NothingEscapes` is about its early returns and the types it recovers with: what
they must not do is lose another mistake. Whatever else is wrong, a member is
reported if and only if it mentions a class that does not exist or its body does
not conform to its result, and whatever is below a node or beside it is looked
at. The exception is what the code does: the value of an assignment to a name
that means nothing is not visited (`types_visitor.cpp:309`).

### Bounds

Three classes besides `Main` and `Object` are enough for a cycle that is not
one's own, a chain into a cycle, two classes below one missing parent, a
grandparent, siblings, and a class between its parent and its child in the
source. Two members of one name are enough to be a repetition. `main` is wrong
in each way `check_main` tests, alone and in pairs. In `dispatch` the methods
are a built-in that is never overridden, one that may be, and a new one with
two signatures, so that slots shift, thunks chain over two levels and types
disagree.

In `lexer` three characters reach every pair of rules one after the other, and
six a comment in a comment, or a string broken over two lines with an escape in
it; the composed files are clean (`CompositionsAreClean`), and longer. In `driver`
a mistake at every place of programs that use most rules reaches each error
rule with its neighbours, a second mistake comes while the parser still
recovers from the first, and two operators around one another are every pair of
levels on either side; two diagnostics tell a count from a flag. The states of
the automaton are found within `DepthBound` = 14 symbols of the first one: a
state further away would have no number, and TLC would stop. In `emission` a
power in either operand of a power splits the blocks at each place where phis
name one; integers of four bits make powers and products wrap, and exponents of
either sign end the loop. In `types` the expressions have a
binding, a use and an assignment in every position relative to one another,
inside two scopes of one name and in a field that hides another. In `reader` a
capacity of 1 makes the buffer grow at its first character and again at its
second and fourth. There is no state constraint and no symmetry reduction; the models
have no unbounded counters, since the stack of the search never holds a class
twice (`NothingAbandoned` and `CallsAreAChain` of the proof).

`CHECK_DEADLOCK FALSE` is set where the program really stops: `analyze` ends
when its questions are answered, and the undefined outcome has no successor.
The scanner, the driver, the emitted functions and the input methods stop too, at
the end of the file, at the exit, at the return and at `exit(EXIT_FAILURE)`; that
they get there is `ScanEnds`, `ParseEnds`, `RunEnds` and `CallsEnd`. The other
runs check deadlock: a generation that got stuck would be one, since there is
always a call to make once it has come to its end, and so would be a visit of a
tree, which may stop at the end of the tree only (`MCSpec` in `MCTypes`).

### Fairness

The compiler is a single thread that runs until it returns, so weak fairness
of the whole next-state relation is what the code gives (`FairSpec`). In
`Analysis` the steps of the checks and of a walk are fair, asking is not: how
many questions there are is up to the program. The
scanner runs until it returns, so the whole of its next-state relation is fair.
The type visitor does too, but there is nothing to say of it: its visits go down
a finite tree, and end because it is one. In `Reader` the turns of a call are fair, calls are
not, and input is whatever was given: standard input that never ends is not
modelled, and one that keeps a reader waiting is no different from one that
makes a step take long. In `Compiler` the parser's steps are fair: it runs until
it returns. In `Execution` the whole next-state relation is, the emitted function
running on the one thread of its program. `Dispatch` states safety only; that
`generate` gets to its end is the absence of deadlock, and that a call gets to a
body is `ThunksGoUp`.

## 4. What is proved

`Analysis_proofs` proves of the checks, for every set of names and programs that satisfy
`NamesAssumption` and `ProgramsAssumption` (that is, for sources of any length
and hierarchies of any size):

* `TypeCorrect`: the state keeps its shape;
* `TableCorrect`: the table is that of the first declarations;
* `ReportsCorrect`: reported cycles are true if every parent exists;
* `MarksCorrect`: at the end the marks tell the classes on endless chains;
* `AcceptedCorrect`: what an accepted table guarantees.

A cycle is stated without paths: a class is on an endless chain when it is in
a set of classes, without `Object`, that is closed under "extends". This keeps
induction over paths out of the proofs.

None of the invariants is inductive alone. `IInv` adds, beside the stages of
the analysis and what each has reported:

* `CallsAreAChain`: each active call is for the parent of the one outside it;
* `ReturnedIsRight`: what a call has just returned fits its parent;
* `VisitedIsGrounded`: a finished class has `Object` or a finished class for
  parent; so no set closed under "extends" holds a finished class, which is
  what makes finished classes *not* endless;
* `VisitingIsClosed`: if all parents exist, a class being visited that is not
  the innermost active call has a parent being visited; so when `ReportCycle`
  is enabled the classes being visited are closed under "extends", which is
  the witness that the reported class is endless;
* `NothingAbandoned`: outside the active calls, a class left as being visited
  was left by a search that failed.

`IInv` has been checked by TLC too. The proof has one lemma per kind of step
of the search (`CallStep`, `FailStep`, `FinishStep`, `ReportsStep`), cited by
`SearchStep`, one step per action.

It also proves `ChecksImplementAcceptance`: for every program the
initial states of `Semantics` map to those of `Acceptance`, and every step is
its step `Decide` or changes nothing it can see. This is the safety part of the
property `ImplementsAcceptance`. Beside `IInv` the argument needs, in one
direction, that every report is a reason to reject (`ReasonsToReject`; one lemma
for each check: `CollectReports`, `MainReports`, `ParentsReports`,
`CycleReports`), and in the other that the members and the `main` that were
passed in silence are as they must be (`SilentMembers`, `SilentMain`). The table
holds members that went through a loop of `add_field` or `add_method`; what that
loop makes of members of different names is `NoneIsLeftOut`, by induction.

The library's induction theorems take an operator for parameter, which the
provers cannot instantiate. `Induction` therefore states induction of a *set*
that holds 0 and the successor of each of its members (`Upwards`), and derives it
from the order of finite sets by inclusion; `Greatest`, `Lengthwise` (over the
lengths of sequences) and the lemmas about loops follow from it. A loop over a
sequence is a recursive function of the number of its turns; that such a function
exists, and that it is the only one, is `LoopExists` and `LoopIsOne`. `Hierarchies`
has the corresponding `ByParent`: a set that holds `Object`, and each class whose
parent it holds, holds every class.

Of the questions to the table it proves, for tables of any size and whatever the
checks have reported, `AnswersCorrect`: `is_subtype`, the lookups and the common ancestor
answer what is true. The ancestors of a class are the smallest set that holds it
and is closed under "extends", so nothing is said of paths, and the table may
have cycles or miss parents. The invariant says what a walk that is on its way
still knows: the class asked for is an ancestor of the first class if it is one
of the class it is at (`SubtypeKept`), the holders of a member are the same
(`LookupKept`), the ancestors are those collected and those still ahead
(`ChainKept`), and none that both chains share has been passed (`CommonKept`).
That the three answers differ is `AnswersAssumption`.
`WalksAreDefined` proves that in an accepted program no walk uses a class that is
not in the table, from the invariant of the checks: walks stay inside the
table (`StaysInside`).

`Lexer_proofs` proves, for files of any length, `EndCorrect`, `CommentsCorrect`,
`TokensCorrect` and `CleanCorrect`. The first is about `lines`, `columns` and the lengths of
matches: behind characters that end no line the place moves by as many columns
(`PlaceOnLine`), behind line ends it is the first column of a later line
(`PlaceBehindLines`), and each rule is one or the other, except that of a broken
string, which is three in a row (`BreakStep`). For the tokens the invariant adds
where the begin is right: in INITIAL, unless a comment has just ended or the
next character ends the line (`BeginIsTrue`). That a comment of a line goes up
to its end (`LineCommentEnds`) is what makes the exception harmless.

`CleanCorrect` is about what is scanned: a clean file gives no report, and the
tokens of its pieces. Its invariant (`CInv`) says where the scanner is in the
pieces, of which it knows nothing: in INITIAL at a cut, in a string in front of
a character that is not escaped (`WithinString`), in a comment not in the middle
of a mark, with as many starts on the stack as the text is deep there
(`WithinComment`). Every rule that would report then contradicts the piece
(`KindOfPiece`, `StringAhead`), the stack is down to one exactly at the closing
that ends the piece (`CommentCloses`), and the longest match ends where the run
does (`RunIsPiece`).

`Output_proofs` proves of the driver `TypeCorrect`, `ShownCorrect`,
`SuccessCorrect` and `CodeCorrect` for any numbers of diagnostics
(`CountsAssumption`). The properties speak of the end; `IInv` adds what holds on
the way: which actions lead to which stage (`Routes`), that nothing is printed or
decided before the end (`Pending`), and what was tested for the later stages to
be reached (`Passed`).

It also proves `WrittenCorrect`: for trees of any size and depth that are typed
as `BodiesAssumption` says, the code of a method of the written expressions
neither stops the visitor nor is rejected by LLVM, if its types are exact and it
calls nothing that returns unit. These three premises are those of the property;
`EmptyBlocksAreUnits`, `ChildrenServe` and `UnitsAreReturned`, each without one of
them, are refuted by TLC. The trouble with the code is that a power ends the
block in which its operands were computed, so that every value that an outer
visit still holds is used in a block that did not exist when it was made. The
invariant (`CodeInv`) is about the blocks and about the visits under way:

* `BlocksAre`: blocks come in threes, one of the method's own line, then the
  condition and the body of a power; all but the last are closed, by the one
  branch they have, and the phis of a condition name the block in front of it
  and the one behind. So `SuccessorsAre` and `CondIsEntered` know the control flow
  by arithmetic alone.
* `VisitsAre`: the visits lead from the method down to a node, and every value
  that one of them holds has the type of the child it came from and is ready at
  the insertion point (`Ready`): it is a constant, or was computed on the line
  or in a condition, further up or in an earlier block. What is ready stays so in
  all later blocks (`ReadyLater`), and only what a body of a power computes is
  never handed out.

That an earlier block of the line or of a condition dominates all later ones is
`EarlierDominates`: nothing that avoids it gets past it, since branches go to the
next block, the one after it, or back by one. With it `WholeIsWellFormed` shows that
a function of such blocks passes every check of `WellFormed`. There is a lemma
for each action; `InsertKeeps`, `PowerKeeps` and `ReturnKeeps` prove what they do to
the blocks, `AcceptKeeps` and `GivenKeeps` what they do to the visits. The
assumption on the trees asks no more than `AcceptedIsTyped` and `SilenceIsSound`
give of an accepted program.

`Reader_proofs` proves `TypeCorrect`, `FitsCorrect` and `StringCorrect` for
every input and every capacity but 0 (`InputsAssumption`, `CapacityAssumption`);
the code begins with 1024. The invariant is the loop's: while it reads, the next
index is inside the buffer, as many characters were taken as are in it, and
they are those of the input since the call began, none of them one that ends
the string (`Kept`). `BufferAfter` says what growing the buffer leaves of it. A
buffer that grew one turn later, or without its contents, breaks it.

`Dispatch_proofs` proves the seven invariants of the run `dispatch` for class
tables of any size, methods of any number and calls of any length:
`ClassesAlwaysExtendTheirParents`, `FieldIndexIsAlwaysNearest`,
`VtablesAreAlwaysComplete`, `BodiesAlwaysFindTheirReferences` and
`ThunksAlwaysGoUp` for every order of the classes, `CallsAlwaysReachTheOverride`
and `CallsAlwaysAgreeOnTypes` under the premises that the properties state. None
is inductive: what a step of `generate` puts into the module is right because of
what earlier loops put there for *other* classes. `GenInv` says for each of the
loops which classes it is past (`NamesPast`) and what the module holds for these
and for no other: their slots, struct types, constructors, methods and thunks,
vtables. Of the functions it says what each does (`Emitted`): a body where the
class declares the method, else a thunk to the nearest class further up, if
parents come first, and to one further up that the module held in any case. The
calls need `CallInv`: where a call is on its way, the method that the dynamic
class finds is still the one that the place it has come to finds (`OnItsWay`).

What these proofs rest on is that vtables and structs grow from the root: the
slots of a class are those of its parent followed by its new methods
(`MethodsOfClass`, `FieldsOfClass`), where an override changes a slot's method
but neither its place nor, without the premise on signatures, more than its
type (`CollectMore`, `OverridesOn`). These are shown by `ByParent`, the loop of
`collect_methods` being one over a sequence. `BuiltinsAssumption` says that no two
methods of `Object` have one name.

It also proves, over every alphabet and for names of any length,
`NamesAreApart`: if no class name has two underscores in a row or one at its
end, two pairs of a class and a method, or of a class and one of the generator's
words, have one mangled name only if they are the same pair. The argument is
about positions: the shorter of two class names would put its two underscores
into the longer one or at its border (`NoShorterClass`). `NamesCanClash` proves
that the premise is needed: a class whose name ends in an underscore can declare
a method that is emitted under the name of another class's initializer. The
lexer accepts such names; LLVM renames the second symbol, and later lookups find
the first.

`Types_proofs` proves, for trees of any size and depth and hierarchies of any
size, `ScopesAlwaysFollow`, `SilenceIsAlwaysSound`, `ErrorsAreAlwaysTrue`,
`AcceptedIsAlwaysTyped` and `NothingEverEscapes`. The second and third say that
the visitor reports an expression if and only if the typing rules give it no
type. The two sides are defined differently everywhere: the
visitor looks a name up in the scopes of the moment and then walks up the
hierarchy, the rules look at the text around a place and at what is lowest among
the superclasses (`Lowest`). The invariant has four parts.

* `SInv`, for the walk: the frames of the stack are the nodes from the root to
  the one on top, each the child of the one before it that was entered last
  (`Spine`); below a class, `current` is that class (`InItsClass`); and the scopes
  are those of the open methods and lets. Together they give `ResolveIsMeaning`:
  what a name is resolved to at any moment is what the text says.
* `RInv`, for the types: what was typed or reported lies behind the walk
  (`TypedBefore`, `ReportedBefore`), so that no step types a node twice or
  reports again what was settled; what was typed was typed rightly at that
  moment (`TypedRightly`), and stays so because its children's types stay. Of the
  nodes still being visited, nothing was reported but of lets, whose faults are
  reported before their bodies are visited: there it says which (`ReportsSoFar`).
* `AInv`, for what the code generator takes for granted. As long as nothing has
  been reported, every position behind the walk is typed (`Complete`), members
  were looked at when their visit started (`MembersSeen`) and bodies when it ended
  (`MembersDone`). Why a type that was given exists is the delicate part: the type
  of an expression may come from a field or a method of a class that is visited
  only later, and whose types nobody has looked at yet. So the invariant says
  less on the way, that a type exists *or is written at some member of the tree*
  (`Known`); at the end of a silent visit all members have been looked at, and the
  second implies the first.
* `EInv`, for what must not be lost whatever has been reported. Of what is over,
  the children are typed (`AllTyped`), and so are those that are over of a node
  still being visited (`KidsTyped`), unless it is an assignment whose name means
  nothing; one that was gone into is not such (`Aimed`). A member being visited
  is reported if and only if it has been gone into and mentions a class that does
  not exist (`MembersNoted`), so that the end of its visit adds the fault of its
  body and no other (`MembersJudged`).

`AcceptedIsTyped` speaks of trees in which the parser left no type undefined
(`WellParsed`). The premise is needed: the visitor takes `Undefined` for a type
that exists, and a field of it is accepted. In the code such trees come only with
a syntax error that was reported (`parser.y:315-364`), and those are not compiled.

`NextGoes` reduces all 22 actions to two kinds of steps, into a child and out of a
node; `EnteringKeeps` and `LeavingKeeps` prove the invariant for these, so that
for each action only the comparison with its typing rule is left. Likewise
`CalmIs` reduces the steps that report nothing to two kinds, and what such a step
leaves behind is what was behind before and the node it leaves (`OverBack`).
`NextSees` says of any step what it sees of members and of assignments; where a
visit returns early, what falls behind the walk is more than the node it leaves,
and `SeenBack` keeps apart what is deep enough to be touched by that. That
the class table answers as the rules say is `NearestIsLowest` and `CommonIsLowest`, which
rest on the ways to `Object` being ways down an order (`WaysNeverMeetTwice`). The
assumption on trees (`TreesAssumption`) is what the parser builds: which nodes
have which children and how many (`Shaped`), and a table without class errors.

Only model-checked: all that is liveness (`Terminates`, `Promise!Spec`'s
fairness, that walks, scans and calls end), which is out of the prover's reach;
the properties of the parser, which depend on Bison's tables
(`OutcomeIsExpected`, `TreeFollowsTheManual`, `CleanIsAccepted`); and
`ReturnedIsMeant`, since what an expression means, and what a file says, are
defined by recursion, about which the prover cannot reason (`Evaluated`). That the
code is accepted by LLVM is proved; that it computes what it should is not.

## 5. What is not modelled, and the plan

Left out for good: formatting (`PrintVisitor`, `Diagnostics`, the printing of
tokens and of the class table), LLVM itself, the shell and the linker, and the
version guards of `llvm_compatibility.hpp`: they keep no state. `main.cpp` only
chooses the action, which is an input here. Locations of the parser, the
accessors of the tree and the double dispatch of the visitors are abstracted:
nothing is decided by them. Expressions whose code generation is still a stub
in the code (`if`, `let`, `while`, assignment, variables, unary operators) are
modelled as the null pointers they return. `stoi` on an integer literal that
does not fit ends the compiler by an exception that nothing handles; there is no
state after it to speak of. An allocation that fails in the generated program is
not modelled (`generation.cpp:217` does not test it); in the input methods it is.

What the checklist asks of a program and the code does not look at is left out
where there is no state to model it on: a field that is defined again in a child
(`semantics_checklist.md`), formals of one name.

What could follow, in order:

1. `Compiler` with `Semantics`, `Types` and `Generation` in the place of the
   later passes' free reports.
2. The stubs of the CodeGenVisitor, once the code has them.

------------------------------- MODULE Program -------------------------------
(***************************************************************************)
(* A VSOP program as the semantic analysis sees it, and the entries of the *)
(* class symbol table (ClassInfo, FieldInfo, MethodInfo).  Names are       *)
(* uninterpreted; expressions and source locations are left out.           *)
(***************************************************************************)
EXTENDS Members, SequencesExt

CONSTANTS
  ClassName,    (* the type identifiers a program may use                   *)
  Object,       (* the built-in root class                                  *)
  Main,         (* the class check_main looks for                           *)
  FieldName,    (* field identifiers                                        *)
  MethodName,   (* method identifiers                                       *)
  main,         (* the method check_main looks for                          *)
  Type,         (* the types of fields, formals and results                 *)
  Int32,        (* the type main must return                                *)
  Builtins,     (* Object's methods, in the order they are added            *)
  Programs      (* the programs considered                                  *)

Field  == [name : FieldName, type : Type]
Method == [name : MethodName, formals : Seq(Type), ret : Type]

(* One class of the source: what the parser hands over as a ClassNode.     *)
ClassDecl == [name   : ClassName, parent  : ClassName,
              fields : Seq(Field), methods : Seq(Method)]

ASSUME NamesAssumption ==
  /\ Object \in ClassName
  /\ Main \in ClassName
  /\ Object # Main
  /\ Builtins \in Seq(Method)

ASSUME ProgramsAssumption == Programs \subseteq Seq(ClassDecl)

-----------------------------------------------------------------------------
(* The ClassInfo that ClassesVisitor builds for a class of the source.     *)
InfoOf(d) == [parent  |-> d.parent,
              fields  |-> AddMembers(d.fields),
              methods |-> AddMembers(d.methods)]

ObjectInfo == [parent |-> Object, fields |-> <<>>, methods |-> Builtins]

-----------------------------------------------------------------------------
(* The class symbol table, std::map<string, ClassInfo>, is a function      *)
(* whose domain is the set of classes it has an entry for.                 *)
With(table, c, info) ==
  [n \in DOMAIN table \cup {c} |-> IF n = c THEN info ELSE table[n]]

(* A set of classes closed under "extends": the walk from any of them to   *)
(* its parent and on never leaves the set, so it never ends at Object.     *)
ClosedUnderExtends(table, S) == \A c \in S : table[c].parent \in S

(* The class's chain of parents never ends, although no parent is missing. *)
Endless(table, c) ==
  \E S \in SUBSET (DOMAIN table \ {Object}) :
    c \in S /\ ClosedUnderExtends(table, S)

(* No set of the classes in C is closed under "extends".                   *)
WellFounded(table, C) ==
  \A S \in SUBSET C : S # {} => ~ ClosedUnderExtends(table, S)

ParentsKnown(table) == \A c \in DOMAIN table : table[c].parent \in DOMAIN table
=============================================================================

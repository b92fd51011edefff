------------------------------ MODULE Dispatch ------------------------------
(***************************************************************************)
(* The method calls of the generated program: the module that generate()   *)
(* built, run.  A body may call any method that its static type has, on    *)
(* any object of that type; the call is compiled as CallExpr has it, and   *)
(* each call is followed to the code that is run.                          *)
(***************************************************************************)
EXTENDS Generation

VARIABLES
  phase,      (* "compiled" (a call may come), "calling" or "reached"       *)
  static,     (* the static type of the receiver                            *)
  dynamic,    (* the class of the object it is                              *)
  method,     (* the method called                                          *)
  at          (* the function control is in                                 *)

callVars == <<phase, static, dynamic, method, at>>
allVars  == <<genVars, callVars>>

(* is_subtype: the other class is on the way to Object.                    *)
IsSubtype(d, s) == s \in Range(Ancestry(table, d))

(* What lookup_method finds: the nearest class that declares the method.   *)
Declares(m) == {c \in DOMAIN table : HasMember(table[c].methods, m)}

NearestDeclaring(c, m) == FirstOf(Ancestry(table, c), Declares(m))

Init ==
  /\ GenInit
  /\ phase = "compiled" /\ static = Main /\ dynamic = Main /\ method = main
  /\ at = EntryPoint

(* codegen visit(CallExpr): the slot is looked up for the static type, and *)
(* the function loaded from it in the vtable of the object.                *)
Call ==
  /\ loops = <<>> /\ phase # "calling"
  /\ \E s, d \in DOMAIN table, m \in MethodName :
       /\ IsSubtype(d, s)
       /\ \E a \in Declares(m) : IsSubtype(s, a)
       /\ static' = s /\ dynamic' = d /\ method' = m
       /\ at' = vtables[d][GetVtableIndex(s, m) + 1]
  /\ phase' = "calling"
  /\ UNCHANGED genVars

(* A thunk casts self and calls on.                                        *)
FollowThunk ==
  /\ phase = "calling" /\ functions[at].does = "call"
  /\ at' = functions[at].to
  /\ UNCHANGED <<genVars, phase, static, dynamic, method>>

Reach ==
  /\ phase = "calling" /\ functions[at].does # "call"
  /\ phase' = "reached"
  /\ UNCHANGED <<genVars, static, dynamic, method, at>>

Next ==
  \/ GenNext /\ UNCHANGED callVars
  \/ Call \/ FollowThunk \/ Reach

Spec == Init /\ [][Next]_allVars

-----------------------------------------------------------------------------
(* Every class comes after its parent in the source.                       *)
ParentsFirst == \A i, j \in DOMAIN program :
  program[i].parent = program[j].name => j < i

(* No class overrides a method with one of another signature.              *)
OverridesConform == \A c, a \in DOMAIN table : IsSubtype(c, a) =>
  \A i \in DOMAIN table[c].methods, k \in DOMAIN table[a].methods :
    table[c].methods[i].name = table[a].methods[k].name =>
      table[c].methods[i] = table[a].methods[k]

Reached == phase = "reached"

(* The code run is that of the class lookup_method would find from the     *)
(* object's own class on: the most derived override.                       *)
RunsTheOverride == Reached => at = <<NearestDeclaring(dynamic, method), method>>

(* The types the call was checked against, those of the method that        *)
(* lookup_method finds for the static type, are those of the code run.     *)
AgreesOnTypes ==
  Reached =>
    LET m == GetMember(table[NearestDeclaring(static, method)].methods, method) IN
    functions[at].formals = m.formals /\ functions[at].ret = m.ret

(* Dynamic dispatch reaches the most derived method, if every class comes  *)
(* after its parent in the source and the static type is not Object.       *)
CallsReachTheOverride == ParentsFirst /\ static # Object => RunsTheOverride

(* It has the types the caller expects, if all overrides keep theirs.      *)
CallsAgreeOnTypes ==
  ParentsFirst /\ static # Object /\ OverridesConform => AgreesOnTypes

(* A call gets to code that is no thunk, in whatever order the classes are *)
(* emitted: a thunk calls the same method of a class above its own, and    *)
(* one the module holds, so that thunks do not call each other in circles. *)
ThunksGoUp ==
  \A k \in DOMAIN functions :
    k # EntryPoint /\ functions[k].does = "call" /\ k[2] \in MethodName =>
      \E a \in Range(Tail(Ancestry(table, k[1]))) :
        functions[k].to = <<a, k[2]>> /\ <<a, k[2]>> \in DOMAIN functions

(* Classes can be used before they are declared, also as a parent.         *)
CallsReachInAnyOrder == static # Object => RunsTheOverride

(* The methods of Object can be called on any object.                      *)
CallsOnObjectReach == ParentsFirst => RunsTheOverride

(* Every program the analysis accepts has overrides of one signature.      *)
AcceptedCallsAgree == ParentsFirst /\ static # Object => AgreesOnTypes
=============================================================================

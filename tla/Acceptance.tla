----------------------------- MODULE Acceptance -----------------------------
(***************************************************************************)
(* What the checks of the class table promise, without the table, the      *)
(* order of the checks or the search: one step accepts a program that is   *)
(* well formed and rejects any other.  Semantics implements it.            *)
(***************************************************************************)
EXTENDS Program

VARIABLES
  program,   (* the classes of the source                                   *)
  verdict    (* "pending", "accepted" or "rejected"                         *)

Names(p)    == {p[i].name : i \in DOMAIN p}
Declared(p) == Names(p) \cup {Object}

OneEach(p) == \A i \in DOMAIN p :
  /\ p[i].name # Object
  /\ \A j \in DOMAIN p : p[j].name = p[i].name => j = i
  /\ ~ Repeats(p[i].fields)
  /\ ~ Repeats(p[i].methods)

MainIsThere(p) == \E i \in DOMAIN p :
  /\ p[i].name = Main
  /\ \E k \in DOMAIN p[i].methods :
       /\ p[i].methods[k].name = main
       /\ p[i].methods[k].formals = <<>>
       /\ p[i].methods[k].ret = Int32

ParentsAreDeclared(p) == \A i \in DOMAIN p : p[i].parent \in Declared(p)

(* No group of classes extends nothing but classes of the group.           *)
NoCycle(p) == \A S \in SUBSET Names(p) :
  S # {} => \E i \in DOMAIN p : p[i].name \in S /\ p[i].parent \notin S

WellFormed(p) ==
  OneEach(p) /\ MainIsThere(p) /\ ParentsAreDeclared(p) /\ NoCycle(p)

Init == program \in Programs /\ verdict = "pending"

Decide ==
  /\ verdict = "pending"
  /\ verdict' = IF WellFormed(program) THEN "accepted" ELSE "rejected"
  /\ UNCHANGED program

Spec == Init /\ [][Decide]_<<program, verdict>> /\ WF_<<program, verdict>>(Decide)
=============================================================================

------------------------------ MODULE Mangling ------------------------------
(***************************************************************************)
(* The names that the code generation gives to functions and globals       *)
(* (mangling.hpp).  Generation takes them to be apart and names what it    *)
(* emits by pairs; this module says for which classes and methods that is  *)
(* so.  LLVM renames the second of two symbols of one name, and a lookup   *)
(* by that name finds the first.                                           *)
(***************************************************************************)
EXTENDS Integers, Sequences

CONSTANTS
  Character,   (* letters, digits and the underscore                         *)
  underscore,
  newWord, initWord, vtableWord, VTableWord   (* "new", "init", "vtable", "VTable" *)

Name == Seq(Character)

(* A method's function.                                                    *)
Meth(class, method) == class \o <<underscore, underscore>> \o method

(* What the generator makes for a class: its constructor, its initializer, *)
(* its vtable and the type of that.                                        *)
Artifact(class, word) == class \o <<underscore, underscore, underscore>> \o word
Words == {newWord, initWord, vtableWord, VTableWord}

-----------------------------------------------------------------------------
(* A class name in which the generator's two underscores can be told: it   *)
(* has no two in a row, and does not end in one.  The lexer's type         *)
(* identifiers may have both.                                              *)
Plain(class) ==
  /\ class \in Name /\ class # <<>>
  /\ class[Len(class)] # underscore
  /\ \A i \in 1 .. Len(class) - 1 : class[i] # underscore \/ class[i + 1] # underscore

(* An object identifier begins with a lower-case letter, as the words do.  *)
Word(method) == method \in Name /\ method # <<>> /\ method[1] # underscore
=============================================================================

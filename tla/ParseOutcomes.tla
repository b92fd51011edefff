--------------------------- MODULE ParseOutcomes ----------------------------
(***************************************************************************)
(* What the driver can expect of Parser::parse: what was reported, whether *)
(* Bison gave up, and what ast_root points to then.                        *)
(***************************************************************************)
EXTENDS Integers

CONSTANT Counts           (* how many diagnostics a pass can report          *)

ASSUME CountsAssumption == Counts \subseteq Nat /\ 0 \in Counts

(* A parse ends with a tree, whole unless something was reported; or Bison *)
(* gives up: Parser::error reports nothing, and the tree is missing, or is *)
(* the one of the classes before the error.                                *)
Parses ==
  {p \in [errors : Counts, warnings : Counts, aborted : BOOLEAN,
          root : {"none", "partial", "whole"}] :
     /\ p.aborted => p.root # "whole"
     /\ ~ p.aborted => p.root # "none"
     /\ ~ p.aborted /\ p.errors = 0 /\ p.warnings = 0 => p.root = "whole"}
=============================================================================

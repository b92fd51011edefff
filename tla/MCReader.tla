------------------------------ MODULE MCReader ------------------------------
(* Buffers that hold one character, or two, at first: the string "d" is a  *)
(* valid integer, "a" stands for a valid boolean.                          *)
EXTENDS Reader, SequencesExt

MCInputs == BoundedSeq({"letter", "digit", "blank", "newline"}, 5)
MCBools == {<<"letter">>}
MCInts == {<<"digit">>, <<"digit", "digit">>}
=============================================================================

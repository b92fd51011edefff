------------------------------ MODULE Lexemes -------------------------------
(***************************************************************************)
(* What the pieces of a source file are, by the language rather than by a  *)
(* scanner: words and signs, strings, comments and blanks.  A text t is a  *)
(* sequence of kinds of characters, and a piece of it goes from i to j.    *)
(***************************************************************************)
EXTENDS Integers, FiniteSets, Sequences

NextIs(t, k, c) == k < Len(t) /\ t[k + 1] = c

(* A run of characters of one kind, as long as it can be.                  *)
IsRun(t, i, j, c) == (\A k \in i .. j : t[k] = c) /\ ~ NextIs(t, j, c)

IsSign(t, i, j) ==
  /\ i = j
  /\ \/ t[i] \in {"mark", ")"}
     \/ t[i] = "(" /\ ~ NextIs(t, i, "*")
     \/ t[i] = "*" /\ ~ NextIs(t, i, ")")
     \/ t[i] = "/" /\ ~ NextIs(t, i, "/")

(* A backslash escapes unless it is escaped itself.  What is escaped is a  *)
(* quote, a backslash or the end of a line, which stand nowhere else in a  *)
(* string.                                                                 *)
Escapes(t, i, j, escapes) ==
  \A k \in i + 1 .. j - 1 :
    /\ k \in escapes <=> (t[k] = "backslash" /\ k - 1 \notin escapes)
    /\ IF k - 1 \in escapes THEN t[k] \in {"quote", "backslash", "newline"}
                            ELSE t[k] \notin {"quote", "newline"}

IsString(t, i, j) ==
  /\ i < j /\ t[i] = "quote" /\ t[j] = "quote"
  /\ \E escapes \in SUBSET (i + 1 .. j - 2) : Escapes(t, i, j, escapes)

(* The marks of comments: the two characters of one are not part of another*)
(* as well.                                                                *)
Opens(t, k) == t[k] = "(" /\ NextIs(t, k, "*")

Closes(t, k) ==
  t[k] = "*" /\ NextIs(t, k, ")") /\ ~ (k > 1 /\ Opens(t, k - 1))

Openings(t, i, k) == {n \in i .. k : Opens(t, n)}
Closings(t, i, k) == {n \in i .. k : Closes(t, n)}

Depth(t, i, k) == Cardinality(Openings(t, i, k)) - Cardinality(Closings(t, i, k))

IsComment(t, i, j) ==
  /\ i < j /\ Opens(t, i) /\ Closes(t, j - 1)
  /\ Depth(t, i, j - 1) = 0
  /\ \A k \in i .. j - 2 : Depth(t, i, k) > 0

IsLineComment(t, i, j) ==
  /\ t[i] = "/" /\ i < j /\ t[i + 1] = "/"
  /\ \A k \in i .. j : t[k] # "newline"
  /\ j = Len(t) \/ NextIs(t, j, "newline")

IsToken(t, i, j) ==
  IsRun(t, i, j, "letter") \/ IsSign(t, i, j) \/ IsString(t, i, j)

IsGap(t, i, j) ==
  \/ IsRun(t, i, j, "space") \/ IsRun(t, i, j, "newline")
  \/ IsLineComment(t, i, j) \/ IsComment(t, i, j)

-----------------------------------------------------------------------------
(* A file: its text, and where one piece ends and the next one begins.     *)
IsPiece(s, i, j) ==
  i <= j /\ i - 1 \in s.cuts /\ j \in s.cuts /\ \A c \in s.cuts : c < i \/ c >= j

Clean(s) ==
  /\ {0, Len(s.text)} \subseteq s.cuts
  /\ \A i, j \in 1 .. Len(s.text) :
       IsPiece(s, i, j) => IsToken(s.text, i, j) \/ IsGap(s.text, i, j)

(* Where the tokens of a clean file begin.                                 *)
TokensOf(s) ==
  {i \in 1 .. Len(s.text) :
     \E j \in 1 .. Len(s.text) : IsPiece(s, i, j) /\ IsToken(s.text, i, j)}
=============================================================================

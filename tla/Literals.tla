------------------------------ MODULE Literals ------------------------------
(***************************************************************************)
(* String literals on their way through the compiler: what the scanner     *)
(* keeps of each piece of one, and what the code generator makes of that.  *)
(* Characters are their codes; the source of a literal is a sequence of    *)
(* pieces, one for each match of a rule of the scanner.                    *)
(***************************************************************************)
EXTENDS Integers, Sequences, SequencesExt

Newline == 10
Quote == 34
Backslash == 92
LetterX == 120

Digit(d) == IF d < 10 THEN 48 + d ELSE 87 + d
DigitValue(c) == CASE c \in 48..57  -> c - 48
                   [] c \in 65..70  -> c - 55
                   [] c \in 97..102 -> c - 87
HexValue(high, low) == 16 * DigitValue(high) + DigitValue(low)

Escaped(code) == <<Backslash, LetterX, Digit(code \div 16), Digit(code % 16)>>

(* The codes that the letters after a backslash stand for (b, n, r, t).    *)
Escapes == [c \in {98, 110, 114, 116, Quote, Backslash} |->
              CASE c = 98 -> 8 [] c = 110 -> 10 [] c = 114 -> 13 [] c = 116 -> 9 [] OTHER -> c]

(* Slip: a backslash is printable.                                         *)
ToPrintableAll(piece) ==
  LET code == HexValue(piece[3], piece[4])
  IN IF code <= 31 \/ code >= 127 \/ code = Quote THEN piece ELSE <<code>>

(* An escaped code that can be printed; quotes and backslashes stay.       *)
ToPrintable(piece) ==
  LET code == HexValue(piece[3], piece[4])
  IN IF code <= 31 \/ code >= 127 \/ code \in {Quote, Backslash} THEN piece ELSE <<code>>

(* What the scanner adds to current_string for a piece.                    *)
Scanned(piece) ==
  IF Len(piece) = 1 THEN piece
  ELSE IF piece[2] = LetterX THEN ToPrintable(piece)
  ELSE IF piece[2] = Newline THEN <<>>
  ELSE Escaped(Escapes[piece[2]])

TokenOf(pieces) ==
  <<Quote>> \o FlattenSeq([i \in DOMAIN pieces |-> Scanned(pieces[i])]) \o <<Quote>>

(* utils::decode: the characters of the string that the token is for.      *)
Decode(token) ==
  LET raw == SubSeq(token, 2, Len(token) - 1)
      from[i \in 1..(Len(raw) + 4)] ==
        IF i > Len(raw) THEN <<>>
        ELSE IF raw[i] # Backslash \/ i = Len(raw) THEN <<raw[i]>> \o from[i + 1]
        ELSE IF raw[i + 1] \in DOMAIN Escapes \ {98}
             THEN <<Escapes[raw[i + 1]]>> \o from[i + 2]
        ELSE IF raw[i + 1] # LetterX THEN <<raw[i]>> \o from[i + 1]
        ELSE IF i + 3 > Len(raw) THEN from[i + 1]
        ELSE <<HexValue(raw[i + 2], raw[i + 3])>> \o from[i + 4]
  IN from[1]

(* What the manual says a literal stands for: a piece is a character, an   *)
(* escape for one, or a line break with the blanks after it, for none.     *)
Stands(piece) ==
  IF Len(piece) = 1 THEN piece
  ELSE IF piece[2] = Newline THEN <<>>
  ELSE IF piece[2] = LetterX THEN <<HexValue(piece[3], piece[4])>>
  ELSE <<Escapes[piece[2]]>>

StringMeant(pieces) == FlattenSeq([i \in DOMAIN pieces |-> Stands(pieces[i])])
=============================================================================

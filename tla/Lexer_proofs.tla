---------------------------- MODULE Lexer_proofs ----------------------------
(***************************************************************************)
(* Where the scanner is, for files of any length: the end of its location  *)
(* is the place of the next character, and it is in a comment exactly as   *)
(* long as one is open.  Tokens are given the places where they begin, and *)
(* those of a clean file are the ones the language sees in it.             *)
(***************************************************************************)
EXTENDS Lexer, Induction, SequenceTheorems

Position == [line : Int, column : Nat \ {0}]
Location == [begin : Position, end : Position]
Mark     == [at : Nat, begin : Position]

What == {"unmatched closing", "invalid character", "unknown escape",
         "newline in string", "invalid in string", "end in string",
         "unmatched comment"}

Report == [what : What, at : Position]

(* The shape of the state, as far as the places need it.                   *)
Shape ==
  /\ source \in Sources
  /\ read \in 0 .. Len(source.text)
  /\ condition \in {"INITIAL", "STRING", "COMMENT"}
  /\ loc \in Location
  /\ starts \in Seq(Mark)
  /\ string \in Mark
  /\ reports \in Seq(Report)

LInv == Shape /\ EndIsTrue /\ CommentsAreOpen

-----------------------------------------------------------------------------
(* The text, and what is ahead in it.                                      *)
LEMMA TextTyped ==
  ASSUME Shape
  PROVE  /\ Len(source.text) \in Nat /\ read \in Nat
         /\ DOMAIN source.text = 1 .. Len(source.text)
         /\ \A k \in 1 .. Len(source.text) : source.text[k] \in Char
<1>1. source.text \in Seq(Char)
  BY SourcesAssumption DEF Shape
<1> QED
  BY <1>1 DEF Shape

LEMMA AheadIsText ==
  ASSUME Shape, NEW k \in Nat \ {0}, Ahead(k) # "eof"
  PROVE  read + k <= Len(source.text) /\ source.text[read + k] = Ahead(k)
  BY TextTyped DEF Ahead

(* The longest match of a rule that matches any characters of a set.       *)
LEMMA RunTyped ==
  ASSUME Shape, NEW S
  PROVE  /\ Run(S) \in Nat /\ read + Run(S) <= Len(source.text)
         /\ \A k \in 1 .. Run(S) : source.text[read + k] \in S
         /\ Ahead(1) \in S /\ Ahead(1) # "eof" => Run(S) >= 1
<1> DEFINE room == Len(source.text) - read
           T == {n \in 0 .. room : \A k \in 1 .. n : source.text[read + k] \in S}
<1>1. room \in Nat /\ read \in Nat /\ Len(source.text) \in Nat
  BY TextTyped DEF Shape
<1>2. T \in SUBSET Nat /\ 0 \in T /\ \A t \in T : t <= room
  BY <1>1
<1>3. \E t \in T : \A u \in T : t >= u
  <2> HIDE DEF T
  <2> QED
    BY <1>1, <1>2, Greatest
<1>4. Run(S) \in T /\ \A u \in T : Run(S) >= u
  BY <1>3 DEF Run, Max
<1>5. Ahead(1) \in S /\ Ahead(1) # "eof" => 1 \in T
  <2>1. SUFFICES ASSUME Ahead(1) \in S, Ahead(1) # "eof" PROVE 1 \in T
    OBVIOUS
  <2>2. read + 1 <= Len(source.text) /\ source.text[read + 1] = Ahead(1)
    BY <2>1, AheadIsText
  <2>3. \A k \in 1 .. 1 : k = 1
    OBVIOUS
  <2> QED
    BY <1>1, <2>1, <2>2, <2>3
<1> QED
  BY <1>1, <1>4, <1>5

(* A run ends where the next character is of another kind.                 *)
LEMMA RunEnds ==
  ASSUME Shape, NEW S, read + Run(S) + 1 <= Len(source.text)
  PROVE  source.text[read + Run(S) + 1] \notin S
<1> DEFINE room == Len(source.text) - read
           T == {n \in 0 .. room : \A k \in 1 .. n : source.text[read + k] \in S}
           m == Run(S)
<1>1. room \in Nat /\ read \in Nat /\ Len(source.text) \in Nat /\ m \in Nat
  BY TextTyped, RunTyped DEF Shape
<1>2. m \in T /\ \A u \in T : m >= u
  <2>1. T \in SUBSET Nat /\ 0 \in T /\ \A t \in T : t <= room
    BY <1>1
  <2>2. \E t \in T : \A u \in T : t >= u
    <3> HIDE DEF T
    <3> QED
      BY <1>1, <2>1, Greatest
  <2> QED
    BY <2>2 DEF Run, Max
<1>3. read + m + 1 <= Len(source.text)
  OBVIOUS
<1> HIDE DEF m
<1>4. SUFFICES ASSUME source.text[read + m + 1] \in S PROVE FALSE
  BY DEF m
<1>5. m + 1 \in T
  <2>1. m + 1 \in 0 .. room
    BY <1>1, <1>3
  <2>2. ASSUME NEW k \in 1 .. m + 1 PROVE source.text[read + k] \in S
    <3>1. CASE k = m + 1
      <4>1. read + k = read + m + 1
        BY <1>1, <3>1
      <4> QED
        BY <1>4, <4>1
    <3>2. CASE k # m + 1
      <4>1. k \in 1 .. m
        BY <1>1, <3>2
      <4> QED
        BY <1>2, <4>1
    <3> QED
      BY <3>1, <3>2
  <2> QED
    BY <2>1, <2>2
<1> HIDE DEF T
<1>6. m >= m + 1
  BY <1>2, <1>5
<1> QED
  BY <1>1, <1>6

-----------------------------------------------------------------------------
(* Places.                                                                 *)
LEMMA MaxIs ==
  ASSUME NEW T \in SUBSET Int, NEW x \in T, \A y \in T : x >= y
  PROVE  Max(T) = x
<1>1. \A y \in T : y \in Int
  OBVIOUS
<1>2. ASSUME NEW y \in T, \A z \in T : y >= z PROVE y = x
  <2>1. y \in Int /\ x \in Int /\ y >= x /\ x >= y
    BY <1>1, <1>2
  <2> QED
    BY <2>1
<1> QED
  BY <1>2 DEF Max

(* The line ends before a character, and the last of them.                 *)
LEMMA LineEndsTyped ==
  ASSUME NEW i \in Nat \ {0}
  PROVE  /\ LineEnds(i) \in SUBSET (1 .. i - 1)
         /\ IsFiniteSet(LineEnds(i)) /\ Cardinality(LineEnds(i)) \in Nat
         /\ Max({0} \cup LineEnds(i)) \in {0} \cup LineEnds(i)
         /\ \A y \in {0} \cup LineEnds(i) : Max({0} \cup LineEnds(i)) >= y
<1>1. LineEnds(i) \in SUBSET (1 .. i - 1)
  BY DEF LineEnds
<1>2. IsFiniteSet(1 .. i - 1)
  BY FS_Interval
<1>3. IsFiniteSet(LineEnds(i)) /\ Cardinality(LineEnds(i)) \in Nat
  BY <1>1, <1>2, FS_Subset, FS_CardinalityType
<1> DEFINE T == {0} \cup LineEnds(i)
<1>4. T \in SUBSET Nat /\ T # {} /\ \A t \in T : t <= i
  BY <1>1
<1>5. \E t \in T : \A u \in T : t >= u
  <2> HIDE DEF T
  <2> QED
    BY <1>4, Greatest
<1>6. Max(T) \in T /\ \A y \in T : Max(T) >= y
  BY <1>5 DEF Max
<1> QED
  BY <1>1, <1>3, <1>6

LEMMA PlaceTyped ==
  ASSUME NEW i \in Nat \ {0}
  PROVE  Place(i) \in Position
<1> DEFINE last == Max({0} \cup LineEnds(i))
<1>1. last \in 0 .. i - 1 /\ Cardinality(LineEnds(i)) \in Nat
  <2>1. /\ LineEnds(i) \in SUBSET (1 .. i - 1) /\ last \in {0} \cup LineEnds(i)
        /\ Cardinality(LineEnds(i)) \in Nat
    BY LineEndsTyped
  <2> HIDE DEF last
  <2> QED
    BY <2>1
<1> HIDE DEF last
<1>2. i - last \in Nat \ {0}
  BY <1>1
<1> QED
  BY <1>1, <1>2 DEF Place, Position, last

(* Behind m characters that end no line.                                   *)
LEMMA PlaceOnLine ==
  ASSUME NEW i \in Nat \ {0}, NEW m \in Nat,
         \A k \in i .. i + m - 1 : source.text[k] # "newline"
  PROVE  Place(i + m) = [line |-> Place(i).line, column |-> Place(i).column + m]
<1>1. LineEnds(i + m) = LineEnds(i)
  <2>1. 1 .. i + m - 1 = (1 .. i - 1) \cup (i .. i + m - 1)
    OBVIOUS
  <2> QED
    BY <2>1 DEF LineEnds
<1> DEFINE last == Max({0} \cup LineEnds(i))
<1>2. last \in Int
  <2>1. LineEnds(i) \in SUBSET (1 .. i - 1) /\ last \in {0} \cup LineEnds(i)
    BY LineEndsTyped
  <2> HIDE DEF last
  <2> QED
    BY <2>1
<1> HIDE DEF last
<1>3. (i + m) - last = (i - last) + m
  BY <1>2
<1>4. /\ Place(i + m) = [line |-> 1 + Cardinality(LineEnds(i)),
                        column |-> (i + m) - last]
      /\ Place(i) = [line |-> 1 + Cardinality(LineEnds(i)), column |-> i - last]
  BY <1>1 DEF Place, last
<1> QED
  BY <1>3, <1>4

(* Behind m line ends.                                                     *)
LEMMA PlaceBehindLines ==
  ASSUME NEW i \in Nat \ {0}, NEW m \in Nat \ {0},
         \A k \in i .. i + m - 1 : source.text[k] = "newline"
  PROVE  Place(i + m) = [line |-> Place(i).line + m, column |-> 1]
<1>1. LineEnds(i + m) = LineEnds(i) \cup (i .. i + m - 1)
  <2>1. 1 .. i + m - 1 = (1 .. i - 1) \cup (i .. i + m - 1)
    OBVIOUS
  <2> QED
    BY <2>1 DEF LineEnds
<1>2. /\ LineEnds(i) \in SUBSET (1 .. i - 1) /\ IsFiniteSet(LineEnds(i))
      /\ Cardinality(LineEnds(i)) \in Nat
  BY LineEndsTyped
<1>3. Cardinality(LineEnds(i + m)) = Cardinality(LineEnds(i)) + m
  <2>1. IsFiniteSet(i .. i + m - 1) /\ Cardinality(i .. i + m - 1) = m
    <3> DEFINE j == i + m - 1
    <3>1. i \in Int /\ j \in Int /\ ~ (i > j) /\ j - i + 1 = m
      OBVIOUS
    <3> HIDE DEF j
    <3>2. /\ IsFiniteSet(i .. j)
          /\ Cardinality(i .. j) = IF i > j THEN 0 ELSE j - i + 1
      BY <3>1, FS_Interval
    <3>3. IsFiniteSet(i .. j) /\ Cardinality(i .. j) = m
      BY <3>1, <3>2
    <3> QED
      BY <3>3 DEF j
  <2>2. LineEnds(i) \cap (i .. i + m - 1) = {}
    BY <1>2
  <2>3. Cardinality(LineEnds(i) \cap (i .. i + m - 1)) = 0
    BY <2>2, FS_EmptySet
  <2>4. Cardinality(LineEnds(i) \cup (i .. i + m - 1))
          = Cardinality(LineEnds(i)) + Cardinality(i .. i + m - 1)
              - Cardinality(LineEnds(i) \cap (i .. i + m - 1))
    BY <1>2, <2>1, FS_Union
  <2>5. Cardinality(LineEnds(i + m)) = Cardinality(LineEnds(i)) + m - 0
    BY <1>1, <2>1, <2>3, <2>4
  <2> QED
    BY <1>2, <2>5
<1>4. Max({0} \cup LineEnds(i + m)) = i + m - 1
  <2> DEFINE T == {0} \cup LineEnds(i + m)
  <2>1. T \in SUBSET Int /\ i + m - 1 \in T /\ \A y \in T : i + m - 1 >= y
    BY <1>1, <1>2
  <2> HIDE DEF T
  <2>2. Max(T) = i + m - 1
    BY <2>1, MaxIs
  <2> QED
    BY <2>2 DEF T
<1>5. i + m - (i + m - 1) = 1 /\ 1 + (Cardinality(LineEnds(i)) + m)
                                 = 1 + Cardinality(LineEnds(i)) + m
  BY <1>2
<1> QED
  BY <1>3, <1>4, <1>5 DEF Place

-----------------------------------------------------------------------------
(* What a match does to the location.                                      *)
LEMMA MatchTyped ==
  ASSUME Shape, NEW n \in Nat
  PROVE  /\ Match(n) \in Location /\ Match(n).begin = loc.begin
         /\ Match(n).end
              = [line |-> loc.end.line, column |-> loc.end.column + n]
<1>1. /\ loc.begin \in Position /\ loc.end \in Position
      /\ loc = [begin |-> loc.begin, end |-> loc.end]
  BY DEF Shape, Location
<1>2. /\ loc.end.line \in Int /\ loc.end.column \in Nat \ {0}
      /\ loc.end = [line |-> loc.end.line, column |-> loc.end.column]
  BY <1>1 DEF Position
<1>3. Columns(loc.end, n)
        = [line |-> loc.end.line, column |-> loc.end.column + n]
  BY <1>2 DEF Columns
<1>4. Match(n) = [begin |-> loc.begin, end |-> Columns(loc.end, n)]
  BY <1>1 DEF Match
<1>5. Columns(loc.end, n) \in Position
  BY <1>2, <1>3 DEF Position
<1> QED
  BY <1>1, <1>3, <1>4, <1>5 DEF Location

(* The other movements of positions and locations.                         *)
LEMMA MovesTyped ==
  /\ \A p \in Position, n \in Int : Columns(p, n) \in Position
  /\ \A p \in Position, n \in Int :
       /\ Lines(p, n) \in Position
       /\ Lines(p, n) = [line |-> p.line + n, column |-> 1]
  /\ \A l \in Location : Step(l) \in Location /\ Step(l).end = l.end
<1>1. ASSUME NEW p \in Position, NEW n \in Int PROVE Columns(p, n) \in Position
  BY DEF Columns, Position
<1>2. ASSUME NEW p \in Position, NEW n \in Int
      PROVE  /\ Lines(p, n) \in Position
             /\ Lines(p, n) = [line |-> p.line + n, column |-> 1]
  BY DEF Lines, Position
<1>3. ASSUME NEW l \in Location
      PROVE  Step(l) \in Location /\ Step(l).end = l.end
  BY DEF Step, Location
<1> QED
  BY <1>1, <1>2, <1>3

(* Reports are only added.                                                 *)
LEMMA ReportsStay ==
  ASSUME Shape, NEW r,
         reports' = reports \/ reports' = Append(reports, r)
  PROVE  \A w : Reported(w) => Reported(w)'
<1>1. reports \in Seq(Report)
  BY DEF Shape
<1>2. CASE reports' = reports
  BY <1>2 DEF Reported
<1>3. CASE reports' = Append(reports, r)
  <2>1. \A i \in DOMAIN reports : i \in DOMAIN reports' /\ reports'[i] = reports[i]
    BY <1>1, <1>3
  <2> QED
    BY <2>1 DEF Reported
<1> QED
  BY <1>2, <1>3

(* A match without line ends keeps the end of the location in its place.   *)
LEMMA EndOnLine ==
  ASSUME LInv, NEW n \in Nat, read + n <= Len(source.text), Consume(n),
         \A k \in 1 .. n : source.text[read + k] # "newline",
         loc'.end = Match(n).end, \A w : Reported(w) => Reported(w)'
  PROVE  EndIsTrue'
<1>1. /\ read \in Nat /\ read' = read + n /\ source' = source
      /\ Match(n).end = [line |-> loc.end.line, column |-> loc.end.column + n]
  BY TextTyped, MatchTyped DEF LInv, Consume
<1>2. \A k \in read + 1 .. read + 1 + n - 1 : source.text[k] # "newline"
  <2>1. ASSUME NEW k \in read + 1 .. read + 1 + n - 1
        PROVE  source.text[k] # "newline"
    <3>1. k - read \in 1 .. n /\ k = read + (k - read)
      BY <1>1
    <3> QED
      BY <3>1
  <2> QED
    BY <2>1
<1>3. Place(read + 1 + n)
        = [line |-> Place(read + 1).line, column |-> Place(read + 1).column + n]
  <2>1. read + 1 \in Nat \ {0}
    BY <1>1
  <2> QED
    BY <1>2, <2>1, PlaceOnLine
<1>4. read' + 1 = read + 1 + n
  BY <1>1
<1>5. Place(read + 1)' = Place(read + 1 + n)
  BY <1>1, <1>4 DEF Place, LineEnds
<1>6. ~ Reported("newline in string")' => loc.end = Place(read + 1)
  BY DEF LInv, EndIsTrue
<1> QED
  BY <1>1, <1>3, <1>5, <1>6 DEF EndIsTrue

(* So does a match of line ends, counted.                                  *)
LEMMA EndBehindLines ==
  ASSUME LInv, NEW n \in Nat \ {0}, read + n <= Len(source.text), Consume(n),
         \A k \in 1 .. n : source.text[read + k] = "newline",
         loc'.end = Lines(Match(n).end, n), \A w : Reported(w) => Reported(w)'
  PROVE  EndIsTrue'
<1>1. /\ read \in Nat /\ read' = read + n /\ source' = source
      /\ loc'.end = [line |-> loc.end.line + n, column |-> 1]
  <2>1. read \in Nat /\ read' = read + n /\ source' = source
    BY TextTyped DEF LInv, Consume
  <2>2. Match(n).end \in Position /\ Match(n).end.line = loc.end.line
    <3>1. /\ Match(n) \in Location
          /\ Match(n).end
               = [line |-> loc.end.line, column |-> loc.end.column + n]
      BY MatchTyped DEF LInv
    <3> QED
      BY <3>1 DEF Location
  <2>3. Lines(Match(n).end, n) = [line |-> loc.end.line + n, column |-> 1]
    BY <2>2 DEF Lines
  <2> QED
    BY <2>1, <2>3
<1>2. \A k \in read + 1 .. read + 1 + n - 1 : source.text[k] = "newline"
  <2>1. ASSUME NEW k \in read + 1 .. read + 1 + n - 1
        PROVE  source.text[k] = "newline"
    <3>1. k - read \in 1 .. n /\ k = read + (k - read)
      BY <1>1
    <3> QED
      BY <3>1
  <2> QED
    BY <2>1
<1>3. Place(read + 1 + n) = [line |-> Place(read + 1).line + n, column |-> 1]
  BY <1>1, <1>2, PlaceBehindLines
<1>4. read' + 1 = read + 1 + n
  BY <1>1
<1>5. Place(read + 1)' = Place(read + 1 + n)
  BY <1>1, <1>4 DEF Place, LineEnds
<1>6. ~ Reported("newline in string")' => loc.end = Place(read + 1)
  BY DEF LInv, EndIsTrue
<1> QED
  BY <1>1, <1>3, <1>5, <1>6 DEF EndIsTrue

-----------------------------------------------------------------------------
(* A match of n characters without line ends, and what the rule does then. *)
LEMMA TextMatched ==
  ASSUME LInv, NEW n \in Nat, read + n <= Len(source.text), Consume(n),
         \A k \in 1 .. n : source.text[read + k] # "newline",
         loc' = Match(n) \/ loc' = Step(Match(n)),
         NEW r \in Report,
         reports' = reports \/ reports' = Append(reports, r)
  PROVE  /\ source' \in Sources /\ read' \in 0 .. Len(source'.text)
         /\ loc' \in Location
         /\ reports' \in Seq(Report)
         /\ EndIsTrue' /\ \A w : Reported(w) => Reported(w)'
<1>1. /\ source' = source /\ read' = read + n /\ read \in Nat
      /\ Len(source.text) \in Nat
  BY TextTyped DEF Consume, LInv
<1>2. Match(n) \in Location /\ Shape
  BY MatchTyped DEF LInv
<1>3. loc' \in Location /\ loc'.end = Match(n).end
  BY <1>2, MovesTyped
<1>4. \A w : Reported(w) => Reported(w)'
  BY <1>2, ReportsStay
<1>5. EndIsTrue'
  BY <1>3, <1>4, EndOnLine
<1>6. reports' \in Seq(Report)
  <2>1. reports \in Seq(Report)
    BY <1>2 DEF Shape
  <2> QED
    BY <2>1
<1> QED
  BY <1>1, <1>2, <1>3, <1>4, <1>5, <1>6 DEF Shape

(* A match of line ends that the rule counts.                              *)
LEMMA LinesMatched ==
  ASSUME LInv, NEW n \in Nat \ {0}, read + n <= Len(source.text), Consume(n),
         \A k \in 1 .. n : source.text[read + k] = "newline",
         Go(Step([Match(n) EXCEPT !.end = Lines(@, n)])),
         UNCHANGED <<condition, starts, string>>
  PROVE  LInv'
<1> DEFINE l == [Match(n) EXCEPT !.end = Lines(@, n)]
<1>1. /\ source' = source /\ read' = read + n /\ read \in Nat
      /\ Len(source.text) \in Nat /\ Shape /\ n \in Nat
  BY TextTyped DEF Consume, LInv
<1>2. l \in Location /\ l.end = Lines(Match(n).end, n)
  <2>1. Match(n) \in Location
    BY <1>1, MatchTyped
  <2>2. Lines(Match(n).end, n) \in Position
    <3>1. Match(n).end \in Position
      BY <2>1 DEF Location
    <3> QED
      BY <1>1, <3>1 DEF Lines, Position
  <2> QED
    BY <2>1, <2>2 DEF Location
<1> HIDE DEF l
<1>3. loc' = Step(l) /\ UNCHANGED reports
  BY DEF Go, l
<1>4. loc' \in Location /\ loc'.end = Lines(Match(n).end, n)
  BY <1>2, <1>3, MovesTyped
<1>5. \A w : Reported(w) <=> Reported(w)'
  BY <1>3 DEF Reported
<1>6. EndIsTrue'
  BY <1>4, <1>5, EndBehindLines
<1>7. Shape'
  BY <1>1, <1>3, <1>4 DEF Shape
<1>8. CommentsAreOpen'
  BY <1>5 DEF LInv, CommentsAreOpen
<1> QED
  BY <1>6, <1>7, <1>8 DEF LInv

(* The start condition, the open comments and the string that is open.     *)
LEMMA ConditionsKept ==
  ASSUME LInv, \A w : Reported(w) => Reported(w)',
         \/ UNCHANGED <<condition, starts, string>>
         \/ /\ {condition, condition'} \subseteq {"INITIAL", "STRING"}
            /\ starts' = starts /\ string' \in Mark
         \/ /\ condition' = "COMMENT" /\ string' = string
            /\ \E m \in Mark : starts' = Append(starts, m)
  PROVE  /\ condition' \in {"INITIAL", "STRING", "COMMENT"}
         /\ starts' \in Seq(Mark) /\ string' \in Mark
         /\ CommentsAreOpen'
<1>1. starts \in Seq(Mark) /\ string \in Mark
      /\ condition \in {"INITIAL", "STRING", "COMMENT"}
  BY DEF LInv, Shape
<1>2. ~ Reported("unmatched comment")' =>
        (condition = "COMMENT" <=> starts # <<>>)
  BY DEF LInv, CommentsAreOpen
<1>3. CASE UNCHANGED <<condition, starts, string>>
  BY <1>1, <1>2, <1>3 DEF CommentsAreOpen
<1>4. CASE /\ {condition, condition'} \subseteq {"INITIAL", "STRING"}
           /\ starts' = starts /\ string' \in Mark
  <2>1. condition \in {"INITIAL", "STRING"} /\ condition' \in {"INITIAL", "STRING"}
    BY <1>4
  <2> QED
    BY <1>1, <1>2, <1>4, <2>1 DEF CommentsAreOpen
<1>5. CASE /\ condition' = "COMMENT" /\ string' = string
           /\ \E m \in Mark : starts' = Append(starts, m)
  <2>1. starts' \in Seq(Mark) /\ starts' # <<>>
    BY <1>1, <1>5
  <2> QED
    BY <1>1, <1>5, <2>1 DEF CommentsAreOpen
<1> QED
  BY <1>3, <1>4, <1>5

(* Any rule that matches text without line ends, with a report or without, *)
(* and keeps the comments as they are or opens one.                        *)
LEMMA TextRule ==
  ASSUME LInv, NEW n \in Nat, read + n <= Len(source.text), Consume(n),
         \A k \in 1 .. n : source.text[read + k] # "newline",
         loc' = Match(n) \/ loc' = Step(Match(n)),
         NEW r \in Report,
         reports' = reports \/ reports' = Append(reports, r),
         \/ UNCHANGED <<condition, starts, string>>
         \/ /\ {condition, condition'} \subseteq {"INITIAL", "STRING"}
            /\ starts' = starts /\ string' \in Mark
         \/ /\ condition' = "COMMENT" /\ string' = string
            /\ \E m \in Mark : starts' = Append(starts, m)
  PROVE  LInv'
<1>1. /\ source' \in Sources /\ read' \in 0 .. Len(source'.text)
      /\ loc' \in Location
      /\ reports' \in Seq(Report)
      /\ EndIsTrue' /\ \A w : Reported(w) => Reported(w)'
  BY TextMatched
<1>2. /\ condition' \in {"INITIAL", "STRING", "COMMENT"}
      /\ starts' \in Seq(Mark) /\ string' \in Mark
      /\ CommentsAreOpen'
  BY <1>1, ConditionsKept
<1> QED
  BY <1>1, <1>2 DEF LInv, Shape

(* What the rules can cite.                                                *)
LEMMA Here ==
  ASSUME LInv
  PROVE  /\ Shape /\ loc.begin \in Position /\ loc.end \in Position
         /\ read \in Nat /\ Len(source.text) \in Nat /\ read <= Len(source.text)
         /\ starts \in Seq(Mark) /\ string \in Mark
         /\ [at |-> read + 1, begin |-> loc.begin] \in Mark
         /\ \A w \in What, p \in Position : [what |-> w, at |-> p] \in Report
<1>1. Shape /\ read \in Nat /\ Len(source.text) \in Nat
  BY TextTyped DEF LInv
<1>2. read <= Len(source.text) /\ loc \in Location
  BY <1>1 DEF Shape
<1>3. loc.begin \in Position /\ loc.end \in Position
  BY <1>2 DEF Location
<1> QED
  BY <1>1, <1>2, <1>3 DEF Shape, Mark, Report

(* The character that is ahead, where a rule needs it.                     *)
LEMMA OneAhead ==
  ASSUME LInv, Ahead(1) # "eof"
  PROVE  /\ read + 1 <= Len(source.text)
         /\ \A k \in 1 .. 1 : source.text[read + k] = Ahead(1)
<1>1. read + 1 <= Len(source.text) /\ source.text[read + 1] = Ahead(1)
  BY AheadIsText DEF LInv
<1>2. \A k \in 1 .. 1 : k = 1
  OBVIOUS
<1> QED
  BY <1>1, <1>2

(* And the two of them.                                                    *)
LEMMA TwoAhead ==
  ASSUME LInv, Ahead(1) # "eof", Ahead(2) # "eof",
         Ahead(1) # "newline", Ahead(2) # "newline"
  PROVE  /\ read + 2 <= Len(source.text)
         /\ \A k \in 1 .. 2 : source.text[read + k] # "newline"
<1>1. /\ read + 1 <= Len(source.text) /\ source.text[read + 1] = Ahead(1)
      /\ read + 2 <= Len(source.text) /\ source.text[read + 2] = Ahead(2)
  BY AheadIsText DEF LInv
<1>2. \A k \in 1 .. 2 : k = 1 \/ k = 2
  OBVIOUS
<1> QED
  BY <1>1, <1>2

(* A report for TextRule where none is made.                               *)
AnyReport == [what |-> "invalid character", at |-> loc.begin]

-----------------------------------------------------------------------------
(* The rules of INITIAL.                                                   *)
LEMMA InitialStep == LInv /\ Initial => LInv'
<1> SUFFICES ASSUME LInv, Initial PROVE LInv'
  OBVIOUS
<1> USE Here
<1>0. AnyReport \in Report
  BY DEF AnyReport, What
<1>1. CASE Whitespace
  <2> DEFINE n == Run({"space"})
  <2>1. /\ n \in Nat /\ read + n <= Len(source.text)
        /\ \A k \in 1 .. n : source.text[read + k] # "newline"
    BY RunTyped
  <2>2. Consume(n) /\ loc' = Step(Match(n)) /\ reports' = reports
        /\ UNCHANGED <<condition, starts, string>>
    BY <1>1 DEF Whitespace, Go
  <2> HIDE DEF n
  <2> QED
    BY <1>0, <2>1, <2>2, TextRule
<1>2. CASE Newlines
  <2> DEFINE n == Run({"newline"})
  <2>1. /\ n \in Nat \ {0} /\ read + n <= Len(source.text)
        /\ \A k \in 1 .. n : source.text[read + k] = "newline"
    BY <1>2, RunTyped DEF Newlines
  <2>2. /\ Consume(n) /\ Go(Step([Match(n) EXCEPT !.end = Lines(@, n)]))
        /\ UNCHANGED <<condition, starts, string>>
    BY <1>2 DEF Newlines
  <2> HIDE DEF n
  <2> QED
    BY <2>1, <2>2, LinesMatched
<1>3. CASE Token
  <2> DEFINE n == IF Ahead(1) = "letter" THEN Run({"letter"}) ELSE 1
  <2>1. Ahead(1) \in {"letter", "mark", ")", "(", "*", "/"}
    BY <1>3 DEF Token
  <2>2. /\ n \in Nat /\ read + n <= Len(source.text)
        /\ \A k \in 1 .. n : source.text[read + k] # "newline"
    BY <2>1, RunTyped, OneAhead
  <2>3. Consume(n) /\ loc' = Step(Match(n)) /\ reports' = reports
        /\ UNCHANGED <<condition, starts, string>>
    BY <1>3 DEF Token, Return
  <2> HIDE DEF n
  <2> QED
    BY <1>0, <2>2, <2>3, TextRule
<1>4. CASE LineComment
  <2> DEFINE n == Run(Char \ {"newline"})
  <2>1. /\ n \in Nat /\ read + n <= Len(source.text)
        /\ \A k \in 1 .. n : source.text[read + k] # "newline"
    BY RunTyped
  <2>2. Consume(n) /\ loc' = Match(n) /\ reports' = reports
        /\ UNCHANGED <<condition, starts, string>>
    BY <1>4 DEF LineComment, Go
  <2> HIDE DEF n
  <2> QED
    BY <1>0, <2>1, <2>2, TextRule
<1>5. CASE OpenString
  <2>1. /\ Consume(1) /\ loc' = Match(1) /\ reports' = reports
        /\ condition = "INITIAL" /\ condition' = "STRING" /\ starts' = starts
        /\ string' \in Mark
    BY <1>5 DEF OpenString, Go, In
  <2>2. /\ read + 1 <= Len(source.text)
        /\ \A k \in 1 .. 1 : source.text[read + k] # "newline"
    BY <1>5, OneAhead DEF OpenString
  <2> QED
    BY <1>0, <2>1, <2>2, TextRule
<1>6. CASE OpenComment
  <2>1. /\ Consume(2) /\ loc' = Match(2) /\ reports' = reports
        /\ condition' = "COMMENT" /\ string' = string
        /\ \E m \in Mark : starts' = Append(starts, m)
    BY <1>6 DEF OpenComment, Go
  <2>2. /\ read + 2 <= Len(source.text)
        /\ \A k \in 1 .. 2 : source.text[read + k] # "newline"
    BY <1>6, TwoAhead DEF OpenComment, AtOpening
  <2> QED
    BY <1>0, <2>1, <2>2, TextRule
<1>7. CASE NoToken
  <2>1. UNCHANGED <<condition, starts, string>>
    BY <1>7 DEF NoToken
  <2>2. CASE AtClosing /\ Consume(2) /\ loc' = Step(Match(2))
             /\ Fail("unmatched closing", loc.begin)
    <3>1. /\ read + 2 <= Len(source.text)
          /\ \A k \in 1 .. 2 : source.text[read + k] # "newline"
      BY <2>2, TwoAhead DEF AtClosing
    <3>2. reports' = Append(reports, [what |-> "unmatched closing",
                                      at |-> loc.begin])
      BY <2>2 DEF Fail
    <3>3. [what |-> "unmatched closing", at |-> loc.begin] \in Report
      BY DEF What
    <3> QED
      BY <2>1, <2>2, <3>1, <3>2, <3>3, TextRule
  <2>3. CASE Ahead(1) \in {"#", "backslash"} /\ Consume(1)
             /\ loc' = Step(Match(1)) /\ Fail("invalid character", loc.begin)
    <3>1. /\ read + 1 <= Len(source.text)
          /\ \A k \in 1 .. 1 : source.text[read + k] # "newline"
      BY <2>3, OneAhead
    <3>2. reports' = Append(reports, [what |-> "invalid character",
                                      at |-> loc.begin])
      BY <2>3 DEF Fail
    <3>3. [what |-> "invalid character", at |-> loc.begin] \in Report
      BY DEF What
    <3> QED
      BY <2>1, <2>3, <3>1, <3>2, <3>3, TextRule
  <2> QED
    BY <1>7, <2>2, <2>3 DEF NoToken
<1>8. CASE EndOfFile
  BY <1>8 DEF EndOfFile, LInv, Shape, EndIsTrue, CommentsAreOpen, Reported,
    Place, LineEnds
<1> QED
  BY <1>1, <1>2, <1>3, <1>4, <1>5, <1>6, <1>7, <1>8 DEF Initial

-----------------------------------------------------------------------------
(* A match of nothing.                                                     *)
LEMMA NothingMatched == ASSUME Shape PROVE Match(0) = loc
<1>1. /\ loc = [begin |-> loc.begin, end |-> loc.end]
      /\ loc.end = [line |-> loc.end.line, column |-> loc.end.column]
      /\ loc.end.column \in Nat
  BY DEF Shape, Location, Position
<1>2. Match(0).begin = loc.begin
      /\ Match(0).end = [line |-> loc.end.line, column |-> loc.end.column + 0]
      /\ Match(0) \in Location
  BY MatchTyped
<1> QED
  BY <1>1, <1>2 DEF Location

(* How far a broken string is matched: up to the blanks of its next line.  *)
LEMMA BreakIs ==
  ASSUME LInv, Ahead(1) = "backslash", Ahead(2) = "newline", NEW n,
         n = Max({k \in 2 .. Len(source.text) - read :
                    \A j \in 3 .. k : source.text[read + j] = "space"})
  PROVE  /\ n \in Nat /\ n >= 2 /\ read + n <= Len(source.text)
         /\ read + 1 <= Len(source.text) /\ source.text[read + 1] = "backslash"
         /\ read + 2 <= Len(source.text) /\ source.text[read + 2] = "newline"
         /\ \A j \in 3 .. n : source.text[read + j] = "space"
<1> USE Here
<1> DEFINE room == Len(source.text) - read
           T == {k \in 2 .. room : \A j \in 3 .. k : source.text[read + j] = "space"}
<1>1. /\ read + 1 <= Len(source.text) /\ source.text[read + 1] = "backslash"
      /\ read + 2 <= Len(source.text) /\ source.text[read + 2] = "newline"
  BY AheadIsText
<1>2. room \in Nat /\ 2 \in T
  BY <1>1
<1>3. T \in SUBSET Nat /\ T # {} /\ \A t \in T : t <= room
  <2>1. T \subseteq 2 .. room
    OBVIOUS
  <2> HIDE DEF T
  <2> QED
    BY <1>2, <2>1
<1>4. \E t \in T : \A u \in T : t >= u
  <2> HIDE DEF T
  <2> QED
    BY <1>2, <1>3, Greatest
<1>5. n \in T
  BY <1>4 DEF Max
<1> QED
  BY <1>1, <1>5

(* A broken string: the backslash, one line end and the blanks behind it.  *)
LEMMA BreakStep == LInv /\ BreakString => LInv'
<1> SUFFICES ASSUME LInv, BreakString PROVE LInv'
  OBVIOUS
<1> USE Here
<1> DEFINE room == Len(source.text) - read
           n == Max({k \in 2 .. room : \A j \in 3 .. k : source.text[read + j] = "space"})
           l == [begin |-> Match(n).end,
                 end   |-> Columns(Lines(Match(n).end, 1), n - 2)]
<1>1. /\ Ahead(1) = "backslash" /\ Ahead(2) = "newline"
      /\ Consume(n) /\ Go(l) /\ UNCHANGED <<condition, starts, string>>
  BY DEF BreakString
<1>2. /\ n \in Nat /\ n >= 2 /\ read + n <= Len(source.text)
      /\ read + 1 <= Len(source.text) /\ source.text[read + 1] = "backslash"
      /\ read + 2 <= Len(source.text) /\ source.text[read + 2] = "newline"
      /\ \A j \in 3 .. n : source.text[read + j] = "space"
  BY <1>1, BreakIs
<1> HIDE DEF n, l
<1>3. /\ Match(n).end \in Position
      /\ Match(n).end.line = loc.end.line
  <2>1. /\ Match(n) \in Location
        /\ Match(n).end
             = [line |-> loc.end.line, column |-> loc.end.column + n]
    BY <1>2, MatchTyped
  <2> QED
    BY <2>1 DEF Location
<1>4. l.end = [line |-> loc.end.line + 1, column |-> n - 1] /\ l \in Location
  <2>1. Lines(Match(n).end, 1) = [line |-> loc.end.line + 1, column |-> 1]
    BY <1>3 DEF Lines
  <2>2. Columns(Lines(Match(n).end, 1), n - 2)
          = [line |-> loc.end.line + 1, column |-> n - 1]
    BY <1>2, <2>1 DEF Columns
  <2>3. loc.end.line \in Int /\ n - 1 \in Nat \ {0}
    BY <1>2 DEF Position
  <2>4. [line |-> loc.end.line + 1, column |-> n - 1] \in Position
    BY <2>3 DEF Position
  <2> QED
    BY <1>3, <2>2, <2>4 DEF l, Location
<1>5. /\ loc' = l /\ reports' = reports /\ source' = source /\ read' = read + n
      /\ \A w : Reported(w) <=> Reported(w)'
  BY <1>1 DEF Go, Consume, Reported
<1>6. Place(read + 1 + n) = [line |-> Place(read + 1).line + 1, column |-> n - 1]
  <2>1. Place(read + 1 + 1).line = Place(read + 1).line
    <3>1. \A k \in read + 1 .. read + 1 + 1 - 1 : source.text[k] # "newline"
      <4>1. \A k \in read + 1 .. read + 1 + 1 - 1 : k = read + 1
        OBVIOUS
      <4> QED
        BY <1>2, <4>1
    <3>2. read + 1 \in Nat \ {0}
      OBVIOUS
    <3>3. Place(read + 1 + 1) = [line |-> Place(read + 1).line,
                                 column |-> Place(read + 1).column + 1]
      BY <3>1, <3>2, PlaceOnLine
    <3> QED
      BY <3>3
  <2>2. Place(read + 2 + 1) = [line |-> Place(read + 2).line + 1, column |-> 1]
    <3>1. \A k \in read + 2 .. read + 2 + 1 - 1 : source.text[k] = "newline"
      <4>1. \A k \in read + 2 .. read + 2 + 1 - 1 : k = read + 2
        OBVIOUS
      <4> QED
        BY <1>2, <4>1
    <3>2. read + 2 \in Nat \ {0} /\ 1 \in Nat \ {0}
      OBVIOUS
    <3> QED
      BY <3>1, <3>2, PlaceBehindLines
  <2>3. Place(read + 3 + (n - 2))
          = [line |-> Place(read + 3).line, column |-> Place(read + 3).column + (n - 2)]
    <3>1. ASSUME NEW k \in read + 3 .. read + 3 + (n - 2) - 1
          PROVE  source.text[k] # "newline"
      <4>1. k - read \in 3 .. n /\ k = read + (k - read)
        BY <1>2
      <4>2. source.text[read + (k - read)] = "space"
        BY <1>2, <4>1
      <4> QED
        BY <4>1, <4>2
    <3>2. read + 3 \in Nat \ {0} /\ n - 2 \in Nat
      BY <1>2
    <3> QED
      BY <3>1, <3>2, PlaceOnLine
  <2>4. /\ read + 1 + 1 = read + 2 /\ read + 2 + 1 = read + 3
        /\ read + 3 + (n - 2) = read + 1 + n /\ 1 + (n - 2) = n - 1
    <3>1. read \in Int /\ n \in Int
      BY <1>2
    <3> QED
      BY <3>1
  <2> QED
    BY <2>1, <2>2, <2>3, <2>4
<1>7. EndIsTrue'
  <2>1. read' + 1 = read + 1 + n
    BY <1>2, <1>5
  <2>2. Place(read + 1)' = Place(read + 1 + n)
    BY <1>5, <2>1 DEF Place, LineEnds
  <2>3. ~ Reported("newline in string")' => loc.end = Place(read + 1)
    BY <1>5 DEF LInv, EndIsTrue
  <2> QED
    BY <1>4, <1>5, <1>6, <2>2, <2>3 DEF EndIsTrue
<1>8. Shape'
  BY <1>1, <1>2, <1>4, <1>5 DEF Shape
<1>9. CommentsAreOpen'
  BY <1>1, <1>5 DEF LInv, CommentsAreOpen
<1> QED
  BY <1>7, <1>8, <1>9 DEF LInv

(* The rules of STRING_STATE.                                              *)
LEMMA StringStep == LInv /\ InString => LInv'
<1> SUFFICES ASSUME LInv, InString PROVE LInv'
  OBVIOUS
<1> USE Here
<1>0. AnyReport \in Report
  BY DEF AnyReport, What
<1>1. CASE CloseString
  <2>1. /\ Consume(1) /\ loc' = Step(Match(1)) /\ reports' = reports
        /\ {condition, condition'} \subseteq {"INITIAL", "STRING"}
        /\ starts' = starts /\ string' \in Mark
    BY <1>1 DEF CloseString, Return, In
  <2>2. /\ read + 1 <= Len(source.text)
        /\ \A k \in 1 .. 1 : source.text[read + k] # "newline"
    BY <1>1, OneAhead DEF CloseString
  <2> QED
    BY <1>0, <2>1, <2>2, TextRule
<1>2. CASE BreakString
  BY <1>2, BreakStep
<1>3. CASE StringText
  <2>1. UNCHANGED <<condition, starts, string>>
    BY <1>3 DEF StringText
  <2>2. CASE /\ Ahead(1) \notin {"quote", "backslash", "newline", "eof"}
             /\ \E n \in {Run(Char \ {"quote", "backslash", "newline"})} :
                  Consume(n) /\ Go(Match(n))
    <3> DEFINE n == Run(Char \ {"quote", "backslash", "newline"})
    <3>1. /\ n \in Nat /\ read + n <= Len(source.text)
          /\ \A k \in 1 .. n : source.text[read + k] # "newline"
      BY RunTyped
    <3>2. Consume(n) /\ loc' = Match(n) /\ reports' = reports
      BY <2>2 DEF Go
    <3> HIDE DEF n
    <3> QED
      BY <1>0, <2>1, <3>1, <3>2, TextRule
  <2>3. CASE /\ Ahead(1) = "backslash" /\ Ahead(2) \in {"quote", "backslash"}
             /\ Consume(2) /\ Go(Match(2))
    <3>1. /\ read + 2 <= Len(source.text)
          /\ \A k \in 1 .. 2 : source.text[read + k] # "newline"
      BY <2>3, TwoAhead
    <3>2. loc' = Match(2) /\ reports' = reports
      BY <2>3 DEF Go
    <3> QED
      BY <1>0, <2>1, <2>3, <3>1, <3>2, TextRule
  <2> QED
    BY <1>3, <2>2, <2>3 DEF StringText
<1>4. CASE BadEscape
  <2> DEFINE r == [what |-> "unknown escape", at |-> Columns(Match(2).end, -2)]
  <2>1. /\ Consume(2) /\ loc' = Step(Match(2)) /\ reports' = Append(reports, r)
        /\ UNCHANGED <<condition, starts, string>>
    BY <1>4 DEF BadEscape, Fail
  <2>2. /\ read + 2 <= Len(source.text)
        /\ \A k \in 1 .. 2 : source.text[read + k] # "newline"
    BY <1>4, TwoAhead DEF BadEscape
  <2>3. r \in Report
    <3>1. Match(2) \in Location
      BY MatchTyped
    <3>2. Columns(Match(2).end, -2) \in Position
      BY <3>1, MovesTyped DEF Location
    <3> QED
      BY <3>2 DEF What
  <2> HIDE DEF r
  <2> QED
    BY <2>1, <2>2, <2>3, TextRule
<1>5. CASE NewlineInString
  <2> DEFINE r == [what |-> "newline in string", at |-> Columns(Match(1).end, -1)]
  <2>1. /\ Consume(1) /\ loc' = Step(Match(1)) /\ reports' = Append(reports, r)
        /\ UNCHANGED <<condition, starts, string>>
    BY <1>5 DEF NewlineInString, Fail
  <2>2. read + 1 <= Len(source.text)
    BY <1>5, OneAhead DEF NewlineInString
  <2>3. Match(1) \in Location
    BY MatchTyped
  <2>4. r \in Report
    <3>1. Columns(Match(1).end, -1) \in Position
      BY <2>3, MovesTyped DEF Location
    <3> QED
      BY <3>1 DEF What
  <2>5. /\ reports \in Seq(Report) /\ reports' \in Seq(Report)
        /\ Len(reports') \in DOMAIN reports' /\ reports'[Len(reports')] = r
    <3>1. reports \in Seq(Report)
      BY DEF Shape
    <3> HIDE DEF r
    <3> QED
      BY <2>1, <2>4, <3>1
  <2>6. Reported("newline in string")'
    <3>1. reports'[Len(reports')].what = "newline in string"
      <4>1. r.what = "newline in string"
        OBVIOUS
      <4> HIDE DEF r
      <4> QED
        BY <2>5, <4>1
    <3> HIDE DEF r
    <3> QED
      BY <2>5, <3>1 DEF Reported
  <2>7. \A w : Reported(w) => Reported(w)'
    BY <2>1, ReportsStay
  <2>8. CommentsAreOpen'
    BY <2>1, <2>7 DEF LInv, CommentsAreOpen
  <2>9. Shape'
    <3>1. source' = source /\ read' \in 0 .. Len(source'.text)
      <4>1. source' = source /\ read' = read + 1
        BY <2>1 DEF Consume
      <4>2. source'.text = source.text
        BY <4>1
      <4> QED
        BY <2>2, <4>1, <4>2
    <3>2. loc' \in Location
      BY <2>1, <2>3, MovesTyped
    <3> HIDE DEF r
    <3> QED
      BY <2>1, <2>5, <3>1, <3>2 DEF Shape
  <2> QED
    BY <2>6, <2>8, <2>9 DEF LInv, EndIsTrue
<1>6. CASE LoneBackslash
  <2> DEFINE r == [what |-> "invalid in string", at |-> string.begin]
  <2>1. /\ Consume(1) /\ loc' = Match(1) /\ reports' = Append(reports, r)
        /\ UNCHANGED <<condition, starts, string>>
    BY <1>6 DEF LoneBackslash
  <2>2. /\ read + 1 <= Len(source.text)
        /\ \A k \in 1 .. 1 : source.text[read + k] # "newline"
    BY <1>6, OneAhead DEF LoneBackslash
  <2>3. r \in Report
    BY DEF What, Mark
  <2> HIDE DEF r
  <2> QED
    BY <2>1, <2>2, <2>3, TextRule
<1>7. CASE EndInString
  <2> DEFINE r == [what |-> "end in string", at |-> string.begin]
  <2>1. /\ Consume(0) /\ loc' = Step(Match(0)) /\ reports' = Append(reports, r)
        /\ {condition, condition'} \subseteq {"INITIAL", "STRING"}
        /\ starts' = starts /\ string' \in Mark
    BY <1>7, NothingMatched DEF EndInString, Fail, In
  <2>2. read + 0 <= Len(source.text) /\ 1 .. 0 = {}
    OBVIOUS
  <2>3. r \in Report
    BY DEF What, Mark
  <2> HIDE DEF r
  <2> QED
    BY <2>1, <2>2, <2>3, TextRule
<1> QED
  BY <1>1, <1>2, <1>3, <1>4, <1>5, <1>6, <1>7 DEF InString

-----------------------------------------------------------------------------
(* The rules of COMMENT_STATE.                                             *)
LEMMA CommentStep == LInv /\ InComment => LInv'
<1> SUFFICES ASSUME LInv, InComment PROVE LInv'
  OBVIOUS
<1> USE Here
<1>0. AnyReport \in Report
  BY DEF AnyReport, What
<1>1. CASE NestComment
  <2>1. /\ Consume(2) /\ loc' = Match(2) /\ reports' = reports
        /\ condition' = "COMMENT" /\ string' = string
        /\ \E m \in Mark : starts' = Append(starts, m)
    BY <1>1 DEF NestComment, Go, In
  <2>2. /\ read + 2 <= Len(source.text)
        /\ \A k \in 1 .. 2 : source.text[read + k] # "newline"
    BY <1>1, TwoAhead DEF NestComment, AtOpening
  <2> QED
    BY <1>0, <2>1, <2>2, TextRule
<1>2. CASE CloseComment
  <2>1. /\ Consume(2) /\ loc' = Match(2) /\ reports' = reports
        /\ condition = "COMMENT" /\ string' = string
        /\ starts' = SubSeq(starts, 1, Len(starts) - 1)
        /\ condition' = IF Len(starts) = 1 THEN "INITIAL" ELSE "COMMENT"
    BY <1>2 DEF CloseComment, Go, In
  <2>2. /\ read + 2 <= Len(source.text)
        /\ \A k \in 1 .. 2 : source.text[read + k] # "newline"
    BY <1>2, TwoAhead DEF CloseComment, AtClosing
  <2>3. /\ source' \in Sources /\ read' \in 0 .. Len(source'.text)
        /\ loc' \in Location /\ reports' \in Seq(Report)
        /\ EndIsTrue' /\ \A w : Reported(w) => Reported(w)'
    BY <1>0, <2>1, <2>2, TextMatched
  <2>4. starts' \in Seq(Mark) /\ (Len(starts) >= 1 => Len(starts') = Len(starts) - 1)
    <3>1. Len(starts) \in Nat /\ \A i \in 1 .. Len(starts) : starts[i] \in Mark
      BY ElementOfSeq
    <3> DEFINE m == Len(starts) - 1
    <3>2. m \in Int /\ \A i \in 1 .. m : starts[i] \in Mark
      BY <3>1
    <3>3. starts' = SubSeq(starts, 1, m) /\ m = Len(starts) - 1
      BY <2>1
    <3> HIDE DEF m
    <3>4. /\ SubSeq(starts, 1, m) \in Seq(Mark)
          /\ Len(SubSeq(starts, 1, m)) = IF 1 <= m THEN m - 1 + 1 ELSE 0
      BY <3>2, SubSeqProperties
    <3> QED
      BY <3>1, <3>2, <3>3, <3>4
  <2>5. CommentsAreOpen'
    <3>1. SUFFICES ASSUME starts # <<>>
                   PROVE  condition' = "COMMENT" <=> starts' # <<>>
      BY <2>1, <2>3 DEF LInv, CommentsAreOpen
    <3>2. Len(starts) \in Nat /\ Len(starts) >= 1
      BY <3>1
    <3>3. starts' = <<>> <=> Len(starts') = 0
      BY <2>4
    <3> QED
      BY <2>1, <2>4, <3>2, <3>3
  <2> QED
    BY <2>1, <2>3, <2>4, <2>5 DEF LInv, Shape
<1>3. CASE CommentText
  <2>1. UNCHANGED <<condition, starts, string>>
    BY <1>3 DEF CommentText
  <2>2. CASE /\ Ahead(1) = "newline"
             /\ \E n \in {Run({"newline"})} :
                  Consume(n) /\ Go(Step([Match(n) EXCEPT !.end = Lines(@, n)]))
    <3> DEFINE n == Run({"newline"})
    <3>1. /\ n \in Nat \ {0} /\ read + n <= Len(source.text)
          /\ \A k \in 1 .. n : source.text[read + k] = "newline"
      BY <2>2, RunTyped
    <3>2. Consume(n) /\ Go(Step([Match(n) EXCEPT !.end = Lines(@, n)]))
      BY <2>2
    <3> HIDE DEF n
    <3> QED
      BY <2>1, <3>1, <3>2, LinesMatched
  <2>3. CASE /\ Ahead(1) \notin {"newline", "eof"}
             /\ Consume(1) /\ Go(Step(Match(1)))
    <3>1. /\ read + 1 <= Len(source.text)
          /\ \A k \in 1 .. 1 : source.text[read + k] # "newline"
      BY <2>3, OneAhead
    <3>2. loc' = Step(Match(1)) /\ reports' = reports
      BY <2>3 DEF Go
    <3> QED
      BY <1>0, <2>1, <2>3, <3>1, <3>2, TextRule
  <2> QED
    BY <1>3, <2>2, <2>3 DEF CommentText
<1>4. CASE EndInComment
  <2> DEFINE r == [what |-> "unmatched comment", at |-> starts[Len(starts)].begin]
  <2>1. /\ Consume(0) /\ loc' = Step(Match(0)) /\ reports' = Append(reports, r)
        /\ condition' = "INITIAL" /\ UNCHANGED <<starts, string>>
        /\ starts # <<>>
    BY <1>4, NothingMatched DEF EndInComment, Fail
  <2>2. read + 0 <= Len(source.text) /\ 1 .. 0 = {} /\ 0 \in Nat
    OBVIOUS
  <2>3. r \in Report /\ r.what = "unmatched comment"
    <3>1. starts[Len(starts)] \in Mark
      <4>1. Len(starts) \in 1 .. Len(starts)
        <5>1. starts \in Seq(Mark) /\ starts # <<>>
          BY <2>1
        <5>2. Len(starts) \in Nat \ {0}
          BY <5>1, EmptySeq
        <5> QED
          BY <5>2
      <4> QED
        BY <4>1, ElementOfSeq
    <3>2. starts[Len(starts)].begin \in Position
      BY <3>1 DEF Mark
    <3> QED
      BY <3>2 DEF What
  <2> HIDE DEF r
  <2>4. /\ source' \in Sources /\ read' \in 0 .. Len(source'.text)
        /\ loc' \in Location /\ reports' \in Seq(Report)
        /\ EndIsTrue'
    BY <2>1, <2>2, <2>3, TextMatched
  <2>5. Reported("unmatched comment")'
    <3>1. reports \in Seq(Report)
      BY DEF Shape
    <3>2. reports' = Append(reports, r) /\ r \in Report
      BY <2>1, <2>3
    <3>3. /\ reports' \in Seq(Report) /\ Len(reports) \in Nat
          /\ Len(reports') = Len(reports) + 1
          /\ reports'[Len(reports) + 1] = r
      BY <3>1, <3>2, AppendProperties
    <3>4. Len(reports') \in DOMAIN reports' /\ reports'[Len(reports')] = r
      BY <3>3
    <3> QED
      BY <2>3, <3>4 DEF Reported
  <2>6. CommentsAreOpen'
    BY <2>5 DEF CommentsAreOpen
  <2> QED
    BY <2>1, <2>4, <2>6 DEF LInv, Shape
<1> QED
  BY <1>1, <1>2, <1>3, <1>4 DEF InComment

-----------------------------------------------------------------------------
(* The scanner begins at the first place, in no comment.                   *)
LEMMA ScanStart == Init => LInv
<1> SUFFICES ASSUME Init PROVE LInv
  OBVIOUS
<1>1. source.text \in Seq(Char) /\ Len(source.text) \in Nat
  BY SourcesAssumption DEF Init
<1>2. First \in Position
  BY DEF First, Position
<1>3. Shape
  BY <1>1, <1>2 DEF Init, Shape, Location, Mark
<1>4. Place(1) = First
  <2>1. LineEnds(1) = {}
    BY DEF LineEnds
  <2>2. Cardinality(LineEnds(1)) = 0
    BY <2>1, FS_EmptySet
  <2>3. Max({0} \cup LineEnds(1)) = 0
    BY <2>1 DEF Max
  <2> QED
    BY <2>2, <2>3 DEF Place, First
<1>5. EndIsTrue
  <2>1. read + 1 = 1 /\ loc.end = First
    BY DEF Init
  <2> QED
    BY <1>4, <2>1 DEF EndIsTrue
<1>6. CommentsAreOpen
  BY DEF Init, CommentsAreOpen
<1> QED
  BY <1>3, <1>5, <1>6 DEF LInv

LEMMA ScanStep == LInv /\ [Next]_vars => LInv'
<1>1. LInv /\ UNCHANGED vars => LInv'
  BY DEF vars, LInv, Shape, EndIsTrue, CommentsAreOpen, Reported, Place, LineEnds
<1> QED
  BY <1>1, InitialStep, StringStep, CommentStep DEF Next

(* The end of the location is the place scanning is at, for files of any   *)
(* length without a bare newline in a string.                              *)
THEOREM EndCorrect == Spec => []EndIsTrue
<1>1. LInv => EndIsTrue
  BY DEF LInv
<1> QED
  BY <1>1, ScanStart, ScanStep, PTL DEF Spec

(* The scanner is in a comment exactly as long as one is open, so the      *)
(* rules of comments find a start on the stack.                            *)
THEOREM CommentsCorrect == Spec => []CommentsAreOpen
<1>1. LInv => CommentsAreOpen
  BY DEF LInv
<1> QED
  BY <1>1, ScanStart, ScanStep, PTL DEF Spec

-----------------------------------------------------------------------------
(* The begin of the location.  In INITIAL it is the place of the next      *)
(* character, unless a comment has just ended; behind the comment of a     *)
(* line it is stale until the line end moves it.                           *)
Placed(begin, at) ==
  ~ Reported("newline in string") /\ ~ AfterComment(at) => begin = Place(at)

BeginIsTrue ==
  condition = "INITIAL" /\ Ahead(1) \notin {"newline", "eof"} =>
    Placed(loc.begin, read + 1)

StringIsPlaced == condition = "STRING" => Placed(string.begin, string.at)

BInv == /\ LInv
        /\ tokens \in Seq(Mark)
        /\ BeginIsTrue
        /\ StringIsPlaced
        /\ TokensAreInPlace

(* No report is taken back, and the file stays.                            *)
LEMMA NothingTakenBack ==
  ASSUME LInv, [Next]_vars
  PROVE  source' = source /\ \A w : Reported(w) => Reported(w)'
<1>1. source' = source
  BY DEF Next, Initial, InString, InComment, Whitespace, Newlines, Token,
    LineComment, OpenString, OpenComment, NoToken, EndOfFile, CloseString,
    BreakString, StringText, BadEscape, NewlineInString, LoneBackslash,
    EndInString, NestComment, CloseComment, CommentText, EndInComment, Consume,
    vars
<1>2. reports' = reports \/ \E r : reports' = Append(reports, r)
  BY DEF Next, Initial, InString, InComment, Whitespace, Newlines, Token,
    LineComment, OpenString, OpenComment, NoToken, EndOfFile, CloseString,
    BreakString, StringText, BadEscape, NewlineInString, LoneBackslash,
    EndInString, NestComment, CloseComment, CommentText, EndInComment,
    Go, Return, Fail, vars
<1> QED
  BY <1>1, <1>2, ReportsStay DEF LInv

(* A rule that ends with loc.step() puts the begin where the end is.       *)
LEMMA Stepped ==
  ASSUME LInv', NEW l, loc' = Step(l)
  PROVE  BeginIsTrue'
<1>1. Step(l) = [l EXCEPT !.begin = l.end] /\ loc' \in Location
  BY DEF Step, LInv, Shape
<1>2. loc'.begin = loc'.end
  BY <1>1 DEF Location
<1>3. ~ Reported("newline in string")' => loc'.begin = Place(read + 1)'
  BY <1>2 DEF LInv, EndIsTrue
<1> QED
  BY <1>3 DEF BeginIsTrue, Placed

(* A step in which no string is opened and no token returned leaves those  *)
(* in their places.                                                        *)
LEMMA OthersStay ==
  ASSUME BInv, LInv', [Next]_vars, UNCHANGED tokens,
         condition' = "STRING" => condition = "STRING" /\ string' = string,
         BeginIsTrue'
  PROVE  BInv'
<1>1. StringIsPlaced'
  <2>1. SUFFICES ASSUME condition' = "STRING"
                 PROVE  Placed(string.begin, string.at)'
    BY DEF StringIsPlaced
  <2>2. Placed(string.begin, string.at) /\ string' = string
    BY <2>1 DEF BInv, StringIsPlaced
  <2>3. ~ Reported("newline in string")' /\ ~ AfterComment(string.at)' =>
          string.begin = Place(string.at)'
    <3>1. source' = source /\ \A w : Reported(w) => Reported(w)'
      BY NothingTakenBack DEF BInv
    <3> QED
      BY <2>2, <3>1 DEF Placed, Place, LineEnds, AfterComment
  <2> QED
    BY <2>2, <2>3 DEF Placed
<1>2. TokensAreInPlace'
  <2>1. source' = source /\ \A w : Reported(w) => Reported(w)'
    BY NothingTakenBack DEF BInv
  <2> QED
    BY <2>1 DEF BInv, TokensAreInPlace, Place, LineEnds, AfterComment
<1> QED
  BY <1>1, <1>2 DEF BInv

(* Behind the comment of a line there is its end, or that of the file.     *)
LEMMA LineCommentEnds ==
  ASSUME LInv, LineComment
  PROVE  Ahead(1)' \in {"newline", "eof"}
<1> DEFINE m == Run(Char \ {"newline"})
<1> USE Here
<1>1. source' = source /\ read' = read + m /\ m \in Nat
  BY RunTyped DEF LineComment, Consume
<1>2. read + m + 1 <= Len(source.text) =>
        source.text[read + m + 1] \notin Char \ {"newline"}
  BY RunEnds
<1> HIDE DEF m
<1>3. SUFFICES ASSUME read + m + 1 <= Len(source.text),
                      source.text[read + m + 1] # "newline"
               PROVE  FALSE
  <2>1. Ahead(1)' = IF read + m + 1 <= Len(source.text)
                    THEN source.text[read + m + 1] ELSE "eof"
    BY <1>1 DEF Ahead
  <2> QED
    BY <2>1
<1>4. source.text[read + m + 1] \in Char
  <2>1. read + m + 1 \in 1 .. Len(source.text)
    BY <1>1, <1>3
  <2> QED
    BY <2>1, TextTyped
<1> QED
  BY <1>2, <1>3, <1>4

(* Every rule keeps begins in their places.                                *)
LEMMA BeginsStep == BInv /\ [Next]_vars => BInv'
<1> SUFFICES ASSUME BInv, [Next]_vars PROVE BInv'
  OBVIOUS
<1>1. LInv /\ LInv' /\ Shape /\ read \in Nat
  BY ScanStep, Here DEF BInv
<1>2. source' = source /\ \A w : Reported(w) => Reported(w)'
  BY <1>1, NothingTakenBack
<1>3. CASE \/ Whitespace \/ Newlines \/ NoToken
           \/ BadEscape \/ NewlineInString \/ EndInString
           \/ CommentText \/ EndInComment
  <2>1. \E l : loc' = Step(l)
    BY <1>3 DEF Whitespace, Newlines, NoToken, BadEscape, NewlineInString,
      EndInString, CommentText, EndInComment, Go
  <2>2. BeginIsTrue'
    BY <1>1, <2>1, Stepped
  <2>3. UNCHANGED tokens /\ string' = string
        /\ (condition' = "STRING" => condition = "STRING")
    BY <1>3 DEF Whitespace, Newlines, NoToken, BadEscape, NewlineInString,
      EndInString, CommentText, EndInComment, Go, Fail
  <2> QED
    BY <1>1, <2>2, <2>3, OthersStay
<1>4. CASE \/ BreakString \/ StringText \/ LoneBackslash
           \/ OpenComment \/ NestComment
  <2>1. /\ condition' # "INITIAL" /\ UNCHANGED tokens /\ string' = string
        /\ (condition' = "STRING" => condition = "STRING")
    BY <1>4 DEF BreakString, StringText, LoneBackslash, OpenComment,
      NestComment, In, Go
  <2> QED
    BY <1>1, <2>1, OthersStay DEF BeginIsTrue
<1>5. CASE LineComment
  <2>1. UNCHANGED tokens /\ string' = string /\ condition' = condition
    BY <1>5 DEF LineComment, Go
  <2>2. BeginIsTrue'
    BY <1>1, <1>5, LineCommentEnds DEF BeginIsTrue
  <2> QED
    BY <1>1, <2>1, <2>2, OthersStay
<1>6. CASE CloseComment
  <2>1. /\ UNCHANGED tokens /\ string' = string /\ condition' # "STRING"
        /\ AtClosing /\ read' = read + 2
    BY <1>6 DEF CloseComment, Go, Consume
  <2>2. AfterComment(read + 1)'
    <3>1. /\ Ahead(1) # "eof" /\ Ahead(2) # "eof"
          /\ Ahead(1) = "*" /\ Ahead(2) = ")"
      BY <2>1 DEF AtClosing
    <3>2. source.text[read + 1] = "*" /\ source.text[read + 2] = ")"
      BY <1>1, <3>1, AheadIsText
    <3>3. ASSUME NEW i, i = read' + 1
          PROVE  i > 2 /\ source'.text[i - 2] = "*" /\ source'.text[i - 1] = ")"
      <4>1. i = read + 3 /\ read \in Nat
        BY <1>1, <2>1, <3>3
      <4>2. i > 2 /\ i - 2 = read + 1 /\ i - 1 = read + 2
        BY <4>1
      <4> QED
        BY <1>2, <3>2, <4>2
    <3> QED
      BY <3>3 DEF AfterComment
  <2>3. BeginIsTrue'
    BY <2>2 DEF BeginIsTrue, Placed
  <2> QED
    BY <1>1, <2>1, <2>3, OthersStay
<1>7. CASE OpenString
  <2>1. /\ UNCHANGED tokens /\ condition' = "STRING" /\ condition = "INITIAL"
        /\ string' = [at |-> read + 1, begin |-> loc.begin]
        /\ Ahead(1) = "quote"
    BY <1>7 DEF OpenString, Go, In
  <2>2. Placed(loc.begin, read + 1)
    BY <2>1 DEF BInv, BeginIsTrue
  <2>3. StringIsPlaced'
    BY <1>2, <2>1, <2>2
    DEF StringIsPlaced, Placed, Place, LineEnds, AfterComment
  <2>4. TokensAreInPlace' /\ BeginIsTrue'
    BY <1>2, <2>1
    DEF BInv, BeginIsTrue, TokensAreInPlace, Place, LineEnds, AfterComment
  <2> QED
    BY <1>1, <2>1, <2>3, <2>4 DEF BInv
<1>8. CASE Token \/ CloseString
  <2>1. BeginIsTrue'
    <3>1. \E l : loc' = Step(l)
      BY <1>8 DEF Token, CloseString
    <3> QED
      BY <1>1, <3>1, Stepped
  <2>2. PICK m \in Mark : tokens' = Append(tokens, m) /\ Placed(m.begin, m.at)
    <3>1. CASE Token
      <4>1. /\ tokens' = Append(tokens, [at |-> read + 1, begin |-> loc.begin])
            /\ condition = "INITIAL"
            /\ Ahead(1) \in {"letter", "mark", ")", "(", "*", "/"}
        BY <3>1 DEF Token, Return, In
      <4>2. Placed(loc.begin, read + 1)
        BY <4>1 DEF BInv, BeginIsTrue
      <4> QED
        BY <1>1, <4>1, <4>2, Here
    <3>2. CASE CloseString
      <4>1. tokens' = Append(tokens, string) /\ condition = "STRING"
        BY <3>2 DEF CloseString, Return, In
      <4>2. Placed(string.begin, string.at)
        BY <4>1 DEF BInv, StringIsPlaced
      <4> QED
        BY <1>1, <4>1, <4>2, Here
    <3> QED
      BY <1>8, <3>1, <3>2
  <2>3. tokens' \in Seq(Mark) /\ TokensAreInPlace'
    <3>1. tokens \in Seq(Mark)
      BY DEF BInv
    <3>2. /\ tokens' \in Seq(Mark) /\ Len(tokens') = Len(tokens) + 1
          /\ Len(tokens) \in Nat
          /\ \A i \in 1 .. Len(tokens) : tokens'[i] = tokens[i]
          /\ tokens'[Len(tokens) + 1] = m
      BY <2>2, <3>1, AppendProperties
    <3>3. \A i \in DOMAIN tokens' :
            \/ i \in DOMAIN tokens /\ tokens'[i] = tokens[i]
            \/ tokens'[i] = m
      BY <3>1, <3>2
    <3>4. ASSUME ~ Reported("newline in string")', NEW i \in DOMAIN tokens',
                 ~ AfterComment(tokens[i].at)'
          PROVE  tokens'[i].begin = Place(tokens[i].at)'
      <4>1. ~ Reported("newline in string")
        BY <1>2, <3>4
      <4>2. CASE i \in DOMAIN tokens /\ tokens'[i] = tokens[i]
        BY <1>2, <3>4, <4>1, <4>2
        DEF BInv, TokensAreInPlace, Place, LineEnds, AfterComment
      <4>3. CASE tokens'[i] = m
        BY <1>2, <2>2, <3>4, <4>1, <4>3 DEF Placed, Place, LineEnds, AfterComment
      <4> QED
        BY <3>3, <4>2, <4>3
    <3> QED
      BY <3>2, <3>4 DEF TokensAreInPlace
  <2>4. StringIsPlaced'
    <3>1. condition' # "STRING"
      BY <1>8 DEF Token, CloseString, In
    <3> QED
      BY <3>1 DEF StringIsPlaced
  <2> QED
    BY <1>1, <2>1, <2>3, <2>4 DEF BInv
<1>9. CASE EndOfFile \/ UNCHANGED vars
  <2>1. UNCHANGED <<read, condition, loc, string, tokens>>
    BY <1>9 DEF EndOfFile, vars
  <2>2. BeginIsTrue'
    BY <1>2, <2>1
    DEF BInv, BeginIsTrue, Placed, Place, LineEnds, AfterComment, Ahead
  <2> QED
    BY <1>1, <2>1, <2>2, OthersStay
<1> QED
  BY <1>3, <1>4, <1>5, <1>6, <1>7, <1>8, <1>9
  DEF Next, Initial, InString, InComment

LEMMA BeginsStart == Init => BInv
<1> SUFFICES ASSUME Init PROVE BInv
  OBVIOUS
<1>1. LInv
  BY ScanStart
<1>2. loc.begin = loc.end /\ tokens = <<>> /\ condition = "INITIAL"
  BY DEF Init
<1>3. BeginIsTrue
  BY <1>1, <1>2 DEF LInv, EndIsTrue, BeginIsTrue, Placed
<1> QED
  BY <1>1, <1>2, <1>3 DEF BInv, StringIsPlaced, TokensAreInPlace

(* A token is given the place where it begins, and a string that of its    *)
(* quote, unless a comment ends right before it.                           *)
THEOREM TokensCorrect == Spec => []TokensAreInPlace
<1>1. BInv => TokensAreInPlace
  BY DEF BInv
<1> QED
  BY <1>1, BeginsStart, BeginsStep, PTL DEF Spec

-----------------------------------------------------------------------------
(* Clean files.  Where the scanner is in one: between two pieces, in a     *)
(* string before a character that is not escaped, or in a comment and not  *)
(* in the middle of a mark.  The tokens returned are those that begin      *)
(* before the piece.                                                       *)
ReturnedUpTo(a) ==
  {tokens[i].at : i \in DOMAIN tokens} = {k \in TokensOf(source) : k <= a}

Calm == reports = <<>> /\ res = 0

AtCut ==
  /\ condition = "INITIAL" => read \in source.cuts /\ ReturnedUpTo(read)
  /\ ended => condition = "INITIAL" /\ read = Len(source.text)

WithinString(t, i, j, r) ==
  /\ t[i] = "quote" /\ t[j] = "quote" /\ r \in i .. j - 1
  /\ \E escapes \in SUBSET (i + 1 .. j - 2) :
       Escapes(t, i, j, escapes) /\ r \notin escapes

AtString ==
  condition = "STRING" =>
    \E j \in 1 .. Len(source.text) :
      /\ string.at \in 1 .. Len(source.text)
      /\ IsPiece(source, string.at, j) /\ ReturnedUpTo(string.at - 1)
      /\ WithinString(source.text, string.at, j, read)

WithinComment(t, i, j, r, n) ==
  /\ IsComment(t, i, j) /\ r \in i + 1 .. j - 2
  /\ ~ Opens(t, r) /\ ~ Closes(t, r)
  /\ n = Depth(t, i, r)

AtComment ==
  condition = "COMMENT" =>
    \E i, j \in 1 .. Len(source.text) :
      /\ IsPiece(source, i, j) /\ ReturnedUpTo(i - 1)
      /\ WithinComment(source.text, i, j, read, Len(starts))

ScannedClean == Calm /\ AtCut /\ AtString /\ AtComment

CInv == BInv /\ (Clean(source) => ScannedClean)

(* The piece that begins where the scanner is.                             *)
LEMMA NextPiece ==
  ASSUME Shape, Clean(source), read \in source.cuts, read < Len(source.text)
  PROVE  \E j \in read + 1 .. Len(source.text) :
           /\ IsPiece(source, read + 1, j)
           /\ \/ IsToken(source.text, read + 1, j)
              \/ IsGap(source.text, read + 1, j)
<1> DEFINE N == Len(source.text)
           T == {c \in source.cuts : c > read}
<1>1. /\ N \in Nat /\ read \in Nat /\ source.cuts \subseteq 0 .. N
      /\ 0 \in source.cuts /\ N \in source.cuts
  BY TextTyped, SourcesAssumption DEF Shape, Clean
<1>2. T \in SUBSET Nat /\ T # {}
  BY <1>1
<1>3. PICK j \in T : \A u \in T : j <= u
  <2> HIDE DEF T
  <2> QED
    BY <1>2, Least
<1>4. j \in source.cuts /\ j \in read + 1 .. N
  BY <1>1, <1>3
<1>5. \A c \in source.cuts : c < read + 1 \/ c >= j
  <2> SUFFICES ASSUME NEW c \in source.cuts, ~ (c < read + 1) PROVE c >= j
    OBVIOUS
  <2>1. c \in Nat /\ c > read
    BY <1>1
  <2>2. c \in T
    BY <2>1
  <2> QED
    BY <1>3, <1>4, <2>1, <2>2
<1>6. IsPiece(source, read + 1, j)
  <2>1. (read + 1) - 1 \in source.cuts /\ read + 1 <= j
    <3>1. (read + 1) - 1 = read
      BY <1>1
    <3> QED
      BY <1>4, <3>1
  <2> HIDE DEF T
  <2> QED
    BY <1>4, <1>5, <2>1 DEF IsPiece
<1>7. read + 1 \in 1 .. N /\ j \in 1 .. N
  BY <1>1, <1>4
<1> QED
  BY <1>4, <1>6, <1>7 DEF Clean

(* The tokens before the end of a piece are those before it, and the piece *)
(* if it is one.                                                           *)
LEMMA TokensUpTo ==
  ASSUME Shape, NEW i \in 1 .. Len(source.text), NEW j \in 1 .. Len(source.text),
         IsPiece(source, i, j)
  PROVE  {k \in TokensOf(source) : k <= j} =
           {k \in TokensOf(source) : k <= i - 1}
             \cup (IF IsToken(source.text, i, j) THEN {i} ELSE {})
<1> DEFINE N == Len(source.text)
<1>1. /\ N \in Nat /\ source.cuts \subseteq 0 .. N
      /\ i <= j /\ i - 1 \in source.cuts /\ j \in source.cuts
      /\ \A c \in source.cuts : c < i \/ c >= j
  BY TextTyped, SourcesAssumption DEF Shape, IsPiece
<1>2. ASSUME NEW k \in TokensOf(source), k <= j, ~ (k <= i - 1)
      PROVE  k = i /\ IsToken(source.text, i, j)
  <2>1. PICK l \in 1 .. N : IsPiece(source, k, l) /\ IsToken(source.text, k, l)
    BY <1>2 DEF TokensOf
  <2>2. k \in 1 .. N
    BY <1>2 DEF TokensOf
  <2>3. /\ k - 1 \in source.cuts /\ l \in source.cuts /\ k <= l
        /\ \A c \in source.cuts : c < k \/ c >= l
    BY <2>1 DEF IsPiece
  <2>4. k - 1 < i \/ k - 1 >= j
    BY <1>1, <2>3
  <2>5. k = i
    BY <1>1, <1>2, <2>2, <2>4
  <2>6. l >= j
    <3>1. l < i \/ l >= j
      BY <1>1, <2>3
    <3> QED
      BY <1>1, <2>2, <2>3, <2>5, <3>1
  <2>7. j >= l
    <3>1. j < k \/ j >= l
      BY <1>1, <2>3
    <3> QED
      BY <1>1, <2>2, <2>5, <3>1
  <2>8. l = j
    BY <2>6, <2>7
  <2> QED
    BY <2>1, <2>5, <2>8
<1>3. IsToken(source.text, i, j) => i \in TokensOf(source)
  BY DEF TokensOf
<1>4. \A k \in TokensOf(source) : k \in 1 .. N
  BY DEF TokensOf
<1>5. \A k \in TokensOf(source) : k <= i - 1 => k <= j
  BY <1>1, <1>4
<1> HIDE DEF N
<1> QED
  BY <1>1, <1>2, <1>3, <1>5

LEMMA GapPassed ==
  ASSUME Shape, NEW i \in 1 .. Len(source.text), NEW j \in 1 .. Len(source.text),
         IsPiece(source, i, j), ~ IsToken(source.text, i, j), ReturnedUpTo(i - 1),
         source' = source, tokens' = tokens
  PROVE  ReturnedUpTo(j)'
<1>1. {k \in TokensOf(source) : k <= j} = {k \in TokensOf(source) : k <= i - 1}
  BY TokensUpTo
<1> QED
  BY <1>1 DEF ReturnedUpTo

LEMMA TokenPassed ==
  ASSUME Shape, tokens \in Seq(Mark),
         NEW i \in 1 .. Len(source.text), NEW j \in 1 .. Len(source.text),
         IsPiece(source, i, j), IsToken(source.text, i, j), ReturnedUpTo(i - 1),
         NEW m \in Mark, m.at = i, source' = source, tokens' = Append(tokens, m)
  PROVE  ReturnedUpTo(j)'
<1>1. {k \in TokensOf(source) : k <= j} =
        {k \in TokensOf(source) : k <= i - 1} \cup {i}
  BY TokensUpTo
<1>2. {tokens[n].at : n \in DOMAIN tokens} = {k \in TokensOf(source) : k <= i - 1}
  BY DEF ReturnedUpTo
<1>3. /\ tokens' \in Seq(Mark) /\ Len(tokens') = Len(tokens) + 1
      /\ Len(tokens) \in Nat
      /\ \A n \in 1 .. Len(tokens) : tokens'[n] = tokens[n]
      /\ tokens'[Len(tokens) + 1] = m
  BY AppendProperties
<1>4. DOMAIN tokens = 1 .. Len(tokens) /\ DOMAIN tokens' = 1 .. Len(tokens) + 1
  BY <1>3
<1>5. {tokens'[n].at : n \in DOMAIN tokens'} =
        {tokens[n].at : n \in DOMAIN tokens} \cup {i}
  <2>1. \A n \in DOMAIN tokens' :
          (n \in DOMAIN tokens /\ tokens'[n] = tokens[n]) \/ tokens'[n] = m
    BY <1>3, <1>4
  <2>2. \A n \in DOMAIN tokens : n \in DOMAIN tokens' /\ tokens'[n] = tokens[n]
    BY <1>3, <1>4
  <2>3. Len(tokens) + 1 \in DOMAIN tokens' /\ tokens'[Len(tokens) + 1].at = i
    BY <1>3, <1>4
  <2> QED
    BY <2>1, <2>2, <2>3
<1> QED
  BY <1>1, <1>2, <1>5 DEF ReturnedUpTo

(* What is ahead, as the pieces speak of it.                               *)
LEMMA Looking ==
  ASSUME Shape
  PROVE  /\ read < Len(source.text) =>
              /\ Ahead(1) = source.text[read + 1] /\ Ahead(1) \in Char
              /\ \A c \in Char :
                   (Ahead(2) = c) <=> NextIs(source.text, read + 1, c)
         /\ ~ (read < Len(source.text)) => Ahead(1) = "eof"
<1>1. read \in Nat /\ Len(source.text) \in Nat
  BY TextTyped
<1>2. "eof" \notin Char
  BY DEF Char
<1>3. read + 2 = read + 1 + 1
  BY <1>1
<1>4. CASE read < Len(source.text)
  <2>1. read + 1 <= Len(source.text) /\ read + 1 \in 1 .. Len(source.text)
    BY <1>1, <1>4
  <2>2. Ahead(1) = source.text[read + 1] /\ Ahead(1) \in Char
    BY <2>1, TextTyped DEF Ahead
  <2>3. read + 2 <= Len(source.text) <=> read + 1 < Len(source.text)
    BY <1>1
  <2>4. ASSUME NEW c \in Char
        PROVE  Ahead(2) = c <=> NextIs(source.text, read + 1, c)
    <3>1. c # "eof"
      BY <1>2
    <3> QED
      BY <1>3, <2>3, <3>1 DEF Ahead, NextIs
  <2> QED
    BY <1>4, <2>2, <2>4
<1>5. CASE ~ (read < Len(source.text))
  <2>1. ~ (read + 1 <= Len(source.text))
    BY <1>1, <1>5
  <2> QED
    BY <1>5, <2>1 DEF Ahead
<1> QED
  BY <1>4, <1>5

(* A run of what a piece consists of goes to its end.                      *)
LEMMA RunIsPiece ==
  ASSUME Shape, NEW S, NEW j \in read + 1 .. Len(source.text),
         \A k \in read + 1 .. j : source.text[k] \in S,
         j = Len(source.text) \/ source.text[j + 1] \notin S
  PROVE  read + Run(S) = j
<1> DEFINE m == Run(S)
<1>1. /\ m \in Nat /\ read \in Nat /\ Len(source.text) \in Nat
      /\ read + m <= Len(source.text)
      /\ \A k \in 1 .. m : source.text[read + k] \in S
  BY TextTyped, RunTyped
<1>2. read + m + 1 <= Len(source.text) => source.text[read + m + 1] \notin S
  BY RunEnds
<1> HIDE DEF m
<1>3. ~ (read + m < j)
  <2> SUFFICES ASSUME read + m < j PROVE FALSE
    OBVIOUS
  <2>1. read + m + 1 \in read + 1 .. j /\ read + m + 1 <= Len(source.text)
    BY <1>1
  <2> QED
    BY <1>2, <2>1
<1>4. ~ (read + m > j)
  <2> SUFFICES ASSUME read + m > j PROVE FALSE
    OBVIOUS
  <2>1. j + 1 - read \in 1 .. m /\ read + (j + 1 - read) = j + 1
        /\ j # Len(source.text)
    BY <1>1
  <2>2. source.text[read + (j + 1 - read)] \in S
    BY <1>1, <2>1
  <2> QED
    BY <2>1, <2>2
<1>5. read + m = j
  BY <1>1, <1>3, <1>4
<1> QED
  BY <1>5 DEF m

(* The first character of a piece tells its kind.                          *)
LEMMA KindOfPiece ==
  ASSUME NEW t, Len(t) \in Nat, NEW i \in 1 .. Len(t), NEW j \in i .. Len(t),
         IsToken(t, i, j) \/ IsGap(t, i, j)
  PROVE  /\ t[i] \in Char \ {"#", "backslash"}
         /\ t[i] = "space" => IsRun(t, i, j, "space") /\ ~ IsToken(t, i, j)
         /\ t[i] = "newline" => IsRun(t, i, j, "newline") /\ ~ IsToken(t, i, j)
         /\ t[i] = "letter" => IsRun(t, i, j, "letter") /\ IsToken(t, i, j)
         /\ t[i] = "quote" => IsString(t, i, j) /\ IsToken(t, i, j)
         /\ t[i] \in {"mark", ")"} => i = j /\ IsToken(t, i, j)
         /\ t[i] = "(" => IF NextIs(t, i, "*")
                          THEN IsComment(t, i, j) /\ ~ IsToken(t, i, j)
                          ELSE i = j /\ IsToken(t, i, j)
         /\ t[i] = "*" => i = j /\ ~ NextIs(t, i, ")") /\ IsToken(t, i, j)
         /\ t[i] = "/" => IF NextIs(t, i, "/")
                          THEN IsLineComment(t, i, j) /\ ~ IsToken(t, i, j)
                          ELSE i = j /\ IsToken(t, i, j)
<1>1. i \in i .. j /\ i <= j /\ j <= Len(t) /\ i \in Nat /\ j \in Nat
  OBVIOUS
<1>2. \A c : IsRun(t, i, j, c) => t[i] = c
  BY <1>1 DEF IsRun
<1>3. IsSign(t, i, j) =>
        /\ i = j /\ t[i] \in {"mark", ")", "(", "*", "/"}
        /\ t[i] = "(" => ~ NextIs(t, i, "*")
        /\ t[i] = "*" => ~ NextIs(t, i, ")")
        /\ t[i] = "/" => ~ NextIs(t, i, "/")
  BY DEF IsSign
<1>4. IsString(t, i, j) => t[i] = "quote"
  BY DEF IsString
<1>5. IsComment(t, i, j) => t[i] = "(" /\ NextIs(t, i, "*")
  BY DEF IsComment, Opens
<1>6. IsLineComment(t, i, j) => t[i] = "/" /\ NextIs(t, i, "/")
  <2> SUFFICES ASSUME IsLineComment(t, i, j) PROVE t[i] = "/" /\ NextIs(t, i, "/")
    OBVIOUS
  <2>1. t[i] = "/" /\ i < j /\ t[i + 1] = "/"
    BY DEF IsLineComment
  <2>2. i < Len(t)
    BY <1>1, <2>1
  <2> QED
    BY <2>1, <2>2 DEF NextIs
<1>7. CASE IsRun(t, i, j, "letter")
  BY <1>2, <1>7 DEF IsToken, Char
<1>8. CASE IsSign(t, i, j)
  BY <1>3, <1>8 DEF IsToken, Char
<1>9. CASE IsString(t, i, j)
  BY <1>4, <1>9 DEF IsToken, Char
<1>10. CASE IsRun(t, i, j, "space")
  BY <1>2, <1>3, <1>4, <1>10 DEF IsToken, Char
<1>11. CASE IsRun(t, i, j, "newline")
  BY <1>2, <1>3, <1>4, <1>11 DEF IsToken, Char
<1>12. CASE IsLineComment(t, i, j)
  BY <1>2, <1>3, <1>4, <1>6, <1>12 DEF IsToken, Char
<1>13. CASE IsComment(t, i, j)
  BY <1>2, <1>3, <1>4, <1>5, <1>13 DEF IsToken, Char
<1> QED
  BY <1>7, <1>8, <1>9, <1>10, <1>11, <1>12, <1>13 DEF IsToken, IsGap

-----------------------------------------------------------------------------
(* How deep comments are nested, one character later.                      *)
LEMMA MarksTyped ==
  ASSUME NEW t, NEW i \in Nat \ {0}, NEW k \in Nat
  PROVE  /\ IsFiniteSet(Openings(t, i, k)) /\ IsFiniteSet(Closings(t, i, k))
         /\ Cardinality(Openings(t, i, k)) \in Nat
         /\ Cardinality(Closings(t, i, k)) \in Nat
<1>1. IsFiniteSet(i .. k)
  BY FS_Interval
<1>2. Openings(t, i, k) \subseteq i .. k /\ Closings(t, i, k) \subseteq i .. k
  BY DEF Openings, Closings
<1>3. IsFiniteSet(Openings(t, i, k)) /\ IsFiniteSet(Closings(t, i, k))
  BY <1>1, <1>2, FS_Subset
<1> QED
  BY <1>3, FS_CardinalityType

LEMMA DepthNext ==
  ASSUME NEW t, NEW i \in Nat \ {0}, NEW k \in Nat, k >= i - 1
  PROVE  /\ Depth(t, i, k) \in Int
         /\ Depth(t, i, k + 1) = Depth(t, i, k)
              + (IF Opens(t, k + 1) THEN 1 ELSE 0)
              - (IF Closes(t, k + 1) THEN 1 ELSE 0)
<1> DEFINE O == Openings(t, i, k)
           C == Closings(t, i, k)
<1>1. /\ IsFiniteSet(O) /\ Cardinality(O) \in Nat
      /\ IsFiniteSet(C) /\ Cardinality(C) \in Nat
  BY MarksTyped
<1>2. k + 1 \notin O /\ k + 1 \notin C
  BY DEF Openings, Closings
<1>3. i .. k + 1 = (i .. k) \cup {k + 1}
  OBVIOUS
<1>4. /\ Openings(t, i, k + 1) = IF Opens(t, k + 1) THEN O \cup {k + 1} ELSE O
      /\ Closings(t, i, k + 1) = IF Closes(t, k + 1) THEN C \cup {k + 1} ELSE C
  BY <1>3 DEF Openings, Closings
<1> HIDE DEF O, C
<1>5. /\ Cardinality(O \cup {k + 1}) = Cardinality(O) + 1
      /\ Cardinality(C \cup {k + 1}) = Cardinality(C) + 1
  BY <1>1, <1>2, FS_AddElement
<1>6. /\ Cardinality(Openings(t, i, k + 1)) =
           Cardinality(O) + (IF Opens(t, k + 1) THEN 1 ELSE 0)
      /\ Cardinality(Closings(t, i, k + 1)) =
           Cardinality(C) + (IF Closes(t, k + 1) THEN 1 ELSE 0)
  BY <1>1, <1>4, <1>5
<1>7. Depth(t, i, k) = Cardinality(O) - Cardinality(C)
  BY DEF Depth, O, C
<1> QED
  BY <1>1, <1>6, <1>7 DEF Depth

LEMMA DepthBefore ==
  ASSUME NEW t, NEW i \in Nat \ {0}
  PROVE  Depth(t, i, i - 1) = 0
<1>1. Openings(t, i, i - 1) = {} /\ Closings(t, i, i - 1) = {}
  BY DEF Openings, Closings
<1>2. Cardinality({}) = 0
  BY FS_EmptySet
<1> QED
  BY <1>1, <1>2 DEF Depth

(* Characters that are no marks leave it as it is.                         *)
LEMMA DepthOver ==
  ASSUME NEW t, NEW i \in Nat \ {0}, NEW k \in Nat, NEW l \in Nat, k <= l,
         \A n \in k + 1 .. l : ~ Opens(t, n) /\ ~ Closes(t, n)
  PROVE  Depth(t, i, l) = Depth(t, i, k)
<1>1. \A n \in i .. l : n \in i .. k \/ n \in k + 1 .. l
  OBVIOUS
<1>2. \A n \in i .. k : n \in i .. l
  OBVIOUS
<1>3. /\ Openings(t, i, l) = Openings(t, i, k)
      /\ Closings(t, i, l) = Closings(t, i, k)
  BY <1>1, <1>2 DEF Openings, Closings
<1> QED
  BY <1>3 DEF Depth

-----------------------------------------------------------------------------
(* On the way through a comment.                                           *)
LEMMA MarksAre ==
  ASSUME NEW t, NEW k
  PROVE  /\ Opens(t, k) => t[k] = "(" /\ t[k + 1] = "*" /\ k < Len(t)
         /\ Closes(t, k) => t[k] = "*" /\ t[k + 1] = ")" /\ k < Len(t)
         /\ t[k] # "(" => ~ Opens(t, k)
         /\ t[k] # "*" => ~ Closes(t, k)
  BY DEF Opens, Closes, NextIs

LEMMA CommentBegins ==
  ASSUME NEW t, Len(t) \in Nat, NEW i \in 1 .. Len(t), NEW j \in 1 .. Len(t),
         IsComment(t, i, j)
  PROVE  WithinComment(t, i, j, i + 1, 1)
<1>1. i < j /\ Opens(t, i) /\ Closes(t, j - 1) /\ Depth(t, i, j - 1) = 0
  BY DEF IsComment
<1>2. t[i] = "(" /\ t[i + 1] = "*" /\ t[j - 1] = "*"
  BY <1>1, MarksAre
<1>3. ~ Opens(t, i + 1)
  BY <1>2, MarksAre
<1>4. ~ Closes(t, i)
  BY <1>2, MarksAre
<1>5. ~ Closes(t, i + 1)
  <2>1. (i + 1) - 1 = i /\ i + 1 > 1
    OBVIOUS
  <2> QED
    BY <1>1, <2>1 DEF Closes
<1>6. Depth(t, i, i) = 1
  <2>1. Depth(t, i, i - 1) = 0
    BY DepthBefore
  <2>2. i - 1 \in Nat /\ (i - 1) + 1 = i /\ i \in Nat \ {0}
    OBVIOUS
  <2>3. Depth(t, i, (i - 1) + 1) = Depth(t, i, i - 1)
              + (IF Opens(t, (i - 1) + 1) THEN 1 ELSE 0)
              - (IF Closes(t, (i - 1) + 1) THEN 1 ELSE 0)
    BY <2>2, DepthNext
  <2> QED
    BY <1>1, <1>4, <2>1, <2>2, <2>3
<1>7. Depth(t, i, i + 1) = 1
  <2>1. Depth(t, i, i + 1) = Depth(t, i, i)
              + (IF Opens(t, i + 1) THEN 1 ELSE 0)
              - (IF Closes(t, i + 1) THEN 1 ELSE 0)
    BY DepthNext
  <2> QED
    BY <1>3, <1>5, <1>6, <2>1
<1>8. j - 1 # i /\ j - 1 # i + 1
  BY <1>1, <1>4, <1>5
<1>9. i + 1 \in i + 1 .. j - 2
  BY <1>1, <1>8
<1> QED
  BY <1>3, <1>5, <1>7, <1>9 DEF WithinComment

(* What holds in one.                                                      *)
LEMMA WithinIs ==
  ASSUME NEW t, Len(t) \in Nat, NEW i \in 1 .. Len(t), NEW j \in 1 .. Len(t),
         NEW r, NEW n, WithinComment(t, i, j, r, n)
  PROVE  /\ r \in Nat /\ i + 1 <= r /\ r <= j - 2 /\ i \in Nat \ {0} /\ j \in Nat
         /\ ~ Opens(t, r) /\ ~ Closes(t, r) /\ n = Depth(t, i, r)
         /\ Closes(t, j - 1) /\ t[j - 1] = "*"
         /\ Depth(t, i, j - 1) = 0
         /\ \A k \in i .. j - 2 : Depth(t, i, k) > 0
         /\ n \in Int /\ n > 0
<1>1. /\ r \in i + 1 .. j - 2 /\ ~ Opens(t, r) /\ ~ Closes(t, r)
      /\ n = Depth(t, i, r) /\ IsComment(t, i, j)
  BY DEF WithinComment
<1>2. r \in Nat /\ i + 1 <= r /\ r <= j - 2 /\ i \in Nat \ {0} /\ j \in Nat
  BY <1>1
<1>3. /\ Closes(t, j - 1) /\ Depth(t, i, j - 1) = 0
      /\ \A k \in i .. j - 2 : Depth(t, i, k) > 0
  BY <1>1 DEF IsComment
<1>4. t[j - 1] = "*"
  BY <1>3, MarksAre
<1>5. Depth(t, i, r) \in Int
  BY <1>2, DepthNext
<1>6. r \in i .. j - 2
  BY <1>2
<1> QED
  BY <1>1, <1>2, <1>3, <1>4, <1>5, <1>6

LEMMA CommentNests ==
  ASSUME NEW t, Len(t) \in Nat, NEW i \in 1 .. Len(t), NEW j \in 1 .. Len(t),
         NEW r, NEW n, WithinComment(t, i, j, r, n), Opens(t, r + 1)
  PROVE  WithinComment(t, i, j, r + 2, n + 1)
<1>1. /\ r \in Nat /\ i + 1 <= r /\ r <= j - 2 /\ i \in Nat \ {0} /\ j \in Nat
      /\ n = Depth(t, i, r) /\ n \in Int
      /\ Closes(t, j - 1) /\ t[j - 1] = "*"
  BY WithinIs
<1>2. t[r + 1] = "(" /\ t[(r + 1) + 1] = "*"
  BY MarksAre
<1>3. (r + 1) + 1 = r + 2 /\ (r + 2) - 1 = r + 1 /\ r + 2 > 1
  BY <1>1
<1>4. ~ Closes(t, r + 1)
  BY <1>2, MarksAre
<1>5. ~ Opens(t, r + 2)
  <2>1. t[r + 2] # "("
    BY <1>2, <1>3
  <2> QED
    BY <2>1, MarksAre
<1>6. ~ Closes(t, r + 2)
  BY <1>3 DEF Closes
<1>7. Depth(t, i, r + 1) = n + 1
  <2>1. Depth(t, i, r + 1) = Depth(t, i, r)
              + (IF Opens(t, r + 1) THEN 1 ELSE 0)
              - (IF Closes(t, r + 1) THEN 1 ELSE 0)
    <3>1. r \in Nat /\ r >= i - 1 /\ i \in Nat \ {0}
      BY <1>1
    <3> QED
      BY <3>1, DepthNext
  <2> QED
    BY <1>1, <1>4, <2>1
<1>8. Depth(t, i, r + 2) = n + 1
  <2>1. r + 1 \in Nat /\ r + 2 \in Nat /\ r + 1 <= r + 2
        /\ \A k \in (r + 1) + 1 .. r + 2 : k = r + 2
    BY <1>1
  <2>2. \A k \in (r + 1) + 1 .. r + 2 : ~ Opens(t, k) /\ ~ Closes(t, k)
    BY <1>5, <1>6, <2>1
  <2>3. Depth(t, i, r + 2) = Depth(t, i, r + 1)
    BY <1>1, <2>1, <2>2, DepthOver
  <2> QED
    BY <1>7, <2>3
<1>9. j - 1 # r + 1 /\ j - 1 # r + 2
  BY <1>1, <1>4, <1>6
<1>10. r + 2 \in i + 1 .. j - 2
  BY <1>1, <1>9
<1> QED
  BY <1>5, <1>6, <1>8, <1>10 DEF WithinComment

LEMMA CommentCloses ==
  ASSUME NEW t, Len(t) \in Nat, NEW i \in 1 .. Len(t), NEW j \in 1 .. Len(t),
         NEW r, NEW n, WithinComment(t, i, j, r, n),
         t[r + 1] = "*", NextIs(t, r + 1, ")")
  PROVE  IF n = 1 THEN r + 2 = j ELSE WithinComment(t, i, j, r + 2, n - 1)
<1>1. /\ r \in Nat /\ i + 1 <= r /\ r <= j - 2 /\ i \in Nat \ {0} /\ j \in Nat
      /\ n = Depth(t, i, r) /\ n \in Int /\ n > 0 /\ ~ Opens(t, r)
      /\ Closes(t, j - 1) /\ t[j - 1] = "*" /\ Depth(t, i, j - 1) = 0
      /\ \A k \in i .. j - 2 : Depth(t, i, k) > 0
  BY WithinIs
<1>2. (r + 1) + 1 = r + 2 /\ (r + 1) - 1 = r
  BY <1>1
<1>3. t[r + 2] = ")"
  BY <1>2 DEF NextIs
<1>4. Closes(t, r + 1)
  BY <1>1, <1>2 DEF Closes
<1>5. ~ Opens(t, r + 1) /\ ~ Opens(t, r + 2) /\ ~ Closes(t, r + 2)
  BY <1>3, MarksAre
<1>6. Depth(t, i, r + 1) = n - 1
  <2>1. Depth(t, i, r + 1) = Depth(t, i, r)
              + (IF Opens(t, r + 1) THEN 1 ELSE 0)
              - (IF Closes(t, r + 1) THEN 1 ELSE 0)
    BY <1>1, DepthNext
  <2> QED
    BY <1>1, <1>4, <1>5, <2>1
<1>7. CASE n = 1
  <2>1. ~ (r + 1 \in i .. j - 2)
    BY <1>1, <1>6, <1>7
  <2>2. r + 2 = j
    BY <1>1, <2>1
  <2> QED
    BY <1>7, <2>2
<1>8. CASE n # 1
  <2>1. j - 1 # r + 1
    BY <1>1, <1>6, <1>8
  <2>2. j - 1 # r + 2
    BY <1>1, <1>5
  <2>3. r + 2 \in i + 1 .. j - 2
    BY <1>1, <2>1, <2>2
  <2>4. r + 1 \in Nat /\ r + 2 \in Nat /\ r + 1 <= r + 2
        /\ \A k \in (r + 1) + 1 .. r + 2 : k = r + 2
    BY <1>1
  <2>5. \A k \in (r + 1) + 1 .. r + 2 : ~ Opens(t, k) /\ ~ Closes(t, k)
    BY <1>5, <2>4
  <2>6. Depth(t, i, r + 2) = n - 1
    <3>1. i \in Nat \ {0}
      OBVIOUS
    <3>2. Depth(t, i, r + 2) = Depth(t, i, r + 1)
      BY <2>4, <2>5, <3>1, DepthOver
    <3> QED
      BY <1>6, <3>2
  <2>7. IsComment(t, i, j)
    BY DEF WithinComment
  <2>8. WithinComment(t, i, j, r + 2, n - 1)
    BY <1>5, <2>3, <2>6, <2>7 DEF WithinComment
  <2> QED
    BY <1>8, <2>8
<1> QED
  BY <1>7, <1>8

LEMMA CommentGoesOn ==
  ASSUME NEW t, Len(t) \in Nat, NEW i \in 1 .. Len(t), NEW j \in 1 .. Len(t),
         NEW r, NEW n, WithinComment(t, i, j, r, n), NEW l \in Nat, r < l,
         \A k \in r + 1 .. l : ~ Opens(t, k) /\ ~ Closes(t, k)
  PROVE  WithinComment(t, i, j, l, n)
<1>1. /\ r \in Nat /\ i + 1 <= r /\ r <= j - 2 /\ i \in Nat \ {0} /\ j \in Nat
      /\ n = Depth(t, i, r) /\ Closes(t, j - 1)
  BY WithinIs
<1>2. ~ (j - 1 \in r + 1 .. l)
  BY <1>1
<1>3. l \in i + 1 .. j - 2
  BY <1>1, <1>2
<1>4. ~ Opens(t, l) /\ ~ Closes(t, l)
  <2>1. l \in r + 1 .. l
    BY <1>1
  <2> QED
    BY <2>1
<1>5. Depth(t, i, l) = n
  <2>1. r <= l
    BY <1>1
  <2> QED
    BY <1>1, <2>1, DepthOver
<1>6. IsComment(t, i, j)
  BY DEF WithinComment
<1> QED
  BY <1>3, <1>4, <1>5, <1>6 DEF WithinComment

-----------------------------------------------------------------------------
(* On the way through a string.                                            *)
LEMMA StringBegins ==
  ASSUME NEW t, NEW i \in Nat, NEW j \in Nat, IsString(t, i, j)
  PROVE  WithinString(t, i, j, i)
<1>1. /\ i < j /\ t[i] = "quote" /\ t[j] = "quote"
  BY DEF IsString
<1>2. PICK escapes \in SUBSET (i + 1 .. j - 2) : Escapes(t, i, j, escapes)
  BY DEF IsString
<1>3. i \notin escapes /\ i \in i .. j - 1
  BY <1>1
<1> QED
  BY <1>1, <1>2, <1>3 DEF WithinString

(* What the next character of one can be, and the one behind a backslash.  *)
LEMMA StringAhead ==
  ASSUME NEW t, NEW i \in Nat, NEW j \in Nat, NEW r, WithinString(t, i, j, r)
  PROVE  /\ r \in Nat /\ i <= r /\ r < j
         /\ t[r + 1] # "newline"
         /\ t[r + 1] = "quote" => r + 1 = j
         /\ r + 1 = j => t[r + 1] = "quote"
         /\ t[r + 1] = "backslash" =>
              r + 2 < j /\ t[r + 2] \in {"quote", "backslash", "newline"}
<1>1. /\ t[j] = "quote" /\ r \in i .. j - 1
  BY DEF WithinString
<1>2. PICK escapes \in SUBSET (i + 1 .. j - 2) :
        Escapes(t, i, j, escapes) /\ r \notin escapes
  BY DEF WithinString
<1>3. r \in Nat /\ i <= r /\ r < j /\ (r + 1) - 1 = r /\ (r + 2) - 1 = r + 1
  BY <1>1
<1>4. r + 1 # j => r + 1 \in i + 1 .. j - 1
  BY <1>3
<1>5. r + 1 # j => t[r + 1] \notin {"quote", "newline"}
  BY <1>2, <1>3, <1>4 DEF Escapes
<1>6. ASSUME t[r + 1] = "backslash"
      PROVE  r + 2 < j /\ t[r + 2] \in {"quote", "backslash", "newline"}
  <2>1. r + 1 # j
    BY <1>1, <1>6
  <2>2. r + 1 \in escapes
    BY <1>2, <1>3, <1>4, <1>6, <2>1 DEF Escapes
  <2>3. r + 1 \in i + 1 .. j - 2
    BY <2>2
  <2>4. r + 2 < j /\ r + 2 \in i + 1 .. j - 1
    BY <1>3, <2>3
  <2>5. t[r + 2] \in {"quote", "backslash", "newline"}
    BY <1>2, <1>3, <2>2, <2>4 DEF Escapes
  <2> QED
    BY <2>4, <2>5
<1> QED
  BY <1>1, <1>3, <1>5, <1>6

(* Text without quotes goes on to a character that is no backslash.        *)
LEMMA StringGoesOn ==
  ASSUME NEW t, NEW i \in Nat, NEW j \in Nat, NEW r, WithinString(t, i, j, r),
         NEW l \in Nat, r < l, \A k \in r + 1 .. l : k # j, t[l] # "backslash"
  PROVE  WithinString(t, i, j, l)
<1>1. t[i] = "quote" /\ t[j] = "quote" /\ r \in i .. j - 1
  BY DEF WithinString
<1>2. PICK escapes \in SUBSET (i + 1 .. j - 2) : Escapes(t, i, j, escapes)
  BY DEF WithinString
<1>3. l \in i .. j - 1 /\ l \in i + 1 .. j - 1
  <2>1. r \in Nat /\ i <= r /\ r < j
    BY <1>1
  <2>2. ~ (j \in r + 1 .. l)
    OBVIOUS
  <2> QED
    BY <2>1, <2>2
<1>4. l \notin escapes
  BY <1>2, <1>3 DEF Escapes
<1> QED
  BY <1>1, <1>2, <1>3, <1>4 DEF WithinString

(* What is escaped does not escape.                                        *)
LEMMA StringEscapes ==
  ASSUME NEW t, NEW i \in Nat, NEW j \in Nat, NEW r, WithinString(t, i, j, r),
         t[r + 1] = "backslash"
  PROVE  WithinString(t, i, j, r + 2)
<1>1. t[i] = "quote" /\ t[j] = "quote"
  BY DEF WithinString
<1>2. PICK escapes \in SUBSET (i + 1 .. j - 2) :
        Escapes(t, i, j, escapes) /\ r \notin escapes
  BY DEF WithinString
<1>3. r \in Nat /\ i <= r /\ r + 2 < j
  BY StringAhead
<1>4. /\ r + 1 \in i + 1 .. j - 1 /\ r + 2 \in i + 1 .. j - 1
      /\ (r + 1) - 1 = r /\ (r + 2) - 1 = r + 1 /\ r + 2 \in i .. j - 1
  BY <1>3
<1>5. r + 1 \in escapes
  BY <1>2, <1>4 DEF Escapes
<1>6. r + 2 \notin escapes
  BY <1>2, <1>4, <1>5 DEF Escapes
<1> QED
  BY <1>1, <1>2, <1>4, <1>6 DEF WithinString

-----------------------------------------------------------------------------
(* What the rules can cite in a clean file.                                *)
LEMMA CleanHere ==
  ASSUME CInv, Clean(source)
  PROVE  /\ LInv /\ Shape /\ tokens \in Seq(Mark)
         /\ read \in Nat /\ Len(source.text) \in Nat /\ read <= Len(source.text)
         /\ Calm /\ AtCut /\ AtString /\ AtComment
         /\ condition = "COMMENT" <=> starts # <<>>
<1>1. LInv /\ tokens \in Seq(Mark) /\ Calm /\ AtCut /\ AtString /\ AtComment
  BY DEF CInv, BInv, ScannedClean
<1>2. /\ Shape /\ read \in Nat /\ Len(source.text) \in Nat
      /\ read <= Len(source.text)
  BY <1>1, Here
<1>3. ~ Reported("unmatched comment")
  BY <1>1 DEF Calm, Reported
<1>4. condition = "COMMENT" <=> starts # <<>>
  BY <1>1, <1>3 DEF LInv, CommentsAreOpen
<1> QED
  BY <1>1, <1>2, <1>4

LEMMA RunOfPiece ==
  ASSUME Shape, NEW c, NEW j \in read + 1 .. Len(source.text),
         IsRun(source.text, read + 1, j, c)
  PROVE  read + Run({c}) = j
<1>1. \A k \in read + 1 .. j : source.text[k] \in {c}
  BY DEF IsRun
<1>2. j = Len(source.text) \/ source.text[j + 1] \notin {c}
  <2>1. ~ (j < Len(source.text) /\ source.text[j + 1] = c)
    BY DEF IsRun, NextIs
  <2>2. j \in Int /\ j <= Len(source.text) /\ Len(source.text) \in Nat
    BY TextTyped
  <2> QED
    BY <2>1, <2>2
<1> QED
  BY <1>1, <1>2, RunIsPiece

(* Behind a piece.                                                         *)
LEMMA PieceOver ==
  ASSUME Calm, NEW i, NEW j, IsPiece(source, i, j), source' = source,
         reports' = reports, res' = res, condition' = "INITIAL", read' = j,
         ReturnedUpTo(j)', ~ ended'
  PROVE  ScannedClean'
<1>1. Calm' /\ AtString' /\ AtComment'
  BY DEF Calm, AtString, AtComment
<1>2. j \in source.cuts
  BY DEF IsPiece
<1>3. ReturnedUpTo(read)'
  BY DEF ReturnedUpTo
<1>4. AtCut'
  BY <1>2, <1>3 DEF AtCut
<1> QED
  BY <1>1, <1>4 DEF ScannedClean

(* The rules of INITIAL, one piece or the begin of one.                    *)
LEMMA CleanInitial ==
  ASSUME CInv, Clean(source), Initial, source' = source
  PROVE  ScannedClean'
<1> DEFINE t == source.text
<1> USE CleanHere
<1>1. /\ condition = "INITIAL" /\ ~ ended
      /\ read \in source.cuts /\ ReturnedUpTo(read) /\ starts = <<>>
  <2>1. In("INITIAL")
    BY DEF Initial, Whitespace, Newlines, Token, LineComment, OpenString,
      OpenComment, NoToken, EndOfFile
  <2> QED
    BY <2>1 DEF In, AtCut
<1>2. CASE EndOfFile
  <2>1. read = Len(t)
    <3>1. "eof" \notin Char
      BY DEF Char
    <3>2. ~ (read < Len(t))
      BY <1>2, <3>1, Looking DEF EndOfFile
    <3> QED
      BY <3>2
  <2>2. Calm' /\ AtString' /\ AtComment'
    BY <1>1, <1>2 DEF EndOfFile, Calm, AtString, AtComment
  <2>3. AtCut'
    BY <1>1, <1>2, <2>1 DEF EndOfFile, AtCut, ReturnedUpTo
  <2> QED
    BY <2>2, <2>3 DEF ScannedClean
<1>3. SUFFICES ASSUME ~ EndOfFile PROVE ScannedClean'
  BY <1>2
<1>4. read < Len(t)
  <2>1. Ahead(1) # "eof"
    BY <1>3 DEF Initial, Whitespace, Newlines, Token, LineComment, OpenString,
      OpenComment, NoToken, AtOpening, AtClosing
  <2> QED
    BY <2>1, Looking
<1>0. PICK i \in Nat : i = read + 1
  OBVIOUS
<1> USE <1>0
<1>5. PICK j \in i .. Len(t) :
        IsPiece(source, i, j) /\ (IsToken(t, i, j) \/ IsGap(t, i, j))
  BY <1>1, <1>4, NextPiece
<1>6. /\ i \in 1 .. Len(t) /\ j \in 1 .. Len(t) /\ i - 1 = read
      /\ ReturnedUpTo(i - 1) /\ read + 1 = i /\ Shape
  <2>1. i - 1 = read
    BY <1>4
  <2> QED
    BY <1>1, <1>4, <1>5, <2>1
<1>7. /\ Ahead(1) = t[i]
      /\ \A c \in Char : Ahead(2) = c <=> NextIs(t, i, c)
  BY <1>4, Looking
<1>8. /\ t[i] \in Char \ {"#", "backslash"}
      /\ t[i] = "space" => IsRun(t, i, j, "space") /\ ~ IsToken(t, i, j)
      /\ t[i] = "newline" => IsRun(t, i, j, "newline") /\ ~ IsToken(t, i, j)
      /\ t[i] = "letter" => IsRun(t, i, j, "letter") /\ IsToken(t, i, j)
      /\ t[i] = "quote" => IsString(t, i, j) /\ IsToken(t, i, j)
      /\ t[i] \in {"mark", ")"} => i = j /\ IsToken(t, i, j)
      /\ t[i] = "(" => IF NextIs(t, i, "*")
                       THEN IsComment(t, i, j) /\ ~ IsToken(t, i, j)
                       ELSE i = j /\ IsToken(t, i, j)
      /\ t[i] = "*" => i = j /\ ~ NextIs(t, i, ")") /\ IsToken(t, i, j)
      /\ t[i] = "/" => IF NextIs(t, i, "/")
                       THEN IsLineComment(t, i, j) /\ ~ IsToken(t, i, j)
                       ELSE i = j /\ IsToken(t, i, j)
  BY <1>5, <1>6, KindOfPiece
<1> HIDE DEF t
<1>9. CASE Whitespace
  <2>1. read' = read + Run({"space"}) /\ condition' = "INITIAL" /\ ~ ended'
        /\ UNCHANGED <<tokens, reports, res>>
    BY <1>1, <1>9 DEF Whitespace, Consume, Go
  <2>2. IsRun(t, i, j, "space") /\ ~ IsToken(t, i, j)
    BY <1>7, <1>8, <1>9 DEF Whitespace
  <2>3. read' = j
    BY <1>5, <2>1, <2>2, RunOfPiece DEF t
  <2>4. ReturnedUpTo(j)'
    BY <1>5, <1>6, <2>1, <2>2, GapPassed DEF t
  <2> QED
    BY <1>5, <2>1, <2>3, <2>4, PieceOver
<1>10. CASE Newlines
  <2>1. read' = read + Run({"newline"}) /\ condition' = "INITIAL" /\ ~ ended'
        /\ UNCHANGED <<tokens, reports, res>>
    BY <1>1, <1>10 DEF Newlines, Consume, Go
  <2>2. IsRun(t, i, j, "newline") /\ ~ IsToken(t, i, j)
    BY <1>7, <1>8, <1>10 DEF Newlines
  <2>3. read' = j
    BY <1>5, <2>1, <2>2, RunOfPiece DEF t
  <2>4. ReturnedUpTo(j)'
    BY <1>5, <1>6, <2>1, <2>2, GapPassed DEF t
  <2> QED
    BY <1>5, <2>1, <2>3, <2>4, PieceOver
<1>11. CASE Token
  <2>1. /\ read' = read + (IF Ahead(1) = "letter" THEN Run({"letter"}) ELSE 1)
        /\ condition' = "INITIAL" /\ ~ ended'
        /\ UNCHANGED <<reports, res>>
        /\ tokens' = Append(tokens, [at |-> i, begin |-> loc.begin])
    BY <1>1, <1>11 DEF Token, Consume, Return
  <2>2. \/ t[i] \in {"letter", "mark", ")"}
        \/ t[i] = "(" /\ ~ NextIs(t, i, "*")
        \/ t[i] = "*"
        \/ t[i] = "/" /\ ~ NextIs(t, i, "/")
    BY <1>7, <1>11 DEF Token, AtOpening, Char
  <2>3. IsToken(t, i, j) /\ (t[i] = "letter" => IsRun(t, i, j, "letter"))
        /\ (t[i] # "letter" => i = j)
    BY <1>8, <2>2
  <2>4. read' = j
    <3>1. CASE t[i] = "letter"
      BY <1>5, <1>7, <2>1, <2>3, <3>1, RunOfPiece DEF t
    <3>2. CASE t[i] # "letter"
      BY <1>6, <1>7, <2>1, <2>3, <3>2
    <3> QED
      BY <3>1, <3>2
  <2>5. ReturnedUpTo(j)'
    <3>1. [at |-> i, begin |-> loc.begin] \in Mark
      BY Here
    <3> DEFINE m == [at |-> i, begin |-> loc.begin]
    <3>2. m.at = i /\ m \in Mark /\ tokens' = Append(tokens, m)
      BY <2>1, <3>1
    <3> HIDE DEF m
    <3> QED
      BY <1>5, <1>6, <2>3, <3>2, TokenPassed DEF t
  <2> QED
    BY <1>5, <2>1, <2>4, <2>5, PieceOver
<1>12. CASE LineComment
  <2>1. /\ read' = read + Run(Char \ {"newline"}) /\ condition' = "INITIAL"
        /\ ~ ended' /\ UNCHANGED <<tokens, reports, res>>
    BY <1>1, <1>12 DEF LineComment, Consume, Go
  <2>2. IsLineComment(t, i, j) /\ ~ IsToken(t, i, j)
    <3>1. t[i] = "/" /\ NextIs(t, i, "/")
      BY <1>7, <1>12 DEF LineComment, Char
    <3> QED
      BY <1>8, <3>1
  <2>3. read' = j
    <3>1. \A k \in i .. j : t[k] \in Char \ {"newline"}
      <4>1. \A k \in i .. j : k \in 1 .. Len(t)
        BY <1>5, <1>6
      <4>2. \A k \in 1 .. Len(t) : t[k] \in Char
        BY <1>6, TextTyped DEF t
      <4>3. \A k \in i .. j : t[k] # "newline"
        BY <2>2 DEF IsLineComment
      <4> QED
        BY <4>1, <4>2, <4>3
    <3>2. j = Len(t) \/ t[j + 1] \notin Char \ {"newline"}
      BY <2>2 DEF IsLineComment, NextIs
    <3>3. read + Run(Char \ {"newline"}) = j
      BY <1>5, <1>6, <3>1, <3>2, RunIsPiece DEF t
    <3> QED
      BY <2>1, <3>3
  <2>4. ReturnedUpTo(j)'
    BY <1>5, <1>6, <2>1, <2>2, GapPassed DEF t
  <2> QED
    BY <1>5, <2>1, <2>3, <2>4, PieceOver
<1>13. CASE OpenString
  <2>1. /\ read' = i /\ condition' = "STRING" /\ ~ ended'
        /\ UNCHANGED <<tokens, reports, res>>
        /\ string' = [at |-> i, begin |-> loc.begin] /\ t[i] = "quote"
    BY <1>1, <1>7, <1>13 DEF OpenString, Consume, Go
  <2>2. WithinString(t, i, j, i)
    <3>1. i \in Nat /\ j \in Nat /\ IsString(t, i, j)
      BY <1>6, <1>8, <2>1
    <3> QED
      BY <3>1, StringBegins
  <2>3. string'.at = i /\ source'.text = t /\ ReturnedUpTo(i - 1)'
    BY <1>6, <2>1 DEF ReturnedUpTo, t
  <2>4. AtString'
    BY <1>5, <1>6, <2>1, <2>2, <2>3 DEF AtString
  <2>5. Calm' /\ AtCut' /\ AtComment'
    BY <2>1 DEF Calm, AtCut, AtComment
  <2> QED
    BY <2>4, <2>5 DEF ScannedClean
<1>14. CASE OpenComment
  <2>1. /\ read' = read + 2 /\ condition' = "COMMENT" /\ ~ ended'
        /\ UNCHANGED <<tokens, reports, res>>
        /\ starts' = Append(starts, [at |-> i, begin |-> loc.begin])
    BY <1>1, <1>14 DEF OpenComment, Consume, Go
  <2>2. t[i] = "(" /\ NextIs(t, i, "*")
    BY <1>7, <1>14 DEF OpenComment, AtOpening, Char
  <2>3. WithinComment(t, i, j, i + 1, 1)
    BY <1>6, <1>8, <2>2, CommentBegins DEF t
  <2>4. Len(starts') = 1 /\ read' = i + 1
    <3>1. starts \in Seq(Mark) /\ [at |-> i, begin |-> loc.begin] \in Mark
      BY Here
    <3>2. Len(starts') = Len(starts) + 1
      BY <2>1, <3>1, AppendProperties
    <3>3. Len(starts) = 0
      BY <1>1, EmptySeq
    <3> QED
      BY <2>1, <3>2, <3>3
  <2>5. source'.text = t /\ ReturnedUpTo(i - 1)'
    BY <1>6, <2>1 DEF ReturnedUpTo, t
  <2>6. AtComment'
    <3>1. WithinComment(source'.text, i, j, read', Len(starts'))
      BY <2>3, <2>4, <2>5
    <3> QED
      BY <1>5, <1>6, <2>1, <2>5, <3>1 DEF AtComment
  <2>7. Calm' /\ AtCut' /\ AtString'
    BY <2>1 DEF Calm, AtCut, AtString
  <2> QED
    BY <2>6, <2>7 DEF ScannedClean
<1>15. CASE NoToken
  <2>1. \/ t[i] = "*" /\ NextIs(t, i, ")")
        \/ t[i] \in {"#", "backslash"}
    BY <1>7, <1>15 DEF NoToken, AtClosing, Char
  <2> QED
    BY <1>8, <2>1
<1> QED
  BY <1>3, <1>9, <1>10, <1>11, <1>12, <1>13, <1>14, <1>15 DEF Initial

LEMMA StringIsToken ==
  ASSUME NEW t, NEW i \in Nat, NEW j \in Nat, NEW r, WithinString(t, i, j, r)
  PROVE  IsToken(t, i, j)
<1>1. t[i] = "quote" /\ t[j] = "quote" /\ i < j
  <2>1. r \in i .. j - 1 /\ t[i] = "quote" /\ t[j] = "quote"
    BY DEF WithinString
  <2> QED
    BY <2>1
<1>2. PICK escapes \in SUBSET (i + 1 .. j - 2) : Escapes(t, i, j, escapes)
  BY DEF WithinString
<1> QED
  BY <1>1, <1>2 DEF IsToken, IsString

LEMMA StringStays ==
  ASSUME Calm, NEW i \in 1 .. Len(source.text), NEW j \in 1 .. Len(source.text),
         IsPiece(source, i, j), ReturnedUpTo(i - 1), string.at = i,
         source' = source, condition' = "STRING", ~ ended',
         UNCHANGED <<string, tokens, reports, res>>,
         NEW r, WithinString(source.text, i, j, r), read' = r
  PROVE  ScannedClean'
<1>1. Calm' /\ AtCut' /\ AtComment'
  BY DEF Calm, AtCut, AtComment
<1>2. ReturnedUpTo(i - 1)' /\ source'.text = source.text /\ string'.at = i
  BY DEF ReturnedUpTo
<1>3. AtString'
  BY <1>2 DEF AtString
<1> QED
  BY <1>1, <1>3 DEF ScannedClean

(* The rules of a string.                                                  *)
LEMMA CleanString ==
  ASSUME CInv, Clean(source), InString, source' = source
  PROVE  ScannedClean'
<1> DEFINE t == source.text
<1> USE CleanHere
<1>1. condition = "STRING" /\ ~ ended
  BY DEF InString, CloseString, BreakString, StringText, BadEscape,
    NewlineInString, LoneBackslash, EndInString, In
<1>2. PICK j \in 1 .. Len(t) :
        /\ string.at \in 1 .. Len(t)
        /\ IsPiece(source, string.at, j) /\ ReturnedUpTo(string.at - 1)
        /\ WithinString(t, string.at, j, read)
  BY <1>1 DEF AtString
<1>3. PICK i \in 1 .. Len(t) : i = string.at
  BY <1>2
<1>4. /\ IsPiece(source, i, j) /\ ReturnedUpTo(i - 1)
      /\ WithinString(t, i, j, read)
  BY <1>2, <1>3
<1>5. i \in Nat /\ j \in Nat /\ j <= Len(t)
  BY <1>3
<1>6. PICK r \in Nat : r = read
  OBVIOUS
<1>7. WithinString(t, i, j, r)
  BY <1>4, <1>6
<1>8. /\ i <= r /\ r < j /\ t[j] = "quote"
      /\ t[r + 1] # "newline"
      /\ t[r + 1] = "quote" => r + 1 = j
      /\ t[r + 1] = "backslash" =>
           r + 2 < j /\ t[r + 2] \in {"quote", "backslash", "newline"}
  <2>1. t[j] = "quote"
    BY <1>7 DEF WithinString
  <2> QED
    BY <1>5, <1>7, <2>1, StringAhead
<1>9. /\ Ahead(1) = t[r + 1] /\ Ahead(1) # "eof"
      /\ \A c \in Char : Ahead(2) = c <=> NextIs(t, r + 1, c)
  <2>1. read < Len(t) /\ "eof" \notin Char
    BY <1>5, <1>6, <1>8 DEF Char
  <2> QED
    BY <1>6, <2>1, Looking
<1>10. t[r + 1] = "backslash" => Ahead(2) = t[r + 2]
  <2> SUFFICES ASSUME t[r + 1] = "backslash" PROVE Ahead(2) = t[r + 2]
    OBVIOUS
  <2>1. (r + 1) + 1 = r + 2 /\ r + 1 < Len(t)
        /\ t[r + 2] \in {"quote", "backslash", "newline"}
    BY <1>5, <1>8
  <2>2. t[r + 2] \in Char /\ NextIs(t, r + 1, t[r + 2])
    BY <2>1 DEF Char, NextIs
  <2> QED
    BY <1>9, <2>2
<1> HIDE DEF t
<1>11. CASE CloseString
  <2>1. /\ read' = r + 1 /\ condition' = "INITIAL" /\ ~ ended'
        /\ UNCHANGED <<reports, res>> /\ tokens' = Append(tokens, string)
        /\ t[r + 1] = "quote"
    BY <1>1, <1>6, <1>9, <1>11 DEF CloseString, Consume, Return
  <2>2. read' = j
    BY <1>8, <2>1
  <2>3. IsToken(t, i, j)
    BY <1>5, <1>7, StringIsToken
  <2>4. PICK m \in Mark : m = string
    BY Here
  <2>5. ReturnedUpTo(j)'
    <3>1. m.at = i /\ tokens' = Append(tokens, m)
      BY <1>3, <2>1, <2>4
    <3> QED
      BY <1>4, <2>3, <3>1, TokenPassed DEF t
  <2> QED
    BY <1>4, <2>1, <2>2, <2>5, PieceOver
<1>12. CASE BreakString
  <2>1. /\ Ahead(2) = "newline" /\ t[r + 1] = "backslash"
        /\ condition' = "STRING" /\ string' = string /\ ~ ended'
        /\ UNCHANGED <<tokens, reports, res>>
    BY <1>1, <1>9, <1>12 DEF BreakString, Go
  <2>2. r + 2 < j /\ t[r + 2] = "newline"
    BY <1>8, <1>10, <2>1
  <2>3. PICK n \in Nat : /\ read' = r + n /\ n >= 2
                         /\ \A k \in 3 .. n : t[r + k] = "space"
    BY <1>6, <1>12, BreakIs DEF BreakString, Consume, t
  <2>4. r + n \in Nat /\ r < r + n
    BY <2>3
  <2>5. ASSUME NEW k \in r + 1 .. r + n PROVE k # j
    <3>1. CASE k <= r + 2
      BY <2>2, <3>1
    <3>2. CASE k > r + 2
      <4>1. k - r \in 3 .. n /\ r + (k - r) = k
        BY <2>3, <3>2
      <4>2. t[k] = "space"
        BY <2>3, <4>1
      <4> QED
        BY <1>8, <4>2
    <3> QED
      BY <3>1, <3>2
  <2>6. t[r + n] # "backslash"
    <3>1. CASE n = 2
      BY <2>2, <3>1
    <3>2. CASE n # 2
      <4>1. n \in 3 .. n
        BY <2>3, <3>2
      <4>2. t[r + n] = "space"
        BY <2>3, <4>1
      <4> QED
        BY <4>2
    <3> QED
      BY <3>1, <3>2
  <2>7. WithinString(t, i, j, r + n)
    BY <1>5, <1>7, <2>4, <2>5, <2>6, StringGoesOn
  <2> QED
    BY <1>3, <1>4, <2>1, <2>3, <2>7, StringStays DEF t
<1>13. CASE StringText
  <2>1. CASE /\ Ahead(1) \notin {"quote", "backslash", "newline", "eof"}
             /\ \E n \in {Run(Char \ {"quote", "backslash", "newline"})} :
                  Consume(n) /\ Go(Match(n))
    <3> DEFINE S == Char \ {"quote", "backslash", "newline"}
    <3>1. PICK n \in Nat : n = Run(S)
      BY RunTyped
    <3>2. n >= 1 /\ \A k \in 1 .. n : t[r + k] \in S
      <4>1. Ahead(1) \in S
        <5>1. r + 1 \in 1 .. Len(t)
          BY <1>5, <1>6, <1>8
        <5>2. t[r + 1] \in Char
          BY <5>1, TextTyped DEF t
        <5> QED
          BY <1>9, <2>1, <5>2
      <4> QED
        BY <1>6, <1>9, <3>1, <4>1, RunTyped DEF t
    <3>3. read' = r + n /\ UNCHANGED <<tokens, reports, res>>
      BY <1>6, <2>1, <3>1 DEF Consume, Go
    <3>4. condition' = "STRING" /\ string' = string /\ ~ ended'
      BY <1>1, <1>13, <2>1 DEF StringText, Go
    <3>5. WithinString(t, i, j, r + n)
      <4>1. r + n \in Nat /\ r < r + n /\ n \in 1 .. n
        BY <3>2
      <4>2. \A k \in r + 1 .. r + n : t[k] \in S
        <5>1. ASSUME NEW k \in r + 1 .. r + n PROVE t[k] \in S
          <6>1. k - r \in 1 .. n /\ r + (k - r) = k
            OBVIOUS
          <6> QED
            BY <3>2, <6>1
        <5> QED
          BY <5>1
      <4>3. \A k \in r + 1 .. r + n : k # j
        BY <1>8, <4>2
      <4>4. t[r + n] # "backslash"
        BY <3>2, <4>1
      <4> QED
        BY <1>5, <1>7, <4>1, <4>3, <4>4, StringGoesOn
    <3> QED
      BY <1>3, <1>4, <3>3, <3>4, <3>5, StringStays DEF t
  <2>2. CASE /\ Ahead(1) = "backslash" /\ Ahead(2) \in {"quote", "backslash"}
             /\ Consume(2) /\ Go(Match(2))
    <3>1. read' = r + 2 /\ UNCHANGED <<tokens, reports, res>>
          /\ t[r + 1] = "backslash"
      BY <1>6, <1>9, <2>2 DEF Consume, Go
    <3>2. condition' = "STRING" /\ string' = string /\ ~ ended'
      BY <1>1, <1>13, <2>2 DEF StringText, Go
    <3>3. WithinString(t, i, j, r + 2)
      BY <1>5, <1>7, <3>1, StringEscapes
    <3> QED
      BY <1>3, <1>4, <3>1, <3>2, <3>3, StringStays DEF t
  <2> QED
    BY <1>13, <2>1, <2>2 DEF StringText
<1>14. CASE BadEscape
  BY <1>8, <1>9, <1>10, <1>14 DEF BadEscape
<1>15. CASE NewlineInString
  BY <1>8, <1>9, <1>15 DEF NewlineInString
<1>16. CASE LoneBackslash
  BY <1>8, <1>9, <1>10, <1>16 DEF LoneBackslash
<1>17. CASE EndInString
  BY <1>9, <1>17 DEF EndInString
<1> QED
  BY <1>11, <1>12, <1>13, <1>14, <1>15, <1>16, <1>17 DEF InString

LEMMA CommentStays ==
  ASSUME Calm, NEW i \in 1 .. Len(source.text), NEW j \in 1 .. Len(source.text),
         IsPiece(source, i, j), ReturnedUpTo(i - 1),
         source' = source, condition' = "COMMENT", ~ ended',
         UNCHANGED <<tokens, reports, res>>,
         NEW r, NEW n, WithinComment(source.text, i, j, r, n),
         read' = r, Len(starts') = n
  PROVE  ScannedClean'
<1>1. Calm' /\ AtCut' /\ AtString'
  BY DEF Calm, AtCut, AtString
<1>2. ReturnedUpTo(i - 1)' /\ source'.text = source.text
  BY DEF ReturnedUpTo
<1>3. WithinComment(source'.text, i, j, read', Len(starts'))
  BY <1>2
<1>4. AtComment'
  BY <1>2, <1>3 DEF AtComment
<1> QED
  BY <1>1, <1>4 DEF ScannedClean

(* The rules of a comment.                                                 *)
LEMMA CleanComment ==
  ASSUME CInv, Clean(source), InComment, source' = source
  PROVE  ScannedClean'
<1> DEFINE t == source.text
<1> USE CleanHere
<1>1. condition = "COMMENT" /\ ~ ended
  BY DEF InComment, NestComment, CloseComment, CommentText, EndInComment, In
<1>2. PICK i \in 1 .. Len(t), j \in 1 .. Len(t) :
        /\ IsPiece(source, i, j) /\ ReturnedUpTo(i - 1)
        /\ WithinComment(t, i, j, read, Len(starts))
  BY <1>1 DEF AtComment
<1>3. PICK r \in Nat, n \in Nat : r = read /\ n = Len(starts)
  BY Here
<1>4. WithinComment(t, i, j, r, n) /\ Len(t) \in Nat
  BY <1>2, <1>3
<1>5. r <= j - 2 /\ i + 1 <= r /\ n > 0 /\ r < Len(t) /\ Closes(t, j - 1)
  <2>1. r <= j - 2 /\ i + 1 <= r /\ n > 0 /\ Closes(t, j - 1)
    BY <1>4, WithinIs
  <2> QED
    BY <2>1
<1>6. /\ Ahead(1) = t[r + 1] /\ Ahead(1) # "eof"
      /\ \A c \in Char : Ahead(2) = c <=> NextIs(t, r + 1, c)
  <2>1. read < Len(t) /\ "eof" \notin Char
    BY <1>3, <1>5 DEF Char
  <2> QED
    BY <1>3, <2>1, Looking
<1>7. /\ AtOpening <=> Opens(t, r + 1)
      /\ AtClosing <=> (t[r + 1] = "*" /\ NextIs(t, r + 1, ")"))
  BY <1>6 DEF AtOpening, AtClosing, Opens, Char
<1> HIDE DEF t
<1>8. CASE NestComment
  <2>1. /\ read' = r + 2 /\ condition' = "COMMENT" /\ ~ ended'
        /\ Opens(t, r + 1)
        /\ UNCHANGED <<tokens, reports, res>>
        /\ starts' = Append(starts, [at |-> read + 1, begin |-> loc.begin])
    BY <1>1, <1>3, <1>7, <1>8 DEF NestComment, Consume, Go
  <2>2. Len(starts') = n + 1
    <3>1. starts \in Seq(Mark) /\ [at |-> read + 1, begin |-> loc.begin] \in Mark
      BY Here
    <3> QED
      BY <1>3, <2>1, <3>1, AppendProperties
  <2>3. WithinComment(t, i, j, r + 2, n + 1)
    BY <1>4, <2>1, CommentNests DEF t
  <2> QED
    BY <1>2, <2>1, <2>2, <2>3, CommentStays DEF t
<1>9. CASE CloseComment
  <2>1. /\ read' = r + 2 /\ UNCHANGED <<tokens, reports, res>> /\ ~ ended'
        /\ starts' = SubSeq(starts, 1, n - 1)
        /\ condition' = IF n = 1 THEN "INITIAL" ELSE "COMMENT"
        /\ t[r + 1] = "*" /\ NextIs(t, r + 1, ")")
    BY <1>1, <1>3, <1>7, <1>9 DEF CloseComment, Consume, Go
  <2>2. IF n = 1 THEN r + 2 = j ELSE WithinComment(t, i, j, r + 2, n - 1)
    BY <1>4, <2>1, CommentCloses DEF t
  <2>3. CASE n = 1
    <3>1. ~ IsToken(t, i, j)
      <4>1. t[i] = "(" /\ NextIs(t, i, "*") /\ i < j
        BY <1>4 DEF WithinComment, IsComment, Opens
      <4>2. i \in i .. j
        BY <4>1
      <4> QED
        BY <4>1, <4>2 DEF IsToken, IsRun, IsSign, IsString
    <3>2. ReturnedUpTo(j)'
      BY <1>2, <2>1, <3>1, GapPassed DEF t
    <3>3. read' = j /\ condition' = "INITIAL"
      BY <2>1, <2>2, <2>3
    <3> QED
      BY <1>2, <2>1, <3>2, <3>3, PieceOver
  <2>4. CASE n # 1
    <3>1. WithinComment(t, i, j, r + 2, n - 1) /\ condition' = "COMMENT"
      BY <2>1, <2>2, <2>4
    <3>2. Len(starts') = n - 1
      <4>1. starts \in Seq(Mark) /\ n - 1 \in 0 .. Len(starts)
        <5>1. starts \in Seq(Mark)
          BY Here
        <5> QED
          BY <1>3, <1>5, <5>1
      <4> QED
        BY <2>1, <4>1, Prefix
    <3> QED
      BY <1>2, <2>1, <3>1, <3>2, CommentStays DEF t
  <2> QED
    BY <2>3, <2>4
<1>10. CASE CommentText
  <2>1. /\ condition' = "COMMENT" /\ starts' = starts /\ ~ ended'
        /\ UNCHANGED <<tokens, reports, res>>
        /\ ~ AtOpening /\ ~ AtClosing
    BY <1>1, <1>10 DEF CommentText, Go
  <2>2. PICK l \in Nat : /\ read' = l /\ r < l
                         /\ \A k \in r + 1 .. l : ~ Opens(t, k) /\ ~ Closes(t, k)
    <3>1. CASE Ahead(1) = "newline"
      <4>1. PICK m \in Nat : m = Run({"newline"})
        BY RunTyped
      <4>2. read' = r + m
        BY <1>3, <1>10, <3>1, <4>1 DEF CommentText, Consume
      <4>3. m >= 1 /\ \A k \in 1 .. m : t[r + k] = "newline"
        BY <1>3, <3>1, <4>1, RunTyped DEF t
      <4>4. ASSUME NEW k \in r + 1 .. r + m PROVE ~ Opens(t, k) /\ ~ Closes(t, k)
        <5>1. k - r \in 1 .. m /\ r + (k - r) = k
          OBVIOUS
        <5>2. t[k] = "newline"
          BY <4>3, <5>1
        <5> QED
          BY <5>2, MarksAre
      <4>5. r + m \in Nat /\ r < r + m
        BY <4>3
      <4> QED
        BY <4>2, <4>4, <4>5
    <3>2. CASE Ahead(1) # "newline"
      <4>1. read' = r + 1
        BY <1>3, <1>10, <3>2 DEF CommentText, Consume
      <4>2. ~ Opens(t, r + 1) /\ ~ Closes(t, r + 1)
        BY <1>7, <2>1 DEF Closes
      <4>3. r + 1 \in Nat /\ r < r + 1 /\ \A k \in r + 1 .. r + 1 : k = r + 1
        OBVIOUS
      <4> QED
        BY <4>1, <4>2, <4>3
    <3> QED
      BY <3>1, <3>2
  <2>3. WithinComment(t, i, j, l, n)
    BY <1>4, <2>2, CommentGoesOn DEF t
  <2>4. Len(starts') = n
    BY <1>3, <2>1
  <2> QED
    BY <1>2, <2>1, <2>2, <2>3, <2>4, CommentStays DEF t
<1>11. CASE EndInComment
  BY <1>6, <1>11 DEF EndInComment
<1> QED
  BY <1>8, <1>9, <1>10, <1>11 DEF InComment

LEMMA CleanStep == CInv /\ [Next]_vars => CInv'
<1> SUFFICES ASSUME CInv, [Next]_vars PROVE CInv'
  OBVIOUS
<1>1. BInv'
  BY BeginsStep DEF CInv
<1>2. source' = source
  BY NothingTakenBack DEF CInv, BInv
<1>3. ASSUME Clean(source) PROVE ScannedClean'
  <2>1. CASE UNCHANGED vars
    BY <1>3, <2>1
    DEF CInv, ScannedClean, Calm, AtCut, AtString, AtComment, ReturnedUpTo, vars
  <2>2. CASE Next
    BY <1>2, <1>3, <2>2, CleanInitial, CleanString, CleanComment DEF Next
  <2> QED
    BY <2>1, <2>2
<1> QED
  BY <1>1, <1>2, <1>3 DEF CInv

(* A file that is cut into tokens, comments and blanks as the language has *)
(* them is scanned without a report, and into those tokens.                *)
THEOREM CleanCorrect == Spec => []CleanIsScanned
<1>1. Init => CInv
  <2> SUFFICES ASSUME Init PROVE CInv
    OBVIOUS
  <2>1. BInv
    BY BeginsStart
  <2>2. ASSUME Clean(source) PROVE ScannedClean
    <3>1. /\ read = 0 /\ condition = "INITIAL" /\ tokens = <<>>
          /\ reports = <<>> /\ res = 0 /\ ended = FALSE
      BY DEF Init
    <3>2. 0 \in source.cuts
      BY <2>2 DEF Clean
    <3>3. {tokens[n].at : n \in DOMAIN tokens} = {}
      BY <3>1
    <3>4. {k \in TokensOf(source) : k <= 0} = {}
      BY DEF TokensOf
    <3> QED
      BY <3>1, <3>2, <3>3, <3>4
      DEF ScannedClean, Calm, AtCut, AtString, AtComment, ReturnedUpTo
  <2> QED
    BY <2>1, <2>2 DEF CInv
<1>2. CInv => CleanIsScanned
  <2> SUFFICES ASSUME CInv, Clean(source)
               PROVE  /\ ExitCode = 0
                      /\ ended => {tokens[i].at : i \in DOMAIN tokens}
                                    = TokensOf(source)
    BY DEF CleanIsScanned
  <2>1. Calm /\ AtCut
    BY DEF CInv, ScannedClean
  <2>2. ExitCode = 0
    BY <2>1 DEF Calm, ExitCode
  <2>3. {k \in TokensOf(source) : k <= Len(source.text)} = TokensOf(source)
    BY CleanHere DEF TokensOf
  <2>4. ended => {tokens[i].at : i \in DOMAIN tokens} = TokensOf(source)
    BY <2>1, <2>3 DEF AtCut, ReturnedUpTo
  <2> QED
    BY <2>2, <2>4
<1> QED
  BY <1>1, <1>2, CleanStep, PTL DEF Spec
=============================================================================

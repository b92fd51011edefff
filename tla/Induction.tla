------------------------------ MODULE Induction ------------------------------
(***************************************************************************)
(* Induction on the natural numbers, stated of a set of numbers, from the  *)
(* order of finite sets by inclusion; and what follows from it for lists,  *)
(* for loops over them, for ways up a hierarchy and for lists of members.  *)
(***************************************************************************)
EXTENDS Members, Integers, FiniteSets, FiniteSetTheorems, SequenceTheorems,
        WellFoundedInduction, TLAPS

(* The numbers below n, as sets, grow with n.                              *)
LEMMA BelowGrows ==
  ASSUME NEW m \in Nat, NEW n \in Nat, m < n
  PROVE  <<0 .. m - 1, 0 .. n - 1>> \in StrictSubsetOrdering(Nat)
<1>1. 0 .. m - 1 \in SUBSET Nat /\ 0 .. n - 1 \in SUBSET Nat
  OBVIOUS
<1>2. 0 .. m - 1 \subseteq 0 .. n - 1
  OBVIOUS
<1>3. m \in 0 .. n - 1 /\ m \notin 0 .. m - 1
  OBVIOUS
<1> QED
  BY <1>1, <1>2, <1>3 DEF StrictSubsetOrdering

(* A set that holds 0, and n + 1 whenever it holds n, holds every number.  *)
LEMMA Upwards ==
  ASSUME NEW S, 0 \in S, \A n \in Nat : n \in S => n + 1 \in S
  PROVE  Nat \subseteq S
<1> SUFFICES ASSUME Nat \ S # {} PROVE FALSE
  OBVIOUS
<1> DEFINE Segments == {0 .. n - 1 : n \in Nat \ S}
<1>1. Segments \subseteq FiniteSubsetsOf(Nat)
  <2>1. ASSUME NEW n \in Nat PROVE 0 .. n - 1 \in FiniteSubsetsOf(Nat)
    <3>1. IsFiniteSet(0 .. n - 1)
      BY FS_Interval
    <3> QED
      BY <3>1 DEF FiniteSubsetsOf
  <2> QED
    BY <2>1
<1>2. Segments # {}
  OBVIOUS
<1>3. \E X \in Segments : \A Y \in Segments :
        ~ (<<Y, X>> \in StrictSubsetOrdering(Nat))
  <2> HIDE DEF Segments
  <2> QED
    BY <1>1, <1>2, FS_StrictSubsetOrderingWellFounded, WFMin
<1>4. PICK n \in Nat \ S :
        \A m \in Nat \ S :
          ~ (<<0 .. m - 1, 0 .. n - 1>> \in StrictSubsetOrdering(Nat))
  BY <1>3
<1>5. n - 1 \in Nat /\ n - 1 < n /\ n - 1 + 1 = n
  BY <1>4
<1>6. n - 1 \in Nat \ S
  BY <1>4, <1>5
<1> QED
  BY <1>4, <1>5, <1>6, BelowGrows

(* A set of numbers with an upper bound has a greatest element.            *)
LEMMA Greatest ==
  ASSUME NEW T \in SUBSET Nat, NEW n \in Nat, T # {}, \A t \in T : t <= n
  PROVE  \E t \in T : \A u \in T : t >= u
<1> SUFFICES ASSUME \A t \in T : \E u \in T : u > t PROVE FALSE
  OBVIOUS
<1> DEFINE S == {k \in Nat : \E t \in T : t >= k}
<1>1. 0 \in S
  <2>1. PICK t : t \in T
    OBVIOUS
  <2>2. t \in Nat /\ t >= 0
    BY <2>1
  <2> QED
    BY <2>1, <2>2
<1>2. ASSUME NEW k \in Nat, k \in S PROVE k + 1 \in S
  <2>1. PICK t \in T : t >= k
    BY <1>2
  <2>2. PICK u \in T : u > t
    BY <2>1
  <2> QED
    BY <2>1, <2>2
<1>3. Nat \subseteq S
  <2> HIDE DEF S
  <2> QED
    BY <1>1, <1>2, Upwards
<1>4. n + 1 \in S
  <2> HIDE DEF S
  <2> QED
    BY <1>3
<1>5. PICK t \in T : t >= n + 1
  BY <1>4
<1> QED
  BY <1>5

(* A set of numbers that is not empty has a least element.                 *)
LEMMA Least ==
  ASSUME NEW T \in SUBSET Nat, T # {}
  PROVE  \E t \in T : \A u \in T : t <= u
<1> SUFFICES ASSUME \A t \in T : \E u \in T : u < t PROVE FALSE
  OBVIOUS
<1> DEFINE S == {k \in Nat : \A t \in T : k <= t}
<1>1. 0 \in S
  OBVIOUS
<1>2. ASSUME NEW k \in Nat, k \in S PROVE k + 1 \in S
  <2>1. SUFFICES ASSUME NEW t \in T PROVE k + 1 <= t
    OBVIOUS
  <2>2. PICK u \in T : u < t
    OBVIOUS
  <2> QED
    BY <1>2, <2>2
<1>3. Nat \subseteq S
  <2> HIDE DEF S
  <2> QED
    BY <1>1, <1>2, Upwards
<1>4. PICK t : t \in T
  OBVIOUS
<1>5. t + 1 \in S /\ t \in Nat
  <2> HIDE DEF S
  <2> QED
    BY <1>3, <1>4
<1> QED
  BY <1>4, <1>5

(* A set that holds the empty sequence, and a sequence with one element    *)
(* more whenever it holds the sequence, holds every sequence.              *)
LEMMA Lengthwise ==
  ASSUME NEW S, NEW T, <<>> \in T,
         \A s \in Seq(S) : \A e \in S : s \in T => Append(s, e) \in T
  PROVE  Seq(S) \subseteq T
<1> DEFINE L == {n \in Nat : \A s \in Seq(S) : Len(s) = n => s \in T}
<1>1. 0 \in L
  <2>1. \A s \in Seq(S) : Len(s) = 0 => s = <<>>
    BY EmptySeq
  <2> QED
    BY <2>1
<1>2. ASSUME NEW n \in Nat, n \in L PROVE n + 1 \in L
  <2>1. SUFFICES ASSUME NEW s \in Seq(S), Len(s) = n + 1 PROVE s \in T
    OBVIOUS
  <2>2. s # <<>>
    BY <2>1
  <2>3. PICK r \in Seq(S), e \in S : s = Append(r, e)
    BY <2>2, SequenceEmptyOrAppend
  <2>4. Len(r) = n
    BY <2>1, <2>3, AppendProperties, LenProperties
  <2>5. r \in T
    BY <1>2, <2>4
  <2> QED
    BY <2>3, <2>5
<1>3. Nat \subseteq L
  <2> HIDE DEF L
  <2> QED
    BY <1>1, <1>2, Upwards
<1> QED
  <2> SUFFICES ASSUME NEW s \in Seq(S) PROVE s \in T
    OBVIOUS
  <2>1. Len(s) \in Nat
    BY LenProperties
  <2> QED
    BY <1>3, <2>1

-----------------------------------------------------------------------------
(* Loops that carry a value along: a recursive function that depends on    *)
(* its value one below exists, and its equation holds.                     *)
Follows(g, base, step, n) == g[0] = base /\ \A k \in 1 .. n : g[k] = step[k][g[k - 1]]

LEMMA LoopExists ==
  ASSUME NEW n \in Nat, NEW V, NEW base \in V, NEW step \in [1 .. n -> [V -> V]]
  PROVE  \E g \in [0 .. n -> V] : Follows(g, base, step, n)
<1> USE DEF Follows
<1> DEFINE Good(g, m) == g[0] = base /\ \A k \in 1 .. m : g[k] = step[k][g[k - 1]]
           S == {m \in Nat : m <= n => \E g \in [0 .. m -> V] : Good(g, m)}
<1>1. 0 \in S
  <2>1. [k \in 0 .. 0 |-> base] \in [0 .. 0 -> V] /\ Good([k \in 0 .. 0 |-> base], 0)
    OBVIOUS
  <2> QED
    BY <2>1
<1>2. ASSUME NEW m \in Nat, m \in S PROVE m + 1 \in S
  <2>1. SUFFICES ASSUME m + 1 <= n PROVE \E h \in [0 .. m + 1 -> V] : Good(h, m + 1)
    OBVIOUS
  <2>2. PICK g \in [0 .. m -> V] : Good(g, m)
    BY <1>2, <2>1
  <2> DEFINE last == step[m + 1][g[m]]
             h == [k \in 0 .. m + 1 |-> IF k <= m THEN g[k] ELSE last]
  <2>3. last \in V
    BY <2>1, <2>2
  <2>4. ASSUME NEW k \in 1 .. m + 1 PROVE h[k] = step[k][h[k - 1]]
    <3>1. h[k - 1] = g[k - 1]
      OBVIOUS
    <3>2. CASE k <= m
      BY <2>2, <3>1, <3>2
    <3>3. CASE k = m + 1
      <4>1. h[k] = last /\ k - 1 = m
        BY <3>3
      <4> QED
        BY <3>1, <3>3, <4>1
    <3> QED
      BY <3>2, <3>3
  <2>5. h \in [0 .. m + 1 -> V] /\ h[0] = base
    <3> HIDE DEF last
    <3> QED
      BY <2>2, <2>3
  <2> HIDE DEF h
  <2> QED
    BY <2>4, <2>5
<1>3. Nat \subseteq S
  <2> HIDE DEF S
  <2> QED
    BY <1>1, <1>2, Upwards
<1> QED
  BY <1>3

(* And only one function satisfies it.                                     *)
Together(g, h, n) ==
  n \in Nat /\ g[0] = h[0] /\ \A k \in 1 .. n : g[k - 1] = h[k - 1] => g[k] = h[k]

LEMMA LoopIsOne ==
  ASSUME NEW n, NEW g, NEW h, Together(g, h, n)
  PROVE  \A k \in 0 .. n : g[k] = h[k]
<1> USE DEF Together
<1> DEFINE S == {k \in Nat : k <= n => g[k] = h[k]}
<1>1. 0 \in S
  OBVIOUS
<1>2. ASSUME NEW k \in Nat, k \in S PROVE k + 1 \in S
  <2>1. SUFFICES ASSUME k + 1 <= n PROVE g[k + 1] = h[k + 1]
    OBVIOUS
  <2>2. g[k] = h[k] /\ k + 1 \in 1 .. n /\ (k + 1) - 1 = k
    BY <1>2, <2>1
  <2> QED
    BY <2>2
<1>3. Nat \subseteq S
  <2> HIDE DEF S
  <2> QED
    BY <1>1, <1>2, Upwards
<1> QED
  BY <1>3

-----------------------------------------------------------------------------
(* A loop over a list: turn says what each element makes of the value.     *)
Loop(base, turn, s, n) ==
  LET at[k \in 0 .. n] == IF k = 0 THEN base ELSE turn[s[k]][at[k - 1]] IN at

IsLoop(base, turn, s, n, S, V) ==
  n \in Nat /\ base \in V /\ turn \in [S -> [V -> V]] /\ \A k \in 1 .. n : s[k] \in S

LEMMA LoopIs ==
  ASSUME NEW n, NEW S, NEW V, NEW base, NEW turn, NEW s, IsLoop(base, turn, s, n, S, V)
  PROVE  /\ Loop(base, turn, s, n) \in [0 .. n -> V]
         /\ Loop(base, turn, s, n)[0] = base
         /\ \A k \in 1 .. n :
              Loop(base, turn, s, n)[k] = turn[s[k]][Loop(base, turn, s, n)[k - 1]]
<1>0. n \in Nat /\ base \in V /\ turn \in [S -> [V -> V]] /\ \A k \in 1 .. n : s[k] \in S
  BY DEF IsLoop
<1> DEFINE step == [k \in 1 .. n |-> turn[s[k]]]
           Turn(g) == [k \in 0 .. n |-> IF k = 0 THEN base ELSE turn[s[k]][g[k - 1]]]
           at == CHOOSE g : g = Turn(g)
<1>1. step \in [1 .. n -> [V -> V]]
  BY <1>0
<1>2. \A k \in 1 .. n : step[k] = turn[s[k]]
  BY <1>0
<1> HIDE DEF step
<1>3. PICK g \in [0 .. n -> V] : g[0] = base /\ \A k \in 1 .. n : g[k] = step[k][g[k - 1]]
  <2>1. \E g \in [0 .. n -> V] : Follows(g, base, step, n)
    BY <1>0, <1>1, LoopExists
  <2> QED BY <2>1 DEF Follows
<1>4. g = Turn(g)
  BY <1>0, <1>2, <1>3
<1>5. at = Turn(at)
  <2> HIDE DEF Turn
  <2> QED BY <1>4
<1>6. Loop(base, turn, s, n) = at
  BY DEF Loop
<1>7. at[0] = base /\ \A k \in 1 .. n : at[k] = turn[s[k]][at[k - 1]]
  <2> HIDE DEF at
  <2>1. \A k \in 0 .. n : at[k] = IF k = 0 THEN base ELSE turn[s[k]][at[k - 1]]
    BY <1>5
  <2> QED BY <1>0, <2>1
<1>8. \A k \in 0 .. n : at[k] = g[k]
  <2> HIDE DEF at, Turn
  <2>1. at[0] = g[0]
    BY <1>3, <1>7
  <2>2. \A k \in 1 .. n : at[k - 1] = g[k - 1] => at[k] = g[k]
    BY <1>2, <1>3, <1>7
  <2>3. Together(at, g, n)
    BY <1>0, <2>1, <2>2 DEF Together
  <2> QED BY <2>3, LoopIsOne
<1>9. at \in [0 .. n -> V]
  <2> HIDE DEF at
  <2>1. at = [k \in 0 .. n |-> at[k]]
    BY <1>5
  <2>2. \A k \in 0 .. n : at[k] \in V
    BY <1>3, <1>8
  <2> QED BY <2>1, <2>2
<1> HIDE DEF at
<1> QED BY <1>6, <1>7, <1>9

(* A list that goes on the same way leads through the same values.         *)
GoesOn(t, s, n, S) == t[n + 1] \in S /\ \A k \in 1 .. n : t[k] = s[k]

LEMMA LoopGrows ==
  ASSUME NEW n, NEW S, NEW V, NEW base, NEW turn, NEW s, NEW t,
         IsLoop(base, turn, s, n, S, V), GoesOn(t, s, n, S)
  PROVE  Loop(base, turn, t, n + 1)[n + 1] = turn[t[n + 1]][Loop(base, turn, s, n)[n]]
<1> DEFINE g == Loop(base, turn, s, n)
           h == Loop(base, turn, t, n + 1)
<1>0. /\ n \in Nat /\ n + 1 \in Nat
      /\ t[n + 1] \in S /\ \A k \in 1 .. n : t[k] = s[k]
  BY DEF IsLoop, GoesOn
<1>1. g[0] = base /\ \A k \in 1 .. n : g[k] = turn[s[k]][g[k - 1]]
  BY LoopIs
<1>2. h[0] = base /\ \A k \in 1 .. n + 1 : h[k] = turn[t[k]][h[k - 1]]
  <2>1. \A k \in 1 .. n + 1 : k = n + 1 \/ k \in 1 .. n
    BY <1>0
  <2>2. \A k \in 1 .. n + 1 : t[k] \in S
    BY <1>0, <2>1 DEF IsLoop
  <2>3. IsLoop(base, turn, t, n + 1, S, V)
    BY <1>0, <2>2 DEF IsLoop
  <2> QED BY <2>3, LoopIs
<1> HIDE DEF g, h
<1>3. \A k \in 0 .. n : g[k] = h[k]
  <2>1. g[0] = h[0]
    BY <1>1, <1>2
  <2>2. \A k \in 1 .. n : g[k - 1] = h[k - 1] => g[k] = h[k]
    BY <1>0, <1>1, <1>2
  <2>3. Together(g, h, n)
    BY <1>0, <2>1, <2>2 DEF Together
  <2> QED BY <2>3, LoopIsOne
<1>4. h[n + 1] = turn[t[n + 1]][h[n]]
  <2>1. n + 1 \in 1 .. n + 1 /\ (n + 1) - 1 = n
    BY <1>0
  <2> QED BY <1>2, <2>1
<1>5. g[n] = h[n]
  BY <1>0, <1>3
<1> QED BY <1>4, <1>5 DEF g, h

-----------------------------------------------------------------------------
(* Ways up a hierarchy: D is a finite set with a root, up leads from each  *)
(* of its members to one of them, and no part of D without the root is     *)
(* closed under it.                                                        *)
Rooted(D, root, up) ==
  /\ IsFiniteSet(D) /\ root \in D /\ D \subseteq DOMAIN up
  /\ \A c \in DOMAIN up : up[c] \in DOMAIN up
  /\ \A c \in D : up[c] \in D
  /\ up[root] = root
  /\ \A S \in SUBSET (D \ {root}) : S # {} => \E c \in S : up[c] \notin S

Climb(up, c, n) ==
  LET at[k \in 0 .. n] == IF k = 0 THEN c ELSE up[at[k - 1]] IN at

Way(up, c, n) ==
  [k \in 1 .. Cardinality(Range(Climb(up, c, n))) |-> Climb(up, c, n)[k - 1]]

(* What holds of the root, and of a member if it holds of the one above it, *)
(* holds of all.                                                           *)
LEMMA Downward ==
  ASSUME NEW D, NEW root, NEW up, Rooted(D, root, up),
         NEW P, root \in P, \A c \in D \ {root} : up[c] \in P => c \in P
  PROVE  D \subseteq P
<1> SUFFICES ASSUME D \ P # {} PROVE FALSE
  OBVIOUS
<1>1. D \ P \in SUBSET (D \ {root})
  OBVIOUS
<1>2. PICK c \in D \ P : up[c] \notin D \ P
  BY <1>1 DEF Rooted
<1>3. up[c] \in P
  BY <1>2 DEF Rooted
<1> QED
  BY <1>2, <1>3

Climbs(g, up, c, n) ==
  g \in [0 .. n -> DOMAIN up] /\ g[0] = c /\ \A k \in 1 .. n : g[k] = up[g[k - 1]]

LEMMA ClimbIs ==
  ASSUME NEW up, \A c \in DOMAIN up : up[c] \in DOMAIN up,
         NEW c \in DOMAIN up, NEW n \in Nat
  PROVE  Climbs(Climb(up, c, n), up, c, n)
<1> DEFINE A == DOMAIN up
           step == [k \in 1 .. n |-> [v \in A |-> up[v]]]
           Turn(g) == [k \in 0 .. n |-> IF k = 0 THEN c ELSE up[g[k - 1]]]
           at == CHOOSE g : g = Turn(g)
<1>1. step \in [1 .. n -> [A -> A]]
  OBVIOUS
<1>2. \A k \in 1 .. n : \A v \in A : step[k][v] = up[v]
  OBVIOUS
<1>0. c \in A
  OBVIOUS
<1> HIDE DEF step, A
<1>3. PICK g \in [0 .. n -> A] :
        g[0] = c /\ \A k \in 1 .. n : g[k] = step[k][g[k - 1]]
  <2>1. \E g \in [0 .. n -> A] : Follows(g, c, step, n)
    BY <1>0, <1>1, LoopExists
  <2> QED BY <2>1 DEF Follows
<1>4. \A k \in 1 .. n : g[k - 1] \in A
  BY <1>3
<1>5. g = Turn(g)
  BY <1>2, <1>3, <1>4
<1>6. at = Turn(at)
  <2> HIDE DEF Turn
  <2> QED BY <1>5
<1>7. Climb(up, c, n) = at
  BY DEF Climb
<1>8. at[0] = c /\ \A k \in 1 .. n : at[k] = up[at[k - 1]]
  <2> HIDE DEF at
  <2>1. \A k \in 0 .. n : at[k] = IF k = 0 THEN c ELSE up[at[k - 1]]
    BY <1>6
  <2> QED BY <2>1
<1>9. \A k \in 0 .. n : at[k] = g[k]
  <2> HIDE DEF at, Turn
  <2>1. at[0] = g[0]
    BY <1>3, <1>8
  <2>2. \A k \in 1 .. n : at[k - 1] = g[k - 1] => at[k] = g[k]
    BY <1>2, <1>3, <1>4, <1>8
  <2>3. Together(at, g, n)
    BY <2>1, <2>2 DEF Together
  <2> QED BY <2>3, LoopIsOne
<1>10. at \in [0 .. n -> A]
  <2> HIDE DEF at
  <2>1. at = [k \in 0 .. n |-> at[k]]
    BY <1>6
  <2>2. \A k \in 0 .. n : at[k] \in A
    BY <1>3, <1>9
  <2> QED BY <2>1, <2>2
<1> HIDE DEF at
<1> QED BY <1>7, <1>8, <1>10 DEF A, Climbs

LEMMA RootedClimbs ==
  ASSUME NEW D, NEW root, NEW up, Rooted(D, root, up), NEW c \in D, NEW n \in Nat
  PROVE  Climbs(Climb(up, c, n), up, c, n)
<1>1. c \in DOMAIN up /\ \A a \in DOMAIN up : up[a] \in DOMAIN up
  BY DEF Rooted
<1> QED BY <1>1, ClimbIs

(* The way from the next one on is the same, one step shorter.             *)
LEMMA ClimbOn ==
  ASSUME NEW up, \A c \in DOMAIN up : up[c] \in DOMAIN up,
         NEW c \in DOMAIN up, NEW n \in Nat, NEW k \in 1 .. n
  PROVE  Climb(up, c, n)[k] = Climb(up, up[c], n)[k - 1]
<1> DEFINE g == Climb(up, c, n)
           h == Climb(up, up[c], n)
           S == {i \in Nat : i + 1 <= n => g[i + 1] = h[i]}
<1>1. /\ g[0] = c /\ \A i \in 1 .. n : g[i] = up[g[i - 1]]
      /\ h[0] = up[c] /\ \A i \in 1 .. n : h[i] = up[h[i - 1]]
  <2>1. up[c] \in DOMAIN up
    OBVIOUS
  <2>2. Climbs(g, up, c, n)
    BY ClimbIs
  <2>3. Climbs(h, up, up[c], n)
    BY <2>1, ClimbIs
  <2> HIDE DEF g, h
  <2> QED BY ONLY <2>2, <2>3, Zenon DEF Climbs
<1> HIDE DEF g, h
<1>2. 0 \in S
  <2>1. 0 + 1 <= n => g[0 + 1] = up[g[0]]
    BY <1>1
  <2> QED BY <1>1, <2>1
<1>3. ASSUME NEW i \in Nat, i \in S PROVE i + 1 \in S
  <2>1. SUFFICES ASSUME (i + 1) + 1 <= n PROVE g[(i + 1) + 1] = h[i + 1]
    OBVIOUS
  <2>2. g[i + 1] = h[i]
    BY <1>3, <2>1
  <2>3. g[(i + 1) + 1] = up[g[i + 1]] /\ h[i + 1] = up[h[i]]
    BY <1>1, <2>1
  <2> QED BY <2>2, <2>3
<1>4. Nat \subseteq S
  <2> HIDE DEF S
  <2> QED BY <1>2, <1>3, Upwards
<1>5. k - 1 \in Nat /\ (k - 1) + 1 = k /\ k <= n
  OBVIOUS
<1>6. k - 1 \in S
  <2> HIDE DEF S
  <2> QED BY <1>4, <1>5
<1> QED BY <1>5, <1>6 DEF g, h

(* What is above itself is where the way stays.                            *)
LEMMA ClimbStays ==
  ASSUME NEW up, \A c \in DOMAIN up : up[c] \in DOMAIN up,
         NEW c \in DOMAIN up, up[c] = c, NEW n \in Nat, NEW k \in 0 .. n
  PROVE  Climb(up, c, n)[k] = c
<1> DEFINE g == Climb(up, c, n)
           S == {i \in Nat : i <= n => g[i] = c}
<1>1. g[0] = c /\ \A i \in 1 .. n : g[i] = up[g[i - 1]]
  BY ClimbIs DEF Climbs
<1> HIDE DEF g
<1>2. 0 \in S
  BY <1>1
<1>3. ASSUME NEW i \in Nat, i \in S PROVE i + 1 \in S
  <2>1. SUFFICES ASSUME i + 1 <= n PROVE g[i + 1] = c
    OBVIOUS
  <2>2. g[i] = c /\ g[i + 1] = up[g[i]]
    BY <1>1, <1>3, <2>1
  <2> QED BY <2>2
<1>4. Nat \subseteq S
  <2> HIDE DEF S
  <2> QED BY <1>2, <1>3, Upwards
<1> QED BY <1>4 DEF g

LEMMA Distinct ==
  ASSUME NEW D, IsFiniteSet(D), NEW j \in Nat, NEW f \in [0 .. j -> D],
         \A i, l \in 0 .. j : f[i] = f[l] => i = l
  PROVE  j + 1 <= Cardinality(D) /\ Cardinality(Range(f)) = j + 1
<1>1. IsFiniteSet(0 .. j) /\ Cardinality(0 .. j) = j + 1
  <2>1. 0 \in Int /\ j \in Int
    OBVIOUS
  <2> QED BY <2>1, FS_Interval
<1>2. f \in Injection(0 .. j, D) /\ f \in Bijection(0 .. j, Range(f))
  <2>1. f \in Injection(0 .. j, D)
    BY DEF Injection, IsInjective
  <2>2. Range(f) = {f[i] : i \in 0 .. j}
    BY DEF Range
  <2>3. f \in [0 .. j -> Range(f)]
    BY <2>2
  <2>4. f \in Injection(0 .. j, Range(f))
    BY <2>3 DEF Injection, IsInjective
  <2>5. f \in Surjection(0 .. j, Range(f))
    BY <2>2, <2>3 DEF Surjection
  <2> QED BY <2>1, <2>4, <2>5 DEF Bijection
<1>3. Cardinality(0 .. j) <= Cardinality(D)
  BY <1>2, FS_Injection
<1>4. Cardinality(Range(f)) = Cardinality(0 .. j)
  BY <1>1, <1>2, FS_Bijection DEF ExistsBijection
<1> QED BY <1>1, <1>3, <1>4

(* A way gets to the root within as many steps as D has members, and no    *)
(* member is on it twice before.                                           *)
Arrives(up, c, n, root, j) ==
  /\ Climb(up, c, n)[j] = root
  /\ \A i, l \in 0 .. j : Climb(up, c, n)[i] = Climb(up, c, n)[l] => i = l

LEMMA ClimbInside ==
  ASSUME NEW D, NEW root, NEW up, Rooted(D, root, up), NEW c \in D, NEW n \in Nat,
         NEW k \in 0 .. n
  PROVE  Climb(up, c, n)[k] \in D
<1> DEFINE g == Climb(up, c, n)
           S == {i \in Nat : i <= n => g[i] \in D}
<1>1. g[0] = c /\ \A i \in 1 .. n : g[i] = up[g[i - 1]]
  <2>1. Climbs(g, up, c, n)
    BY RootedClimbs
  <2> HIDE DEF g
  <2> QED BY ONLY <2>1, Zenon DEF Climbs
<1> HIDE DEF g
<1>2. 0 \in S
  BY <1>1
<1>3. ASSUME NEW i \in Nat, i \in S PROVE i + 1 \in S
  <2>1. SUFFICES ASSUME i + 1 <= n PROVE g[i + 1] \in D
    OBVIOUS
  <2>2. g[i] \in D /\ g[i + 1] = up[g[i]]
    BY <1>1, <1>3, <2>1
  <2> QED BY <2>2 DEF Rooted
<1>4. Nat \subseteq S
  <2> HIDE DEF S
  <2> QED BY <1>2, <1>3, Upwards
<1> QED BY <1>4 DEF g

LEMMA ClimbEnds ==
  ASSUME NEW D, NEW root, NEW up, Rooted(D, root, up)
  PROVE  \A c \in D : \E j \in 0 .. Cardinality(D) - 1 :
           Arrives(up, c, Cardinality(D), root, j)
<1> DEFINE n == Cardinality(D)
           P == {c \in D : \E j \in 0 .. n - 1 : Arrives(up, c, n, root, j)}
<1>1. n \in Nat /\ n >= 1
  <2>1. Cardinality({root}) = 1 /\ {root} \in SUBSET D
    BY FS_Singleton DEF Rooted
  <2>2. Cardinality({root}) <= Cardinality(D)
    BY <2>1, FS_Subset DEF Rooted
  <2>3. n \in Nat
    BY FS_CardinalityType DEF Rooted
  <2> QED BY <2>1, <2>2, <2>3
<1> HIDE DEF n
<1>2. root \in P
  <2>1. Arrives(up, root, n, root, 0)
    <3>1. Climb(up, root, n)[0] = root
      <4>1. root \in D
        BY DEF Rooted
      <4> QED BY <1>1, <4>1, RootedClimbs DEF Climbs
    <3> QED BY <3>1 DEF Arrives
  <2> QED BY <1>1, <2>1 DEF Rooted
<1>3. ASSUME NEW c \in D \ {root}, up[c] \in P PROVE c \in P
  <2> DEFINE g == Climb(up, c, n)
             h == Climb(up, up[c], n)
  <2>1. PICK j \in 0 .. n - 1 : Arrives(up, up[c], n, root, j)
    BY <1>3
  <2>2. h[j] = root /\ \A i, l \in 0 .. j : h[i] = h[l] => i = l
    BY <2>1 DEF Arrives
  <2>3. /\ g[0] = c /\ \A k \in 1 .. n : g[k] = h[k - 1]
        /\ h[0] = up[c] /\ \A k \in 1 .. n : h[k] = up[h[k - 1]]
    <3>1. c \in DOMAIN up /\ up[c] \in D /\ \A a \in DOMAIN up : up[a] \in DOMAIN up
      BY DEF Rooted
    <3>2. \A k \in 1 .. n : g[k] = h[k - 1]
      BY <1>1, <3>1, ClimbOn
    <3>3. g[0] = c
      BY <1>1, <3>1, RootedClimbs DEF Climbs
    <3>4. h[0] = up[c] /\ \A k \in 1 .. n : h[k] = up[h[k - 1]]
      <4>1. Climbs(h, up, up[c], n)
        BY <1>1, <3>1, RootedClimbs
      <4> HIDE DEF h
      <4> QED BY ONLY <4>1, Zenon DEF Climbs
    <3> QED BY <3>2, <3>3, <3>4
  <2>4. \A k \in 0 .. n : g[k] \in D /\ h[k] \in D
    <3>1. up[c] \in D
      BY DEF Rooted
    <3> QED BY <1>1, <3>1, ClimbInside
  <2> HIDE DEF g, h
  <2>5. ASSUME NEW l \in 1 .. j + 1, g[l] = c PROVE FALSE
    <3>1. h[l - 1] = c /\ l - 1 \in 0 .. j
      BY <2>3, <2>5, <1>1
    <3>2. l - 1 # j
      BY <2>2, <3>1
    <3>3. l \in 0 .. j /\ l \in 1 .. n /\ 0 \in 0 .. j
      BY <3>1, <3>2, <1>1
    <3>4. h[l] = h[0]
      BY <2>3, <3>1, <3>3
    <3> QED BY <2>2, <3>3, <3>4
  <2>6. ASSUME NEW i \in 0 .. j + 1, NEW l \in 0 .. j + 1, g[i] = g[l] PROVE i = l
    <3>1. CASE i = 0 /\ l # 0
      <4>1. l \in 1 .. j + 1 /\ g[l] = c
        BY <2>3, <2>6, <3>1
      <4> QED BY <2>5, <4>1
    <3>2. CASE i # 0 /\ l = 0
      <4>1. i \in 1 .. j + 1 /\ g[i] = c
        BY <2>3, <2>6, <3>2
      <4> QED BY <2>5, <4>1
    <3>3. CASE i # 0 /\ l # 0
      <4>1. /\ i \in 1 .. n /\ l \in 1 .. n
            /\ i - 1 \in 0 .. j /\ l - 1 \in 0 .. j
        BY <3>3, <1>1
      <4>2. h[i - 1] = h[l - 1]
        BY <2>3, <2>6, <4>1
      <4>3. i - 1 = l - 1
        BY <2>2, <4>1, <4>2
      <4> QED BY <4>1, <4>3
    <3> QED BY <3>1, <3>2, <3>3
  <2>7. g[j + 1] = root
    <3>1. j + 1 \in 1 .. n /\ (j + 1) - 1 = j
      BY <1>1
    <3> QED BY <2>2, <2>3, <3>1
  <2>8. j + 1 <= n - 1
    <3> DEFINE f == [i \in 0 .. j + 1 |-> g[i]]
    <3>1. j + 1 \in Nat /\ f \in [0 .. j + 1 -> D]
      BY <2>4, <1>1
    <3>2. \A i, l \in 0 .. j + 1 : f[i] = f[l] => i = l
      BY <2>6
    <3> HIDE DEF f
    <3>3. (j + 1) + 1 <= Cardinality(D)
      BY <3>1, <3>2, Distinct DEF Rooted
    <3> QED BY <3>1, <3>3, <1>1 DEF n
  <2>9. Arrives(up, c, n, root, j + 1)
    BY <2>6, <2>7 DEF Arrives, g
  <2> QED BY <2>8, <2>9
<1>4. D \subseteq P
  <2> HIDE DEF P
  <2> QED BY <1>2, <1>3, Downward
<1> QED BY <1>4 DEF n

(* The way has one place for each step, up to the root.                    *)
LEMMA WayEnds ==
  ASSUME NEW D, NEW root, NEW up, Rooted(D, root, up), NEW c \in D
  PROVE  \E j \in 0 .. Cardinality(D) - 1 :
           /\ Arrives(up, c, Cardinality(D), root, j)
           /\ Cardinality(Range(Climb(up, c, Cardinality(D)))) = j + 1
<1> DEFINE n == Cardinality(D)
           g == Climb(up, c, n)
<1>1. n \in Nat
  BY FS_CardinalityType DEF Rooted
<1>2. PICK j \in 0 .. n - 1 : Arrives(up, c, n, root, j)
  BY ClimbEnds
<1>3. /\ g \in [0 .. n -> DOMAIN up]
      /\ \A i \in 1 .. n : g[i] = up[g[i - 1]]
  <2>1. Climbs(g, up, c, n)
    BY <1>1, RootedClimbs
  <2> HIDE DEF g
  <2> QED BY ONLY <2>1, Zenon DEF Climbs
<1>4. \A i \in 0 .. n : g[i] \in D
  BY <1>1, ClimbInside
<1>5. g[j] = root /\ \A i, l \in 0 .. j : g[i] = g[l] => i = l
  BY <1>2 DEF Arrives
<1> HIDE DEF n, g
<1> DEFINE f == [i \in 0 .. j |-> g[i]]
           S == {i \in Nat : j + i <= n => g[j + i] = root}
<1>6. Nat \subseteq S
  <2>1. 0 \in S
    BY <1>1, <1>2, <1>5
  <2>2. ASSUME NEW i \in Nat, i \in S PROVE i + 1 \in S
    <3>1. SUFFICES ASSUME j + (i + 1) <= n PROVE g[j + (i + 1)] = root
      OBVIOUS
    <3>2. g[j + i] = root
      BY <1>1, <1>2, <2>2, <3>1
    <3>3. j + (i + 1) \in 1 .. n /\ (j + (i + 1)) - 1 = j + i
      BY <1>1, <1>2, <3>1
    <3>4. g[j + (i + 1)] = up[g[j + i]]
      BY <1>3, <3>3
    <3> QED BY <3>2, <3>4 DEF Rooted
  <2> HIDE DEF S
  <2> QED BY <2>1, <2>2, Upwards
<1>7. Range(g) = Range(f)
  <2>1. \A i \in 0 .. n : \E l \in 0 .. j : g[i] = f[l]
    <3> TAKE i \in 0 .. n
    <3>1. CASE i <= j
      BY <1>2, <3>1
    <3>2. CASE i > j
      <4>1. i - j \in Nat /\ j + (i - j) = i
        BY <1>1, <1>2, <3>2
      <4>2. g[i] = root
        BY <1>1, <1>6, <4>1
      <4> QED BY <1>1, <1>2, <1>5, <4>2
    <3> QED BY <1>1, <1>2, <3>1, <3>2
  <2>2. \A l \in 0 .. j : l \in 0 .. n /\ f[l] = g[l]
    BY <1>1, <1>2
  <2>3. DOMAIN g = 0 .. n /\ DOMAIN f = 0 .. j
    BY <1>3
  <2> HIDE DEF f
  <2> QED BY <2>1, <2>2, <2>3, Zenon DEF Range
<1>8. Cardinality(Range(f)) = j + 1
  <2>1. j \in Nat /\ f \in [0 .. j -> D]
    BY <1>1, <1>2, <1>4
  <2>2. \A i, l \in 0 .. j : f[i] = f[l] => i = l
    BY <1>5
  <2> HIDE DEF f
  <2> QED BY <2>1, <2>2, Distinct DEF Rooted
<1> QED BY <1>2, <1>7, <1>8 DEF g, n

(* A way starts with the member, takes the step up to the next one, and    *)
(* has the root as its end.                                                *)
LEMMA WayIs ==
  ASSUME NEW D, NEW root, NEW up, Rooted(D, root, up), NEW c \in D
  PROVE  LET way == Way(up, c, Cardinality(D)) IN
         /\ way \in Seq(D) /\ Len(way) \in Nat \ {0}
         /\ way[1] = c /\ way[Len(way)] = root
         /\ \A i \in 2 .. Len(way) : way[i] = up[way[i - 1]]
         /\ \A i, l \in 1 .. Len(way) : way[i] = way[l] => i = l
<1> DEFINE n == Cardinality(D)
           g == Climb(up, c, n)
           way == Way(up, c, n)
<1>1. n \in Nat
  BY FS_CardinalityType DEF Rooted
<1>2. PICK j \in 0 .. n - 1 :
        Arrives(up, c, n, root, j) /\ Cardinality(Range(g)) = j + 1
  BY WayEnds
<1>3. g[0] = c /\ \A i \in 1 .. n : g[i] = up[g[i - 1]]
  <2>1. Climbs(g, up, c, n)
    BY <1>1, RootedClimbs
  <2> HIDE DEF g
  <2> QED BY ONLY <2>1, Zenon DEF Climbs
<1>4. \A i \in 0 .. n : g[i] \in D
  BY <1>1, ClimbInside
<1>5. g[j] = root /\ \A i, l \in 0 .. j : g[i] = g[l] => i = l
  BY <1>2 DEF Arrives
<1>6. way = [k \in 1 .. j + 1 |-> g[k - 1]]
  BY <1>2 DEF Way
<1> HIDE DEF n, g, way
<1>7. j + 1 \in Nat \ {0}
  BY <1>1, <1>2
<1>8. \A k \in 1 .. j + 1 : way[k] = g[k - 1] /\ k - 1 \in 0 .. j /\ k - 1 \in 0 .. n
  BY <1>1, <1>2, <1>6
<1>9. way \in Seq(D) /\ Len(way) = j + 1
  <2>1. way \in [1 .. j + 1 -> D]
    BY <1>4, <1>6, <1>8
  <2> QED BY <1>7, <2>1, SeqDef, LenProperties
<1>10. way[1] = c /\ way[j + 1] = root
  <2>1. 1 \in 1 .. j + 1 /\ j + 1 \in 1 .. j + 1 /\ 1 - 1 = 0 /\ (j + 1) - 1 = j
    BY <1>7
  <2> QED BY <1>3, <1>5, <1>8, <2>1
<1>11. \A i \in 2 .. j + 1 : way[i] = up[way[i - 1]]
  <2> TAKE i \in 2 .. j + 1
  <2>1. i \in 1 .. j + 1 /\ i - 1 \in 1 .. j + 1 /\ i - 1 \in 1 .. n
    BY <1>1, <1>2
  <2>2. way[i] = g[i - 1] /\ way[i - 1] = g[(i - 1) - 1] /\ g[i - 1] = up[g[(i - 1) - 1]]
    BY <1>3, <1>8, <2>1
  <2> QED BY <2>2
<1>12. ASSUME NEW i \in 1 .. j + 1, NEW l \in 1 .. j + 1, way[i] = way[l] PROVE i = l
  <2>1. i - 1 = l - 1
    BY <1>5, <1>8, <1>12
  <2> QED BY <2>1
<1> QED BY <1>7, <1>9, <1>10, <1>11, <1>12 DEF n, way

LEMMA WayOfRoot ==
  ASSUME NEW D, NEW root, NEW up, Rooted(D, root, up)
  PROVE  Way(up, root, Cardinality(D)) = <<root>>
<1> DEFINE way == Way(up, root, Cardinality(D))
<1>1. root \in D
  BY DEF Rooted
<1>2. /\ way \in Seq(D) /\ Len(way) \in Nat \ {0}
      /\ way[1] = root /\ way[Len(way)] = root
      /\ \A i, l \in 1 .. Len(way) : way[i] = way[l] => i = l
  BY <1>1, WayIs
<1> HIDE DEF way
<1>3. Len(way) = 1
  <2>1. 1 \in 1 .. Len(way) /\ Len(way) \in 1 .. Len(way)
    BY <1>2
  <2> QED BY <1>2, <2>1
<1>4. way = <<root>>
  BY <1>1, <1>2, <1>3, SeqEqual
<1> QED BY <1>4 DEF way

(* The way of a member is the member, then the way of the one above it,    *)
(* and it is not on that one.                                              *)
LEMMA WayOn ==
  ASSUME NEW D, NEW root, NEW up, Rooted(D, root, up), NEW c \in D \ {root}
  PROVE  /\ Way(up, c, Cardinality(D)) = <<c>> \o Way(up, up[c], Cardinality(D))
         /\ c \notin Range(Way(up, up[c], Cardinality(D)))
<1> DEFINE v == Way(up, c, Cardinality(D))
           w == Way(up, up[c], Cardinality(D))
<1>1. c \in D /\ up[c] \in D
  BY DEF Rooted
<1>2. /\ v \in Seq(D) /\ Len(v) \in Nat \ {0}
      /\ v[1] = c /\ v[Len(v)] = root
      /\ \A i \in 2 .. Len(v) : v[i] = up[v[i - 1]]
      /\ \A i, l \in 1 .. Len(v) : v[i] = v[l] => i = l
  BY <1>1, WayIs
<1>3. /\ w \in Seq(D) /\ Len(w) \in Nat \ {0}
      /\ w[1] = up[c] /\ w[Len(w)] = root
      /\ \A i \in 2 .. Len(w) : w[i] = up[w[i - 1]]
      /\ \A i, l \in 1 .. Len(w) : w[i] = w[l] => i = l
  BY <1>1, WayIs
<1> HIDE DEF v, w
<1>4. Len(v) > 1
  BY <1>2
<1> DEFINE S == {i \in Nat : i + 1 <= Len(v) - 1 /\ i + 1 <= Len(w)
                               => v[i + 2] = w[i + 1]}
<1>5. 0 \in S
  <2>1. v[2] = up[v[1]]
    <3>1. 2 \in 2 .. Len(v) /\ 2 - 1 = 1
      BY <1>2, <1>4
    <3> QED BY <1>2, <3>1
  <2> QED BY <1>2, <1>3, <2>1
<1>6. ASSUME NEW i \in Nat, i \in S PROVE i + 1 \in S
  <2>1. SUFFICES ASSUME (i + 1) + 1 <= Len(v) - 1, (i + 1) + 1 <= Len(w)
                 PROVE  v[(i + 1) + 2] = w[(i + 1) + 1]
    OBVIOUS
  <2>2. v[i + 2] = w[i + 1]
    BY <1>2, <1>3, <1>6, <2>1
  <2>3. v[(i + 1) + 2] = up[v[i + 2]]
    <3>1. (i + 1) + 2 \in 2 .. Len(v) /\ ((i + 1) + 2) - 1 = i + 2
      BY <1>2, <2>1
    <3> QED BY <1>2, <3>1
  <2>4. w[(i + 1) + 1] = up[w[i + 1]]
    <3>1. (i + 1) + 1 \in 2 .. Len(w) /\ ((i + 1) + 1) - 1 = i + 1
      BY <1>3, <2>1
    <3> QED BY <1>3, <3>1
  <2> QED BY <2>2, <2>3, <2>4
<1>7. \A k \in 1 .. Len(w) : k <= Len(v) - 1 => v[k + 1] = w[k]
  <2>1. Nat \subseteq S
    <3> HIDE DEF S
    <3> QED BY <1>5, <1>6, Upwards
  <2> TAKE k \in 1 .. Len(w)
  <2>2. k - 1 \in S /\ k - 1 \in Nat /\ (k - 1) + 1 = k /\ (k - 1) + 2 = k + 1
    <3> HIDE DEF S
    <3> QED BY <1>3, <2>1
  <2> QED BY <1>2, <1>3, <2>2
<1>8. Len(v) = Len(w) + 1
  <2>1. CASE Len(v) - 1 < Len(w)
    <3>1. Len(v) - 1 \in 1 .. Len(w) /\ (Len(v) - 1) + 1 = Len(v)
      BY <1>2, <1>3, <1>4, <2>1
    <3>2. w[Len(v) - 1] = root
      BY <1>2, <1>7, <3>1
    <3>3. Len(w) \in 1 .. Len(w)
      BY <1>3
    <3>4. Len(v) - 1 = Len(w)
      BY <1>3, <3>1, <3>2, <3>3
    <3> QED BY <1>2, <1>3, <2>1, <3>4
  <2>2. CASE Len(v) - 1 > Len(w)
    <3>1. Len(w) \in 1 .. Len(w) /\ Len(w) <= Len(v) - 1 /\ Len(w) + 1 \in 1 .. Len(v)
      BY <1>2, <1>3, <2>2
    <3>2. v[Len(w) + 1] = root
      BY <1>3, <1>7, <3>1
    <3> QED BY <1>2, <2>2, <3>1, <3>2
  <2> QED BY <1>2, <1>3, <2>1, <2>2
<1>9. v = <<c>> \o w
  <2>1. <<c>> \in Seq(D) /\ Len(<<c>>) = 1 /\ <<c>>[1] = c
    BY <1>1
  <2>2. /\ <<c>> \o w \in Seq(D) /\ Len(<<c>> \o w) = 1 + Len(w)
        /\ \A i \in 1 .. 1 + Len(w) :
             (<<c>> \o w)[i] = IF i <= 1 THEN <<c>>[i] ELSE w[i - 1]
    <3> DEFINE one == <<c>>
    <3>1. one \in Seq(D) /\ Len(one) = 1
      BY <2>1
    <3>0. w \in Seq(D)
      BY <1>3
    <3> HIDE DEF one
    <3>2. /\ one \o w \in Seq(D) /\ Len(one \o w) = Len(one) + Len(w)
          /\ \A i \in 1 .. Len(one) + Len(w) :
               (one \o w)[i] = IF i <= Len(one) THEN one[i] ELSE w[i - Len(one)]
      BY <3>0, <3>1, ConcatProperties
    <3>3. /\ one \o w \in Seq(D) /\ Len(one \o w) = 1 + Len(w)
          /\ \A i \in 1 .. 1 + Len(w) : (one \o w)[i] = IF i <= 1 THEN one[i] ELSE w[i - 1]
      BY <3>1, <3>2
    <3> QED BY <3>3 DEF one
  <2>3. ASSUME NEW i \in 1 .. Len(v) PROVE v[i] = (<<c>> \o w)[i]
    <3>1. i \in 1 .. 1 + Len(w)
      BY <1>3, <1>8
    <3>2. CASE i = 1
      BY <1>2, <2>1, <2>2, <3>1, <3>2
    <3>3. CASE i # 1
      <4>1. i - 1 \in 1 .. Len(w) /\ i - 1 <= Len(v) - 1 /\ (i - 1) + 1 = i /\ ~ (i <= 1)
        BY <1>2, <1>3, <1>8, <3>3
      <4> QED BY <1>7, <2>2, <3>1, <4>1
    <3> QED BY <3>2, <3>3
  <2>4. Len(v) = Len(<<c>> \o w)
    BY <1>3, <1>8, <2>2
  <2> QED BY <1>2, <2>2, <2>3, <2>4, SeqEqual
<1>10. c \notin Range(w)
  <2>1. ASSUME NEW k \in 1 .. Len(w), w[k] = c PROVE FALSE
    <3>1. v[k + 1] = c /\ k + 1 \in 1 .. Len(v) /\ 1 \in 1 .. Len(v) /\ k + 1 # 1
      BY <1>2, <1>3, <1>7, <1>8, <2>1
    <3> QED BY <1>2, <3>1
  <2>2. DOMAIN w = 1 .. Len(w)
    BY <1>3
  <2> QED BY <2>1, <2>2 DEF Range
<1> QED BY <1>9, <1>10 DEF v, w

-----------------------------------------------------------------------------
(* Lists of members of different names.                                    *)

(* A prefix of a sequence.                                                 *)
LEMMA Prefix ==
  ASSUME NEW S, NEW s \in Seq(S), NEW n \in 0 .. Len(s)
  PROVE  /\ SubSeq(s, 1, n) \in Seq(S)
         /\ Len(SubSeq(s, 1, n)) = n
         /\ \A i \in 1 .. n : SubSeq(s, 1, n)[i] = s[i]
<1>1. \A i \in 1 .. n : s[i] \in S
  BY ElementOfSeq
<1>2. SubSeq(s, 1, n) \in Seq(S)
  BY <1>1
<1>3. Len(SubSeq(s, 1, n)) = n
  OBVIOUS
<1>4. \A i \in 1 .. n : SubSeq(s, 1, n)[i] = s[i]
  OBVIOUS
<1> QED
  BY <1>2, <1>3, <1>4

(* What AddMembers, a loop over the members, makes of members of different *)
(* names: it keeps them all.                                               *)
LEMMA NoneIsLeftOut ==
  ASSUME NEW S, NEW members \in Seq(S), ~ Repeats(members)
  PROVE  AddMembers(members) = members
<1> DEFINE n == Len(members)
           Turn(g, k) == IF k = 0 THEN <<>> ELSE AddMember(g[k - 1], members[k])
           added == CHOOSE g : g = [k \in 0 .. n |-> Turn(g, k)]
           front == [k \in 0 .. n |-> SubSeq(members, 1, k)]
<1>1. n \in Nat /\ members = SubSeq(members, 1, n)
  OBVIOUS
<1>2. ASSUME NEW k \in 1 .. n
      PROVE  AddMember(SubSeq(members, 1, k - 1), members[k])
               = SubSeq(members, 1, k)
  <2> DEFINE before == SubSeq(members, 1, k - 1)
  <2>1. /\ k - 1 \in 0 .. n
        /\ before \in Seq(S) /\ Len(before) = k - 1
        /\ \A i \in 1 .. k - 1 : before[i] = members[i]
    BY Prefix
  <2>2. ~ HasMember(before, members[k].name)
    <3>1. DOMAIN before = 1 .. k - 1
      BY <2>1
    <3>2. DOMAIN members = 1 .. n
      OBVIOUS
    <3> QED
      BY <2>1, <3>1, <3>2 DEF HasMember, Repeats
  <2>3. Append(before, members[k]) = SubSeq(members, 1, k)
    <3>1. /\ SubSeq(members, 1, k) \in Seq(S) /\ Len(SubSeq(members, 1, k)) = k
          /\ \A i \in 1 .. k : SubSeq(members, 1, k)[i] = members[i]
      BY Prefix
    <3>2. members[k] \in S
      BY ElementOfSeq
    <3>3. /\ Append(before, members[k]) \in Seq(S)
          /\ Len(Append(before, members[k])) = k
          /\ \A i \in 1 .. k : Append(before, members[k])[i] = members[i]
      BY <2>1, <3>2
    <3> HIDE DEF before
    <3> QED
      BY <3>1, <3>3, SeqEqual
  <2> QED
    BY <2>2, <2>3 DEF AddMember
<1>3. front = [k \in 0 .. n |-> Turn(front, k)]
  <2>1. ASSUME NEW k \in 0 .. n PROVE front[k] = Turn(front, k)
    <3>1. CASE k = 0
      BY <3>1
    <3>2. CASE k # 0
      <4>1. k \in 1 .. n /\ k - 1 \in 0 .. n
        BY <3>2
      <4> QED
        BY <1>2, <3>2, <4>1
    <3> QED
      BY <3>1, <3>2
  <2> QED
    BY <2>1
<1>4. added = [k \in 0 .. n |-> Turn(added, k)]
  <2> HIDE DEF front, Turn
  <2> QED
    BY <1>3
<1>5. \A k \in 0 .. n : added[k] = SubSeq(members, 1, k)
  <2> DEFINE Right == {k \in Nat : k <= n => added[k] = SubSeq(members, 1, k)}
  <2>1. \A k \in 0 .. n : added[k] = Turn(added, k)
    BY <1>4
  <2> HIDE DEF added
  <2>2. 0 \in Right
    <3>1. SubSeq(members, 1, 0) = <<>> /\ 0 \in 0 .. n
      OBVIOUS
    <3> QED
      BY <2>1, <3>1
  <2>3. ASSUME NEW k \in Nat, k \in Right PROVE k + 1 \in Right
    <3>1. SUFFICES ASSUME k + 1 <= n
                   PROVE  added[k + 1] = SubSeq(members, 1, k + 1)
      OBVIOUS
    <3>2. added[k] = SubSeq(members, 1, k)
      BY <2>3, <3>1
    <3>3. added[k + 1] = AddMember(added[k], members[k + 1])
      BY <2>1, <3>1
    <3> QED
      BY <1>2, <3>1, <3>2, <3>3
  <2>4. Nat \subseteq Right
    <3> HIDE DEF Right
    <3> QED
      BY <2>2, <2>3, Upwards
  <2> QED
    BY <2>4
<1>6. AddMembers(members) = added[n]
  BY DEF AddMembers
<1> QED
  BY <1>1, <1>5, <1>6

(* Members of different names are found where they are, whichever way.     *)
LEMMA FoundOnce ==
  ASSUME NEW S, NEW members \in Seq(S), ~ Repeats(members),
         NEW k \in 1 .. Len(members)
  PROVE  /\ HasMember(members, members[k].name)
         /\ GetMember(members, members[k].name) = members[k]
<1> DEFINE n == members[k].name
           First(i) == /\ members[i].name = n
                       /\ \A j \in 1 .. i - 1 : members[j].name # n
<1>1. DOMAIN members = 1 .. Len(members) /\ Len(members) \in Nat
  OBVIOUS
<1>2. \A i \in DOMAIN members : members[i].name = n => i = k
  BY <1>1 DEF Repeats
<1>3. First(k)
  BY <1>1, <1>2
<1>4. (CHOOSE i \in DOMAIN members : First(i)) = k
  BY <1>1, <1>2, <1>3
<1>5. GetMember(members, n) = members[CHOOSE i \in DOMAIN members : First(i)]
  BY DEF GetMember
<1> HIDE DEF First
<1>6. GetMember(members, n) = members[k]
  BY <1>4, <1>5
<1> QED
  BY <1>1, <1>6 DEF HasMember

(* The place of the first member of a name.                                *)
LEMMA FirstNamedIs ==
  ASSUME NEW S, NEW members \in Seq(S), NEW n, HasMember(members, n)
  PROVE  /\ FirstNamed(members, n) \in DOMAIN members
         /\ members[FirstNamed(members, n)].name = n
         /\ \A j \in 1 .. FirstNamed(members, n) - 1 : members[j].name # n
<1> DEFINE T == {i \in DOMAIN members : members[i].name = n}
           Is(i) == members[i].name = n /\ \A j \in 1 .. i - 1 : members[j].name # n
<1>1. T \in SUBSET Nat /\ T # {} /\ DOMAIN members = 1 .. Len(members) /\ Len(members) \in Nat
  BY DEF HasMember
<1>2. PICK i \in T : \A u \in T : i <= u
  <2> HIDE DEF T
  <2> QED BY <1>1, Least
<1>3. i \in DOMAIN members /\ Is(i)
  BY <1>1, <1>2
<1>4. FirstNamed(members, n) = CHOOSE k \in DOMAIN members : Is(k)
  BY DEF FirstNamed
<1> QED BY <1>3, <1>4

LEMMA GetMemberIs ==
  ASSUME NEW S, NEW members \in Seq(S), NEW n, HasMember(members, n)
  PROVE  GetMember(members, n) \in S
<1>1. GetMember(members, n) = members[FirstNamed(members, n)]
  BY DEF GetMember, FirstNamed
<1>2. FirstNamed(members, n) \in DOMAIN members
  BY FirstNamedIs
<1> QED BY <1>1, <1>2
=============================================================================

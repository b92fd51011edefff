----------------------------- MODULE Hierarchies -----------------------------
(***************************************************************************)
(* The ways up a class table whose parents exist and never come back: what *)
(* ClassTable's operators on them give, for tables of any size.            *)
(***************************************************************************)
EXTENDS ClassTable, Induction

(* The first class on a way that is one of some.                           *)
LEMMA FirstOfIs ==
  ASSUME NEW S, NEW way \in Seq(S), NEW classes, NEW c \in Range(way), c \in classes
  PROVE  \E i \in DOMAIN way :
           /\ FirstOf(way, classes) = way[i] /\ way[i] \in classes
           /\ \A j \in 1 .. i - 1 : way[j] \notin classes
<1> DEFINE T == {i \in DOMAIN way : way[i] \in classes}
           Is(i) == way[i] \in classes /\ \A j \in 1 .. i - 1 : way[j] \notin classes
<1>1. T \in SUBSET Nat /\ T # {} /\ DOMAIN way = 1 .. Len(way) /\ Len(way) \in Nat
  BY DEF Range
<1>2. PICK i \in T : \A u \in T : i <= u
  <2> HIDE DEF T
  <2> QED BY <1>1, Least
<1>3. i \in DOMAIN way /\ Is(i)
  BY <1>1, <1>2
<1> DEFINE k == CHOOSE k \in DOMAIN way : Is(k)
<1>4. k \in DOMAIN way /\ Is(k)
  BY <1>3
<1>5. FirstOf(way, classes) = way[k]
  BY DEF FirstOf
<1> QED BY <1>4, <1>5

LEMMA FirstOfHead ==
  ASSUME NEW S, NEW way \in Seq(S), NEW classes, way # <<>>, way[1] \in classes
  PROVE  FirstOf(way, classes) = way[1]
<1>1. 1 \in DOMAIN way /\ DOMAIN way = 1 .. Len(way) /\ Len(way) \in Nat
  OBVIOUS
<1>2. way[1] \in Range(way)
  BY <1>1 DEF Range
<1>3. PICK i \in DOMAIN way :
        FirstOf(way, classes) = way[i] /\ \A j \in 1 .. i - 1 : way[j] \notin classes
  BY <1>2, FirstOfIs
<1>4. i = 1
  BY <1>1, <1>3
<1> QED BY <1>3, <1>4

LEMMA FirstOfRest ==
  ASSUME NEW S, NEW h \in S, NEW rest \in Seq(S), NEW classes, h \notin classes,
         NEW c \in Range(rest), c \in classes,
         \A i, l \in DOMAIN rest : rest[i] = rest[l] => i = l
  PROVE  FirstOf(<<h>> \o rest, classes) = FirstOf(rest, classes)
<1> DEFINE way == <<h>> \o rest
           n == Len(rest)
<1>1. /\ way \in Seq(S) /\ n \in Nat /\ DOMAIN rest = 1 .. n /\ DOMAIN way = 1 .. n + 1
      /\ way[1] = h /\ \A i \in 1 .. n : way[i + 1] = rest[i]
  OBVIOUS
<1> HIDE DEF way, n
<1>2. c \in Range(way)
  <2>1. PICK i \in 1 .. n : rest[i] = c
    BY <1>1 DEF Range
  <2>2. i + 1 \in DOMAIN way /\ way[i + 1] = c
    BY <1>1, <2>1
  <2> QED BY <2>2 DEF Range
<1>3. PICK i \in DOMAIN way :
        /\ FirstOf(way, classes) = way[i] /\ way[i] \in classes
        /\ \A j \in 1 .. i - 1 : way[j] \notin classes
  BY <1>1, <1>2, FirstOfIs
<1>4. PICK k \in DOMAIN rest :
        /\ FirstOf(rest, classes) = rest[k] /\ rest[k] \in classes
        /\ \A j \in 1 .. k - 1 : rest[j] \notin classes
  BY FirstOfIs
<1>5. i - 1 \in 1 .. n /\ (i - 1) + 1 = i /\ way[i] = rest[i - 1]
  <2>1. i # 1
    BY <1>1, <1>3
  <2>2. i - 1 \in 1 .. n /\ (i - 1) + 1 = i
    BY <1>1, <1>3, <2>1
  <2> QED BY <1>1, <2>2
<1>6. ~ (k < i - 1)
  <2>1. k \in 1 .. n /\ way[k + 1] = rest[k]
    BY <1>1, <1>4
  <2> QED BY <1>1, <1>3, <1>4, <2>1
<1>7. ~ (i - 1 < k)
  BY <1>1, <1>3, <1>4, <1>5
<1>8. i - 1 = k
  BY <1>1, <1>4, <1>5, <1>6, <1>7
<1> QED BY <1>3, <1>4, <1>5, <1>8 DEF way

-----------------------------------------------------------------------------
(* Every parent exists, and no chain of parents comes back.                *)
Lineage(tab) ==
  /\ IsFiniteSet(DOMAIN tab) /\ DOMAIN tab \subseteq ClassName /\ Object \in DOMAIN tab
  /\ \A c \in DOMAIN tab : tab[c].parent \in DOMAIN tab
  /\ \A S \in SUBSET (DOMAIN tab \ {Object}) : S # {} => \E c \in S : tab[c].parent \notin S

Onward(tab) ==
  [a \in ClassName |->
     IF a \in DOMAIN tab \ {Object} /\ tab[a].parent \in DOMAIN tab THEN tab[a].parent ELSE a]

LEMMA LineageIsRooted ==
  ASSUME NEW tab, Lineage(tab)
  PROVE  /\ Rooted(DOMAIN tab, Object, Onward(tab))
         /\ \A c \in DOMAIN tab \ {Object} : Onward(tab)[c] = tab[c].parent
<1> DEFINE D == DOMAIN tab
           up == Onward(tab)
<1>1. DOMAIN up = ClassName
  BY DEF Onward
<1>2. /\ D \subseteq ClassName /\ Object \in D /\ IsFiniteSet(D)
      /\ \A c \in D : tab[c].parent \in D
      /\ \A S \in SUBSET (D \ {Object}) : S # {} => \E c \in S : tab[c].parent \notin S
  BY DEF Lineage
<1>3. \A c \in D \ {Object} : up[c] = tab[c].parent
  BY <1>2 DEF Onward
<1>4. \A c \in ClassName : c \notin D \ {Object} => up[c] = c
  BY <1>2 DEF Onward
<1> HIDE DEF D, up
<1>5. \A c \in DOMAIN up : up[c] \in DOMAIN up
  BY <1>1, <1>2, <1>3, <1>4
<1>6. (\A c \in D : up[c] \in D) /\ up[Object] = Object
  BY <1>2, <1>3, <1>4
<1>7. \A S \in SUBSET (D \ {Object}) : S # {} => \E c \in S : up[c] \notin S
  BY <1>2, <1>3
<1>8. Rooted(D, Object, up)
  BY <1>1, <1>2, <1>5, <1>6, <1>7 DEF Rooted
<1> QED BY <1>3, <1>8 DEF D, up

LEMMA AncestryIsWay ==
  ASSUME NEW tab, NEW c
  PROVE  Ancestry(tab, c) = Way(Onward(tab), c, Cardinality(DOMAIN tab))
BY DEF Ancestry, Way, Climb, Onward

LEMMA AncestryOfObject ==
  ASSUME NEW tab, Lineage(tab)
  PROVE  Ancestry(tab, Object) = <<Object>>
BY LineageIsRooted, AncestryIsWay, WayOfRoot

LEMMA AncestryIs ==
  ASSUME NEW tab, Lineage(tab), NEW c \in DOMAIN tab
  PROVE  /\ Ancestry(tab, c) \in Seq(DOMAIN tab) /\ Len(Ancestry(tab, c)) \in Nat \ {0}
         /\ DOMAIN Ancestry(tab, c) = 1 .. Len(Ancestry(tab, c))
         /\ Ancestry(tab, c)[1] = c /\ Object \in Range(Ancestry(tab, c))
         /\ \A i, l \in DOMAIN Ancestry(tab, c) :
              Ancestry(tab, c)[i] = Ancestry(tab, c)[l] => i = l
<1> DEFINE way == Way(Onward(tab), c, Cardinality(DOMAIN tab))
<1>1. /\ way \in Seq(DOMAIN tab) /\ Len(way) \in Nat \ {0}
      /\ way[1] = c /\ way[Len(way)] = Object
      /\ \A i, l \in 1 .. Len(way) : way[i] = way[l] => i = l
  BY LineageIsRooted, WayIs
<1>2. Ancestry(tab, c) = way
  BY AncestryIsWay
<1> HIDE DEF way
<1>3. DOMAIN way = 1 .. Len(way) /\ Len(way) \in DOMAIN way
  BY <1>1
<1> QED BY <1>1, <1>2, <1>3 DEF Range

LEMMA AncestryOfClass ==
  ASSUME NEW tab, Lineage(tab), NEW c \in DOMAIN tab \ {Object}
  PROVE  /\ tab[c].parent \in DOMAIN tab
         /\ Ancestry(tab, c) = <<c>> \o Ancestry(tab, tab[c].parent)
         /\ Tail(Ancestry(tab, c)) = Ancestry(tab, tab[c].parent)
         /\ c \notin Range(Ancestry(tab, tab[c].parent))
         /\ Range(Ancestry(tab, c)) = {c} \cup Range(Ancestry(tab, tab[c].parent))
<1> DEFINE p == tab[c].parent
           rest == Ancestry(tab, p)
<1>1. p \in DOMAIN tab
  BY DEF Lineage
<1>2. /\ Ancestry(tab, c) = <<c>> \o rest
      /\ c \notin Range(rest)
  <2>1. /\ Way(Onward(tab), c, Cardinality(DOMAIN tab))
             = <<c>> \o Way(Onward(tab), Onward(tab)[c], Cardinality(DOMAIN tab))
        /\ c \notin Range(Way(Onward(tab), Onward(tab)[c], Cardinality(DOMAIN tab)))
    BY LineageIsRooted, WayOn
  <2>2. Onward(tab)[c] = p
    BY LineageIsRooted
  <2> QED BY <2>1, <2>2, AncestryIsWay
<1>3. rest \in Seq(DOMAIN tab)
  BY <1>1, AncestryIs
<1> HIDE DEF p, rest
<1>4. Tail(<<c>> \o rest) = rest
  BY <1>3
<1>5. Range(<<c>> \o rest) = {c} \cup Range(rest)
  <2> DEFINE way == <<c>> \o rest
             n == Len(rest)
  <2>1. /\ n \in Nat /\ DOMAIN rest = 1 .. n /\ DOMAIN way = 1 .. n + 1
        /\ way[1] = c /\ \A i \in 1 .. n : way[i + 1] = rest[i]
    BY <1>3
  <2> HIDE DEF way, n
  <2>2. \A i \in 1 .. n + 1 : i = 1 \/ (i - 1 \in 1 .. n /\ (i - 1) + 1 = i)
    BY <2>1
  <2>3. \A i \in 1 .. n : i + 1 \in 1 .. n + 1 /\ 1 \in 1 .. n + 1
    BY <2>1
  <2>4. 1 \in 1 .. n + 1
    BY <2>1
  <2>5. \A x : x \in Range(way) => x \in {c} \cup Range(rest)
    <3> TAKE x
    <3> HAVE x \in Range(way)
    <3>1. PICK i \in 1 .. n + 1 : way[i] = x
      BY <2>1 DEF Range
    <3>2. CASE i = 1
      BY <2>1, <3>1, <3>2
    <3>3. CASE i - 1 \in 1 .. n /\ (i - 1) + 1 = i
      <4>1. rest[i - 1] = x
        BY <2>1, <3>1, <3>3
      <4> QED BY <2>1, <3>3, <4>1 DEF Range
    <3> QED BY <2>2, <3>2, <3>3
  <2>6. \A x : x \in {c} \cup Range(rest) => x \in Range(way)
    BY <2>1, <2>3, <2>4 DEF Range
  <2>7. Range(way) = {c} \cup Range(rest)
    BY <2>5, <2>6
  <2> QED BY <2>7 DEF way
<1> QED BY <1>1, <1>2, <1>4, <1>5 DEF p, rest

(* What holds of Object, and of a class if it holds of its parent, holds   *)
(* of every class.                                                         *)
LEMMA ByParent ==
  ASSUME NEW tab, Lineage(tab), NEW P, Object \in P,
         \A c \in DOMAIN tab \ {Object} : tab[c].parent \in P => c \in P
  PROVE  DOMAIN tab \subseteq P
<1>1. /\ Rooted(DOMAIN tab, Object, Onward(tab))
      /\ \A c \in DOMAIN tab \ {Object} : Onward(tab)[c] = tab[c].parent
  BY LineageIsRooted
<1> QED BY <1>1, Downward

(* The ways to Object, and the methods declared on them.                   *)
LEMMA ObjectIsAlone ==
  ASSUME NEW tab, Lineage(tab)
  PROVE  Range(Ancestry(tab, Object)) = {Object} /\ Object \in DOMAIN tab
<1>1. Range(Ancestry(tab, Object)) = {Object}
  BY AncestryOfObject DEF Range
<1> QED BY <1>1 DEF Lineage

LEMMA WaysGoOn ==
  ASSUME NEW tab, Lineage(tab)
  PROVE  \A d \in DOMAIN tab : \A s \in Range(Ancestry(tab, d)) :
           s \in DOMAIN tab /\ Range(Ancestry(tab, s)) \subseteq Range(Ancestry(tab, d))
<1> DEFINE P == {d \in DOMAIN tab : \A s \in Range(Ancestry(tab, d)) :
                   s \in DOMAIN tab /\ Range(Ancestry(tab, s)) \subseteq Range(Ancestry(tab, d))}
<1>1. Object \in P
  <2>1. Range(Ancestry(tab, Object)) = {Object}
    BY ObjectIsAlone
  <2> QED BY <2>1 DEF Lineage
<1>2. ASSUME NEW c \in DOMAIN tab \ {Object}, tab[c].parent \in P PROVE c \in P
  <2>1. Range(Ancestry(tab, c)) = {c} \cup Range(Ancestry(tab, tab[c].parent))
    BY AncestryOfClass
  <2> QED BY <1>2, <2>1
<1>3. DOMAIN tab \subseteq P
  <2> HIDE DEF P
  <2> QED BY <1>1, <1>2, ByParent
<1> QED BY <1>3

LEMMA StartsAtItself ==
  ASSUME NEW tab, Lineage(tab), NEW c \in DOMAIN tab
  PROVE  c \in Range(Ancestry(tab, c))
<1>1. /\ Len(Ancestry(tab, c)) \in Nat \ {0} /\ Ancestry(tab, c)[1] = c
      /\ DOMAIN Ancestry(tab, c) = 1 .. Len(Ancestry(tab, c))
  BY AncestryIs
<1>2. 1 \in DOMAIN Ancestry(tab, c)
  BY <1>1
<1> QED BY <1>1, <1>2 DEF Range

(* A class that is not in the table is alone on its way.                   *)
LEMMA AncestryOfStranger ==
  ASSUME NEW tab, Lineage(tab), NEW c \in ClassName \ DOMAIN tab
  PROVE  Range(Ancestry(tab, c)) = {c}
<1> DEFINE up == Onward(tab)
           n == Cardinality(DOMAIN tab)
           climb == Climb(up, c, n)
<1>1. n \in Nat
  BY FS_CardinalityType DEF Lineage
<1>2. DOMAIN up = ClassName /\ up[c] = c
  BY DEF Onward
<1>3. \A a \in DOMAIN up : up[a] \in DOMAIN up
  BY LineageIsRooted DEF Rooted
<1> HIDE DEF up, n
<1>4. climb \in [0 .. n -> DOMAIN up] /\ \A k \in 0 .. n : climb[k] = c
  <2>1. Climbs(climb, up, c, n)
    BY <1>1, <1>2, <1>3, ClimbIs
  <2>2. \A k \in 0 .. n : climb[k] = c
    BY <1>1, <1>2, <1>3, ClimbStays
  <2> QED BY <2>1, <2>2 DEF Climbs
<1> DEFINE way == Way(up, c, n)
<1>5. way = [k \in 1 .. Cardinality(Range(climb)) |-> climb[k - 1]]
  BY DEF Way
<1> HIDE DEF climb, way
<1>6. Range(climb) = {c} /\ 0 \in 0 .. n
  BY <1>1, <1>4 DEF Range
<1>7. Cardinality(Range(climb)) = 1
  BY <1>6, FS_Singleton
<1>8. way = [k \in 1 .. 1 |-> climb[k - 1]]
  BY <1>5, <1>7
<1>9. DOMAIN way = {1} /\ way[1] = c
  BY <1>4, <1>6, <1>8
<1>10. Ancestry(tab, c) = way
  BY AncestryIsWay DEF way, up, n
<1> QED BY <1>9, <1>10 DEF Range

(* No two classes are on the way of each other.                            *)
LEMMA WaysNeverMeetTwice ==
  ASSUME NEW tab, Lineage(tab), NEW c \in DOMAIN tab, NEW d \in Range(Ancestry(tab, c)),
         c \in Range(Ancestry(tab, d))
  PROVE  c = d
<1>1. CASE c = Object
  BY <1>1, ObjectIsAlone
<1>2. CASE c # Object /\ d # c
  <2>1. /\ c \notin Range(Ancestry(tab, tab[c].parent)) /\ tab[c].parent \in DOMAIN tab
        /\ Range(Ancestry(tab, c)) = {c} \cup Range(Ancestry(tab, tab[c].parent))
    BY <1>2, AncestryOfClass
  <2>2. d \in Range(Ancestry(tab, tab[c].parent))
    BY <1>2, <2>1
  <2> QED BY <2>1, <2>2, WaysGoOn
<1> QED BY <1>1, <1>2

(* All the others of the classes, of those on the way, are above the first. *)
LEMMA FirstIsLowest ==
  ASSUME NEW tab, Lineage(tab), NEW S, NEW c \in DOMAIN tab,
         Range(Ancestry(tab, c)) \cap S # {}
  PROVE  LET first == FirstOf(Ancestry(tab, c), S) IN
         /\ first \in Range(Ancestry(tab, c)) \cap S
         /\ \A d \in Range(Ancestry(tab, c)) \cap S : d \in Range(Ancestry(tab, first))
<1> DEFINE Is(a) == LET first == FirstOf(Ancestry(tab, a), S) IN
             /\ first \in Range(Ancestry(tab, a)) \cap S
             /\ \A d \in Range(Ancestry(tab, a)) \cap S : d \in Range(Ancestry(tab, first))
           P == {a \in DOMAIN tab : Range(Ancestry(tab, a)) \cap S # {} => Is(a)}
<1>1. ASSUME NEW a \in DOMAIN tab, a \in S PROVE Is(a)
  <2>1. /\ Ancestry(tab, a) \in Seq(DOMAIN tab) /\ Len(Ancestry(tab, a)) \in Nat \ {0}
        /\ Ancestry(tab, a)[1] = a
    BY AncestryIs
  <2>2. Ancestry(tab, a) # <<>>
    BY <2>1
  <2>3. FirstOf(Ancestry(tab, a), S) = a
    BY <1>1, <2>1, <2>2, FirstOfHead
  <2>4. a \in Range(Ancestry(tab, a))
    BY StartsAtItself
  <2> QED BY <1>1, <2>3, <2>4
<1>2. Object \in P
  <2>1. Range(Ancestry(tab, Object)) = {Object} /\ Object \in DOMAIN tab
    BY ObjectIsAlone
  <2>2. CASE Object \in S
    BY <1>1, <2>1, <2>2
  <2>3. CASE Object \notin S
    BY <2>1, <2>3
  <2> QED BY <2>2, <2>3
<1>3. ASSUME NEW a \in DOMAIN tab \ {Object}, tab[a].parent \in P PROVE a \in P
  <2>1. CASE a \in S
    BY <1>1, <2>1
  <2>2. CASE a \notin S
    <3> DEFINE rest == Ancestry(tab, tab[a].parent)
    <3>1. /\ tab[a].parent \in DOMAIN tab /\ Ancestry(tab, a) = <<a>> \o rest
          /\ Range(Ancestry(tab, a)) = {a} \cup Range(rest)
      BY AncestryOfClass
    <3>2. rest \in Seq(DOMAIN tab) /\ \A i, l \in DOMAIN rest : rest[i] = rest[l] => i = l
      BY <3>1, AncestryIs
    <3> HIDE DEF rest
    <3>3. SUFFICES ASSUME Range(Ancestry(tab, a)) \cap S # {} PROVE Is(a)
      OBVIOUS
    <3>4. PICK d : d \in Range(rest) /\ d \in S
      BY <2>2, <3>1, <3>3
    <3>5. FirstOf(Ancestry(tab, a), S) = FirstOf(rest, S)
      BY <2>2, <3>1, <3>2, <3>4, FirstOfRest
    <3>6. Is(tab[a].parent)
      BY <1>3, <3>4 DEF rest
    <3> QED BY <2>2, <3>1, <3>5, <3>6 DEF rest
  <2> QED BY <2>1, <2>2
<1>4. DOMAIN tab \subseteq P
  <2> HIDE DEF P
  <2> QED BY <1>2, <1>3, ByParent
<1> QED BY <1>4
=============================================================================

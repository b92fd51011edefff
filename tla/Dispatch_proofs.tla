--------------------------- MODULE Dispatch_proofs ---------------------------
(***************************************************************************)
(* The code generator's loops and the calls of the generated program, for  *)
(* every program the analysis accepts; and when mangled names are apart.   *)
(***************************************************************************)
EXTENDS Dispatch, Mangling, Hierarchies, TLAPS

-----------------------------------------------------------------------------
(* What the loop of collect_methods makes of a list of methods.            *)
LEMMA CollectTyped ==
  ASSUME NEW S, NEW members \in Seq(S), NEW m \in S
  PROVE  Collect(members, m) \in Seq(S)
<1>1. CASE HasMember(members, m.name)
  <2> DEFINE k == FirstNamed(members, m.name)
  <2>1. k \in DOMAIN members
    BY <1>1, FirstNamedIs
  <2> HIDE DEF k
  <2>2. [members EXCEPT ![k] = m] \in Seq(S)
    BY <2>1
  <2> QED BY <1>1, <2>2 DEF Collect, k
<1>2. CASE ~ HasMember(members, m.name)
  BY <1>2 DEF Collect
<1> QED BY <1>1, <1>2

Collecting(S) == [m \in S |-> [v \in Seq(S) |-> Collect(v, m)]]

LEMMA CollectAllIsLoop ==
  ASSUME NEW S, NEW members \in Seq(S)
  PROVE  /\ IsLoop(<<>>, Collecting(S), members, Len(members), S, Seq(S))
         /\ CollectAll(members) \in Seq(S)
         /\ CollectAll(members) = Loop(<<>>, Collecting(S), members, Len(members))[Len(members)]
<1> DEFINE n == Len(members)
           step == Collecting(S)
           g == Loop(<<>>, step, members, n)
           Round(f) == [k \in 0 .. n |-> IF k = 0 THEN <<>> ELSE Collect(f[k - 1], members[k])]
           collected == CHOOSE f : f = Round(f)
<1>1. n \in Nat /\ \A k \in 1 .. n : members[k] \in S
  OBVIOUS
<1>2. step \in [S -> [Seq(S) -> Seq(S)]]
  BY CollectTyped DEF Collecting
<1>3. \A m \in S, v \in Seq(S) : step[m][v] = Collect(v, m)
  BY DEF Collecting
<1> HIDE DEF step
<1>4. IsLoop(<<>>, step, members, n, S, Seq(S))
  BY <1>1, <1>2 DEF IsLoop
<1>5. /\ g \in [0 .. n -> Seq(S)] /\ g[0] = <<>>
      /\ \A k \in 1 .. n : g[k] = step[members[k]][g[k - 1]]
  BY <1>4, LoopIs
<1> HIDE DEF n, g
<1>6. ASSUME NEW k \in 1 .. n PROVE g[k] = Collect(g[k - 1], members[k])
  <2>1. k - 1 \in 0 .. n
    BY <1>1
  <2>2. g[k - 1] \in Seq(S) /\ members[k] \in S
    BY <1>1, <1>5, <2>1
  <2> QED BY <1>3, <1>5, <2>2
<1>7. g = Round(g)
  BY <1>5, <1>6
<1>8. collected = Round(collected)
  <2> HIDE DEF Round
  <2> QED BY <1>7
<1>9. CollectAll(members) = collected[n]
  BY DEF CollectAll, n
<1> HIDE DEF collected
<1>10. collected[0] = <<>> /\ \A k \in 1 .. n : collected[k] = Collect(collected[k - 1], members[k])
  <2>1. \A k \in 0 .. n : collected[k] = IF k = 0 THEN <<>> ELSE Collect(collected[k - 1], members[k])
    BY <1>8
  <2> QED BY <1>1, <2>1
<1>11. Together(collected, g, n)
  BY <1>1, <1>5, <1>6, <1>10 DEF Together
<1>12. collected[n] = g[n] /\ g[n] \in Seq(S)
  <2>1. n \in 0 .. n
    BY <1>1
  <2> QED BY <1>5, <1>11, <2>1, LoopIsOne
<1> QED BY <1>4, <1>9, <1>12 DEF n, g, step

LEMMA CollectAllOfNone == CollectAll(<<>>) = <<>>
<1>1. <<>> \in Seq({}) /\ Len(<<>>) = 0
  OBVIOUS
<1>2. CollectAll(<<>>) = Loop(<<>>, Collecting({}), <<>>, Len(<<>>))[Len(<<>>)]
      /\ IsLoop(<<>>, Collecting({}), <<>>, Len(<<>>), {}, Seq({}))
  BY <1>1, CollectAllIsLoop
<1> QED BY <1>1, <1>2, LoopIs

LEMMA CollectAllAppend ==
  ASSUME NEW S, NEW members \in Seq(S), NEW m \in S
  PROVE  CollectAll(Append(members, m)) = Collect(CollectAll(members), m)
<1> DEFINE more == Append(members, m)
           n == Len(members)
<1>1. /\ more \in Seq(S) /\ Len(more) = n + 1 /\ n \in Nat
      /\ more[n + 1] = m /\ \A k \in 1 .. n : more[k] = members[k]
  OBVIOUS
<1>2. IsLoop(<<>>, Collecting(S), members, n, S, Seq(S))
  BY CollectAllIsLoop
<1> HIDE DEF more, n
<1>3. Loop(<<>>, Collecting(S), more, n + 1)[n + 1]
        = Collecting(S)[more[n + 1]][Loop(<<>>, Collecting(S), members, n)[n]]
  <2>1. GoesOn(more, members, n, S)
    BY <1>1 DEF GoesOn
  <2> QED BY <1>2, <2>1, LoopGrows
<1>4. CollectAll(more) = Loop(<<>>, Collecting(S), more, n + 1)[n + 1]
  BY <1>1, CollectAllIsLoop DEF n
<1>5. /\ CollectAll(members) = Loop(<<>>, Collecting(S), members, n)[n]
      /\ CollectAll(members) \in Seq(S)
  BY CollectAllIsLoop DEF n
<1>6. CollectAll(more) = Collecting(S)[m][CollectAll(members)]
  BY <1>1, <1>3, <1>4, <1>5
<1> QED BY <1>5, <1>6 DEF more, Collecting

(* One turn: what is made of v by m.                                       *)
TakesIn(w, v, m) ==
  /\ ~ Repeats(w) /\ Len(v) <= Len(w)
  /\ \A i \in 1 .. Len(v) : w[i].name = v[i].name
  /\ \A i \in 1 .. Len(w) : \/ w[i] = m
                            \/ i <= Len(v) /\ w[i] = v[i] /\ v[i].name # m.name
  /\ \E i \in 1 .. Len(w) : w[i] = m

LEMMA CollectStep ==
  ASSUME NEW S, NEW v \in Seq(S), NEW m \in S, ~ Repeats(v)
  PROVE  TakesIn(Collect(v, m), v, m)
<1> DEFINE w == Collect(v, m)
           k == FirstNamed(v, m.name)
<1>1. Len(v) \in Nat /\ DOMAIN v = 1 .. Len(v)
  OBVIOUS
<1>2. CASE HasMember(v, m.name)
  <2>1. k \in DOMAIN v /\ v[k].name = m.name
    BY <1>2, FirstNamedIs
  <2>2. w = [v EXCEPT ![k] = m]
    BY <1>2 DEF Collect
  <2> HIDE DEF w, k
  <2>3. DOMAIN w = 1 .. Len(v) /\ Len(w) = Len(v)
    BY <1>1, <2>2
  <2>4. w[k] = m /\ \A i \in 1 .. Len(v) : i # k => w[i] = v[i]
    BY <1>1, <2>1, <2>2
  <2>5. \A i \in 1 .. Len(v) : i # k => v[i].name # m.name
    BY <1>1, <2>1 DEF Repeats
  <2>6. \A i \in 1 .. Len(v) : w[i].name = v[i].name
    BY <2>1, <2>4
  <2>7. ~ Repeats(w)
    BY <1>1, <2>3, <2>6 DEF Repeats
  <2>8. \A i \in 1 .. Len(w) : w[i] = m \/ (i <= Len(v) /\ w[i] = v[i] /\ v[i].name # m.name)
    BY <1>1, <2>3, <2>4, <2>5
  <2>9. k \in 1 .. Len(w)
    BY <1>1, <2>1, <2>3
  <2> QED BY <1>1, <2>3, <2>4, <2>6, <2>7, <2>8, <2>9 DEF TakesIn, w
<1>3. CASE ~ HasMember(v, m.name)
  <2>1. w = Append(v, m)
    BY <1>3 DEF Collect
  <2> HIDE DEF w, k
  <2>2. /\ Len(w) = Len(v) + 1 /\ DOMAIN w = 1 .. Len(v) + 1 /\ w[Len(v) + 1] = m
        /\ \A i \in 1 .. Len(v) : w[i] = v[i]
    BY <1>1, <2>1
  <2>3. \A i \in 1 .. Len(v) : v[i].name # m.name
    BY <1>1, <1>3 DEF HasMember
  <2>4. \A i \in DOMAIN w : i = Len(v) + 1 \/ i \in 1 .. Len(v)
    BY <1>1, <2>2
  <2>5. ~ Repeats(w)
    <3> SUFFICES ASSUME NEW i \in DOMAIN w, NEW j \in DOMAIN w, i < j, w[i].name = w[j].name
                 PROVE  FALSE
      BY DEF Repeats
    <3>1. i \in 1 .. Len(v)
      BY <1>1, <2>2, <2>4
    <3>2. CASE j = Len(v) + 1
      BY <2>2, <2>3, <3>1, <3>2
    <3>3. CASE j \in 1 .. Len(v)
      BY <1>1, <2>2, <3>1, <3>3 DEF Repeats
    <3> QED BY <2>4, <3>2, <3>3
  <2>6. \A i \in 1 .. Len(w) : w[i] = m \/ (i <= Len(v) /\ w[i] = v[i] /\ v[i].name # m.name)
    BY <1>1, <2>2, <2>3, <2>4
  <2>7. Len(v) + 1 \in 1 .. Len(w) /\ Len(v) <= Len(w)
    BY <1>1, <2>2
  <2> QED BY <1>1, <2>2, <2>5, <2>6, <2>7 DEF TakesIn, w
<1> QED BY <1>2, <1>3

(* The list that is collected has no name twice, and the names of the one  *)
(* it is collected from.                                                   *)
LEMMA CollectedOnce ==
  ASSUME NEW S, NEW members \in Seq(S)
  PROVE  /\ CollectAll(members) \in Seq(S) /\ ~ Repeats(CollectAll(members))
         /\ \A n : HasMember(CollectAll(members), n) <=> HasMember(members, n)
<1> DEFINE Right(s) == /\ ~ Repeats(CollectAll(s))
                       /\ \A n : HasMember(CollectAll(s), n) <=> HasMember(s, n)
           T == {s \in Seq(S) : Right(s)}
<1>1. <<>> \in T
  BY CollectAllOfNone DEF Repeats, HasMember
<1>2. ASSUME NEW s \in Seq(S), NEW e \in S, s \in T PROVE Append(s, e) \in T
  <2> DEFINE v == CollectAll(s)
             w == CollectAll(Append(s, e))
  <2>1. v \in Seq(S) /\ w \in Seq(S) /\ w = Collect(v, e)
    <3>1. Append(s, e) \in Seq(S)
      OBVIOUS
    <3> QED BY <3>1, CollectAllIsLoop, CollectAllAppend
  <2>2. ~ Repeats(v) /\ \A n : HasMember(v, n) <=> HasMember(s, n)
    BY <1>2
  <2> HIDE DEF v, w
  <2>3. TakesIn(w, v, e)
    BY <2>1, <2>2, CollectStep
  <2>4. DOMAIN v = 1 .. Len(v) /\ DOMAIN w = 1 .. Len(w) /\ Len(v) \in Nat /\ Len(w) \in Nat
    BY <2>1
  <2>5. ASSUME NEW n PROVE HasMember(w, n) <=> HasMember(v, n) \/ n = e.name
    <3>1. HasMember(w, n) => HasMember(v, n) \/ n = e.name
      BY <2>3, <2>4 DEF TakesIn, HasMember
    <3>2. HasMember(v, n) => HasMember(w, n)
      BY <2>3, <2>4 DEF TakesIn, HasMember
    <3>3. n = e.name => HasMember(w, n)
      BY <2>3, <2>4 DEF TakesIn, HasMember
    <3> QED BY <3>1, <3>2, <3>3
  <2>6. ASSUME NEW n PROVE HasMember(Append(s, e), n) <=> HasMember(s, n) \/ n = e.name
    <3> DEFINE t == Append(s, e)
    <3>1. /\ DOMAIN s = 1 .. Len(s) /\ Len(s) \in Nat /\ DOMAIN t = 1 .. Len(s) + 1
          /\ t[Len(s) + 1] = e /\ \A i \in 1 .. Len(s) : t[i] = s[i]
      OBVIOUS
    <3> HIDE DEF t
    <3>2. \A i \in DOMAIN t : i = Len(s) + 1 \/ i \in DOMAIN s
      BY <3>1
    <3>3. HasMember(t, n) <=> HasMember(s, n) \/ n = e.name
      BY <3>1, <3>2 DEF HasMember
    <3> QED BY <3>3 DEF t
  <2>7. ~ Repeats(w)
    BY <2>3 DEF TakesIn
  <2> QED BY <2>2, <2>5, <2>6, <2>7 DEF w
<1>3. Seq(S) \subseteq T
  <2> HIDE DEF T
  <2> QED BY <1>1, <1>2, Lengthwise
<1> QED BY <1>3, CollectAllIsLoop

(* What is collected from a list that goes on with more members: the slots *)
(* keep their names, and each slot has the last of the new members that    *)
(* has its name, or what it had if none has it.                            *)
Overrides(w, v, more) ==
  /\ Len(v) <= Len(w)
  /\ \A i \in 1 .. Len(v) : w[i].name = v[i].name
  /\ \A i \in 1 .. Len(w) :
       \/ \E k \in DOMAIN more :
            /\ w[i] = more[k]
            /\ \A l \in k + 1 .. Len(more) : more[l].name # w[i].name
       \/ i <= Len(v) /\ w[i] = v[i] /\ ~ HasMember(more, v[i].name)

LEMMA OverridesOn ==
  ASSUME NEW S, NEW v \in Seq(S), NEW w \in Seq(S), NEW x \in Seq(S), NEW more \in Seq(S),
         NEW m \in S, Overrides(w, v, more), TakesIn(x, w, m)
  PROVE  Overrides(x, v, Append(more, m))
<1> DEFINE l == Len(more)
           all == Append(more, m)
<1>1. /\ l \in Nat /\ DOMAIN more = 1 .. l /\ DOMAIN all = 1 .. l + 1 /\ Len(all) = l + 1
      /\ all[l + 1] = m /\ \A i \in 1 .. l : all[i] = more[i]
  OBVIOUS
<1>2. Len(v) \in Nat /\ Len(w) \in Nat /\ Len(x) \in Nat
  OBVIOUS
<1> HIDE DEF all, l
<1>3. Len(v) <= Len(x) /\ \A i \in 1 .. Len(v) : x[i].name = v[i].name
  <2>1. Len(v) <= Len(w) /\ \A i \in 1 .. Len(v) : w[i].name = v[i].name
    BY DEF Overrides
  <2>2. Len(w) <= Len(x) /\ \A i \in 1 .. Len(w) : x[i].name = w[i].name
    BY DEF TakesIn
  <2> QED BY <1>2, <2>1, <2>2
<1>4. ASSUME NEW i \in 1 .. Len(x)
      PROVE  \/ \E k \in DOMAIN all :
                  x[i] = all[k] /\ \A j \in k + 1 .. Len(all) : all[j].name # x[i].name
             \/ i <= Len(v) /\ x[i] = v[i] /\ ~ HasMember(all, v[i].name)
  <2>1. CASE x[i] = m
    <3>1. l + 1 \in DOMAIN all /\ x[i] = all[l + 1] /\ (l + 1) + 1 .. Len(all) = {}
      BY <1>1, <2>1
    <3> QED BY <3>1
  <2>2. CASE i <= Len(w) /\ x[i] = w[i] /\ w[i].name # m.name
    <3>0. i \in 1 .. Len(w)
      BY <1>2, <2>2
    <3>1. CASE i <= Len(v) /\ w[i] = v[i] /\ ~ HasMember(more, v[i].name)
      <4>1. ~ HasMember(all, v[i].name)
        <5>1. \A k \in DOMAIN all : k = l + 1 \/ k \in 1 .. l
          BY <1>1
        <5> QED BY <1>1, <2>2, <3>1, <5>1 DEF HasMember
      <4> QED BY <2>2, <3>1, <4>1
    <3>2. CASE \E k \in DOMAIN more :
                 w[i] = more[k] /\ \A j \in k + 1 .. Len(more) : more[j].name # w[i].name
      <4>1. PICK k \in DOMAIN more :
              w[i] = more[k] /\ \A j \in k + 1 .. Len(more) : more[j].name # w[i].name
        BY <3>2
      <4>2. k \in 1 .. l /\ k \in DOMAIN all /\ all[k] = more[k]
        BY <1>1, <4>1
      <4>3. \A j \in k + 1 .. Len(all) : j = l + 1 \/ (j \in k + 1 .. Len(more) /\ all[j] = more[j])
        BY <1>1, <4>2 DEF l
      <4>4. \A j \in k + 1 .. Len(all) : all[j].name # x[i].name
        BY <1>1, <2>2, <4>1, <4>3
      <4> QED BY <2>2, <4>1, <4>2, <4>4
    <3> QED BY <3>0, <3>1, <3>2 DEF Overrides
  <2> QED BY <2>1, <2>2 DEF TakesIn
<1> QED BY <1>3, <1>4 DEF Overrides, all

LEMMA CollectMore ==
  ASSUME NEW S, NEW members \in Seq(S), NEW more \in Seq(S)
  PROVE  Overrides(CollectAll(members \o more), CollectAll(members), more)
<1> DEFINE v == CollectAll(members)
           T == {s \in Seq(S) : Overrides(CollectAll(members \o s), v, s)}
<1>1. <<>> \in T
  <2>1. members \o <<>> = members
    OBVIOUS
  <2>2. v \in Seq(S)
    BY CollectAllIsLoop
  <2> HIDE DEF v
  <2>3. Overrides(v, v, <<>>)
    BY <2>2 DEF Overrides, HasMember
  <2> QED BY <2>1, <2>3 DEF v
<1>2. ASSUME NEW s \in Seq(S), NEW e \in S, s \in T PROVE Append(s, e) \in T
  <2> DEFINE all == members \o s
  <2>1. all \in Seq(S) /\ Append(s, e) \in Seq(S) /\ members \o Append(s, e) = Append(all, e)
    OBVIOUS
  <2>2. Overrides(CollectAll(all), v, s)
    BY <1>2
  <2> HIDE DEF all
  <2>3. CollectAll(Append(all, e)) = Collect(CollectAll(all), e)
    BY <2>1, CollectAllAppend
  <2>4. /\ CollectAll(all) \in Seq(S) /\ ~ Repeats(CollectAll(all))
        /\ CollectAll(Append(all, e)) \in Seq(S) /\ v \in Seq(S)
    <3>1. Append(all, e) \in Seq(S)
      BY <2>1
    <3> QED BY <2>1, <3>1, CollectedOnce
  <2>5. TakesIn(CollectAll(Append(all, e)), CollectAll(all), e)
    BY <2>3, <2>4, CollectStep
  <2> HIDE DEF v
  <2>6. Overrides(CollectAll(Append(all, e)), v, Append(s, e))
    BY <2>2, <2>4, <2>5, OverridesOn
  <2> QED BY <2>1, <2>6 DEF all
<1>3. Seq(S) \subseteq T
  <2> HIDE DEF T
  <2> QED BY <1>1, <1>2, Lengthwise
<1> QED BY <1>3

(* Members of different names are all collected, as they are.              *)
LEMMA CollectedWhole ==
  ASSUME NEW S, NEW members \in Seq(S), ~ Repeats(members)
  PROVE  CollectAll(members) = members
<1> DEFINE T == {s \in Seq(S) : ~ Repeats(s) => CollectAll(s) = s}
<1>1. <<>> \in T
  BY CollectAllOfNone
<1>2. ASSUME NEW s \in Seq(S), NEW e \in S, s \in T PROVE Append(s, e) \in T
  <2> DEFINE t == Append(s, e)
             l == Len(s)
  <2> SUFFICES ASSUME ~ Repeats(t) PROVE t \in Seq(S) /\ CollectAll(t) = t
    OBVIOUS
  <2>1. /\ t \in Seq(S) /\ l \in Nat /\ DOMAIN s = 1 .. l /\ DOMAIN t = 1 .. l + 1
        /\ t[l + 1] = e /\ \A i \in 1 .. l : t[i] = s[i]
    OBVIOUS
  <2>2. ~ Repeats(s) /\ ~ HasMember(s, e.name)
    <3> HIDE DEF t, l
    <3>1. \A i \in 1 .. l : i \in DOMAIN t /\ l + 1 \in DOMAIN t /\ i < l + 1
      BY <2>1
    <3>2. ~ Repeats(s)
      BY <2>1, <3>1 DEF Repeats
    <3>3. ~ HasMember(s, e.name)
      BY <2>1, <3>1 DEF Repeats, HasMember
    <3> QED BY <3>2, <3>3
  <2>3. CollectAll(s) = s
    BY <1>2, <2>2
  <2>4. CollectAll(t) = Collect(s, e)
    BY <2>3, CollectAllAppend
  <2> QED BY <2>1, <2>2, <2>4 DEF Collect
<1>3. Seq(S) \subseteq T
  <2> HIDE DEF T
  <2> QED BY <1>1, <1>2, Lengthwise
<1> QED BY <1>3

-----------------------------------------------------------------------------
(* Lists put one behind the other.                                         *)
Joining(S) == [s \in Seq(S) |-> [v \in Seq(S) |-> v \o s]]

LEMMA FlattenIsLoop ==
  ASSUME NEW S, NEW lists \in Seq(Seq(S))
  PROVE  /\ IsLoop(<<>>, Joining(S), lists, Len(lists), Seq(S), Seq(S))
         /\ FlattenSeq(lists) \in Seq(S)
         /\ FlattenSeq(lists) = Loop(<<>>, Joining(S), lists, Len(lists))[Len(lists)]
<1> DEFINE n == Len(lists)
           step == Joining(S)
           g == Loop(<<>>, step, lists, n)
           Round(f) == [k \in 1 .. n |-> IF k = 1 THEN lists[k] ELSE f[k - 1] \o lists[k]]
           flatten == CHOOSE f : f = Round(f)
<1>1. n \in Nat /\ \A k \in 1 .. n : lists[k] \in Seq(S)
  OBVIOUS
<1>2. step \in [Seq(S) -> [Seq(S) -> Seq(S)]]
  BY DEF Joining
<1>3. \A s, v \in Seq(S) : step[s][v] = v \o s
  BY DEF Joining
<1>4. <<>> \in Seq(S) /\ \A s \in Seq(S) : <<>> \o s = s
  OBVIOUS
<1> HIDE DEF step
<1>5. IsLoop(<<>>, step, lists, n, Seq(S), Seq(S))
  BY <1>1, <1>2, <1>4 DEF IsLoop
<1>6. /\ g \in [0 .. n -> Seq(S)] /\ g[0] = <<>>
      /\ \A k \in 1 .. n : g[k] = step[lists[k]][g[k - 1]]
  BY <1>5, LoopIs
<1> HIDE DEF n, g
<1>7. ASSUME NEW k \in 1 .. n
      PROVE  g[k] = IF k = 1 THEN lists[k] ELSE g[k - 1] \o lists[k]
  <2>1. k - 1 \in 0 .. n
    BY <1>1
  <2>2. g[k - 1] \in Seq(S) /\ lists[k] \in Seq(S)
    BY <1>1, <1>6, <2>1
  <2>3. g[k] = g[k - 1] \o lists[k]
    BY <1>3, <1>6, <2>2
  <2>4. CASE k = 1
    <3>1. g[k - 1] = <<>>
      BY <1>6, <2>4
    <3> QED BY <1>4, <2>2, <2>3, <2>4, <3>1
  <2> QED BY <2>3, <2>4
<1> DEFINE h == [k \in 1 .. n |-> g[k]]
<1>8. h = Round(h)
  <2>1. \A k \in 1 .. n : k # 1 => k - 1 \in 1 .. n
    BY <1>1
  <2> QED BY <1>7, <2>1
<1>9. flatten = Round(flatten)
  <2> HIDE DEF Round, h
  <2> QED BY <1>8
<1>10. n # 0 => FlattenSeq(lists) = flatten[n]
  BY DEF FlattenSeq, n
<1> HIDE DEF flatten
<1>11. \A k \in 1 .. n : flatten[k] = IF k = 1 THEN lists[k] ELSE flatten[k - 1] \o lists[k]
  BY <1>9
<1> DEFINE f == [k \in 0 .. n |-> IF k = 0 THEN <<>> ELSE flatten[k]]
<1>12. Together(f, g, n)
  <2>1. ASSUME NEW k \in 1 .. n, f[k - 1] = g[k - 1] PROVE f[k] = g[k]
    <3>1. k \in 0 .. n /\ k - 1 \in 0 .. n /\ f[k] = flatten[k]
      BY <1>1
    <3>2. CASE k = 1
      BY <1>7, <1>11, <3>1, <3>2
    <3>3. CASE k # 1
      <4>1. f[k - 1] = flatten[k - 1]
        BY <3>1, <3>3
      <4> QED BY <1>7, <1>11, <2>1, <3>1, <3>3, <4>1
    <3> QED BY <3>2, <3>3
  <2>2. f[0] = g[0]
    BY <1>1, <1>6
  <2> HIDE DEF f
  <2> QED BY <1>1, <2>1, <2>2 DEF Together
<1>13. FlattenSeq(lists) = g[n]
  <2>1. CASE n = 0
    <3>1. lists = <<>> /\ FlattenSeq(lists) = lists
      BY <2>1 DEF n, FlattenSeq
    <3> QED BY <1>6, <2>1, <3>1
  <2>2. CASE n # 0
    <3>1. n \in 0 .. n /\ f[n] = flatten[n]
      BY <1>1, <2>2
    <3> HIDE DEF f
    <3>2. f[n] = g[n]
      BY <1>12, <3>1, LoopIsOne
    <3> QED BY <1>10, <2>2, <3>1, <3>2
  <2> QED BY <2>1, <2>2
<1>14. g[n] \in Seq(S)
  <2>1. n \in 0 .. n
    BY <1>1
  <2> QED BY <1>6, <2>1
<1> QED BY <1>5, <1>13, <1>14 DEF n, g, step

LEMMA FlattenAppend ==
  ASSUME NEW S, NEW lists \in Seq(Seq(S)), NEW s \in Seq(S)
  PROVE  FlattenSeq(Append(lists, s)) = FlattenSeq(lists) \o s
<1> DEFINE more == Append(lists, s)
           n == Len(lists)
<1>1. /\ more \in Seq(Seq(S)) /\ Len(more) = n + 1 /\ n \in Nat
      /\ more[n + 1] = s /\ \A k \in 1 .. n : more[k] = lists[k]
  <2> DEFINE L == Seq(S)
  <2>1. lists \in Seq(L) /\ s \in L
    OBVIOUS
  <2> HIDE DEF L
  <2>2. /\ more \in Seq(L) /\ Len(more) = n + 1 /\ n \in Nat
        /\ more[n + 1] = s /\ \A k \in 1 .. n : more[k] = lists[k]
    BY <2>1
  <2> QED BY <2>2 DEF L
<1>2. IsLoop(<<>>, Joining(S), lists, n, Seq(S), Seq(S))
  BY FlattenIsLoop
<1> HIDE DEF more, n
<1>3. Loop(<<>>, Joining(S), more, n + 1)[n + 1]
        = Joining(S)[more[n + 1]][Loop(<<>>, Joining(S), lists, n)[n]]
  <2>1. GoesOn(more, lists, n, Seq(S))
    BY <1>1 DEF GoesOn
  <2> QED BY <1>2, <2>1, LoopGrows
<1>4. FlattenSeq(more) = Loop(<<>>, Joining(S), more, n + 1)[n + 1]
  BY <1>1, FlattenIsLoop
<1>5. /\ FlattenSeq(lists) = Loop(<<>>, Joining(S), lists, n)[n]
      /\ FlattenSeq(lists) \in Seq(S)
  BY FlattenIsLoop DEF n
<1>6. FlattenSeq(more) = Joining(S)[s][FlattenSeq(lists)]
  BY <1>1, <1>3, <1>4, <1>5
<1> QED BY <1>5, <1>6 DEF more, Joining

LEMMA FlattenOne ==
  ASSUME NEW S, NEW s \in Seq(S)
  PROVE  FlattenSeq(<<s>>) = s
<1>1. <<>> \in Seq(Seq(S)) /\ Append(<<>>, s) = <<s>>
  OBVIOUS
<1>2. FlattenSeq(<<>>) = <<>>
  BY DEF FlattenSeq
<1>3. FlattenSeq(Append(<<>>, s)) = FlattenSeq(<<>>) \o s
  BY <1>1, FlattenAppend
<1>4. <<>> \o s = s
  OBVIOUS
<1> QED BY <1>1, <1>2, <1>3, <1>4

-----------------------------------------------------------------------------
-----------------------------------------------------------------------------
(* The class table of a program that is accepted.                          *)
Hierarchy(tab) ==
  /\ Lineage(tab)
  /\ tab[Object] = ObjectInfo
  /\ \A c \in DOMAIN tab :
       /\ tab[c].fields \in Seq(Field) /\ ~ Repeats(tab[c].fields)
       /\ tab[c].methods \in Seq(Method) /\ ~ Repeats(tab[c].methods)

LEMMA ItsLineage ==
  ASSUME NEW tab, Hierarchy(tab)
  PROVE  Lineage(tab)
BY DEF Hierarchy

(* What is gathered along a way from Object: that of the parent, then that *)
(* of the class.                                                           *)
Gathered(f, way) == FlattenSeq([i \in DOMAIN way |-> f[way[i]]])

LEMMA RootFirst ==
  ASSUME NEW tab, Hierarchy(tab)
  PROVE  /\ FromTheRoot(tab, Object) = <<Object>>
         /\ \A c \in DOMAIN tab : FromTheRoot(tab, c) \in Seq(DOMAIN tab)
         /\ \A c \in DOMAIN tab \ {Object} :
              FromTheRoot(tab, c) = Append(FromTheRoot(tab, tab[c].parent), c)
<1>1. FromTheRoot(tab, Object) = <<Object>>
  <2>1. Reverse(<<Object>>) = <<Object>>
    BY DEF Reverse
  <2> QED BY <2>1, AncestryOfObject, ItsLineage DEF FromTheRoot
<1>2. ASSUME NEW S, NEW s \in Seq(S)
      PROVE  /\ Reverse(s) \in Seq(S) /\ Len(Reverse(s)) = Len(s)
             /\ \A i \in 1 .. Len(s) : Reverse(s)[i] = s[(Len(s) - i) + 1]
  <2>1. \A i \in 1 .. Len(s) : (Len(s) - i) + 1 \in 1 .. Len(s)
    OBVIOUS
  <2> QED BY <2>1 DEF Reverse
<1>3. ASSUME NEW c \in DOMAIN tab PROVE FromTheRoot(tab, c) \in Seq(DOMAIN tab)
  <2>1. Ancestry(tab, c) \in Seq(DOMAIN tab)
    BY AncestryIs, ItsLineage
  <2> QED BY <1>2, <2>1 DEF FromTheRoot
<1>4. ASSUME NEW c \in DOMAIN tab \ {Object}
      PROVE  FromTheRoot(tab, c) = Append(FromTheRoot(tab, tab[c].parent), c)
  <2> DEFINE D == DOMAIN tab
             rest == Ancestry(tab, tab[c].parent)
             all == <<c>> \o rest
             n == Len(rest)
  <2>1. rest \in Seq(D) /\ c \in D /\ n \in Nat
    <3>1. tab[c].parent \in DOMAIN tab
      BY AncestryOfClass, ItsLineage
    <3>2. rest \in Seq(D)
      BY <3>1, AncestryIs, ItsLineage
    <3> QED BY <3>2
  <2>2. Ancestry(tab, c) = all
    BY AncestryOfClass, ItsLineage
  <2> HIDE DEF rest, D
  <2>3. /\ all \in Seq(D) /\ Len(all) = n + 1 /\ all[1] = c
        /\ \A i \in 1 .. n : all[i + 1] = rest[i]
    BY <2>1
  <2> HIDE DEF all, n
  <2>4. /\ Reverse(all) \in Seq(D) /\ Len(Reverse(all)) = n + 1
        /\ \A i \in 1 .. n + 1 : Reverse(all)[i] = all[((n + 1) - i) + 1]
    BY <1>2, <2>3
  <2>5. /\ Reverse(rest) \in Seq(D) /\ Len(Reverse(rest)) = n
        /\ \A i \in 1 .. n : Reverse(rest)[i] = rest[(n - i) + 1]
    BY <1>2, <2>1 DEF n
  <2> DEFINE a == Reverse(all)
             b == Reverse(rest)
  <2> HIDE DEF a, b
  <2>6. /\ Append(b, c) \in Seq(D) /\ Len(Append(b, c)) = n + 1 /\ Append(b, c)[n + 1] = c
        /\ \A i \in 1 .. n : Append(b, c)[i] = b[i]
    BY <2>1, <2>5 DEF b
  <2>7. ASSUME NEW i \in 1 .. n + 1 PROVE a[i] = Append(b, c)[i]
    <3>1. CASE i = n + 1
      <4>1. ((n + 1) - i) + 1 = 1
        BY <2>1, <3>1
      <4> QED BY <2>3, <2>4, <2>6, <3>1, <4>1 DEF a
    <3>2. CASE i # n + 1
      <4>1. i \in 1 .. n /\ (n - i) + 1 \in 1 .. n /\ ((n + 1) - i) + 1 = ((n - i) + 1) + 1
        BY <2>1, <3>2
      <4>2. a[i] = all[((n - i) + 1) + 1] /\ all[((n - i) + 1) + 1] = rest[(n - i) + 1]
        BY <2>3, <2>4, <4>1 DEF a
      <4> QED BY <2>5, <2>6, <4>1, <4>2 DEF b
    <3> QED BY <3>1, <3>2
  <2>8. a = Append(b, c)
    <3>1. a \in Seq(D) /\ Len(a) = Len(Append(b, c)) /\ Len(a) = n + 1
      BY <2>4, <2>6 DEF a
    <3> QED BY <2>6, <2>7, <3>1, SeqEqual
  <2> QED BY <2>2, <2>8 DEF a, b, rest, FromTheRoot
<1> QED BY <1>1, <1>3, <1>4

LEMMA GatheredIs ==
  ASSUME NEW tab, Hierarchy(tab), NEW S, NEW f \in [DOMAIN tab -> Seq(S)]
  PROVE  /\ Gathered(f, FromTheRoot(tab, Object)) = f[Object]
         /\ \A c \in DOMAIN tab : Gathered(f, FromTheRoot(tab, c)) \in Seq(S)
         /\ \A c \in DOMAIN tab \ {Object} :
              Gathered(f, FromTheRoot(tab, c))
                = Gathered(f, FromTheRoot(tab, tab[c].parent)) \o f[c]
<1> DEFINE D == DOMAIN tab
           L == Seq(S)
           Lists(way) == [i \in DOMAIN way |-> f[way[i]]]
<1>1. Object \in D /\ \A c \in D \ {Object} : tab[c].parent \in D
  BY DEF Hierarchy, Lineage
<1>2. ASSUME NEW way \in Seq(D) PROVE Lists(way) \in Seq(L)
  <2>1. DOMAIN way = 1 .. Len(way) /\ Len(way) \in Nat /\ \A i \in DOMAIN way : way[i] \in D
    OBVIOUS
  <2>2. Lists(way) \in [1 .. Len(way) -> L]
    BY <2>1
  <2> HIDE DEF L, Lists
  <2> QED BY <2>1, <2>2, SeqDef
<1>3. Gathered(f, FromTheRoot(tab, Object)) = f[Object]
  <2>1. Lists(<<Object>>) = <<f[Object]>> /\ f[Object] \in Seq(S)
    BY <1>1
  <2> QED BY <2>1, RootFirst, FlattenOne DEF Gathered
<1>4. ASSUME NEW c \in D PROVE Gathered(f, FromTheRoot(tab, c)) \in Seq(S)
  <2>1. FromTheRoot(tab, c) \in Seq(D)
    BY RootFirst
  <2>2. Lists(FromTheRoot(tab, c)) \in Seq(Seq(S))
    BY <1>2, <2>1
  <2> QED BY <2>2, FlattenIsLoop DEF Gathered
<1>5. ASSUME NEW c \in D \ {Object}
      PROVE  Gathered(f, FromTheRoot(tab, c)) = Gathered(f, FromTheRoot(tab, tab[c].parent)) \o f[c]
  <2> DEFINE way == FromTheRoot(tab, tab[c].parent)
  <2>1. way \in Seq(D) /\ FromTheRoot(tab, c) = Append(way, c)
    BY <1>1, RootFirst
  <2> HIDE DEF way
  <2>2. Lists(way) \in Seq(L) /\ f[c] \in L
    BY <1>2, <2>1
  <2>3. Lists(Append(way, c)) = Append(Lists(way), f[c])
    <3> HIDE DEF L
    <3> DEFINE a == Append(way, c)
               b == Lists(way)
               n == Len(way)
    <3>1. /\ n \in Nat /\ DOMAIN way = 1 .. n /\ DOMAIN a = 1 .. n + 1 /\ a[n + 1] = c
          /\ \A i \in 1 .. n : a[i] = way[i]
      BY <2>1
    <3>2. DOMAIN b = 1 .. n /\ b \in Seq(L) /\ Len(b) = n
      BY <2>2, <3>1
    <3>3. \A i \in 1 .. n : b[i] = f[way[i]]
      BY <3>1
    <3> HIDE DEF a, b, n
    <3>4. Append(b, f[c]) = [i \in 1 .. n + 1 |-> IF i = n + 1 THEN f[c] ELSE b[i]]
      BY <2>2, <3>1, <3>2
    <3>5. \A i \in 1 .. n + 1 : f[a[i]] = IF i = n + 1 THEN f[c] ELSE b[i]
      <4>1. \A i \in 1 .. n + 1 : i = n + 1 \/ i \in 1 .. n
        BY <3>1
      <4>2. n + 1 \notin 1 .. n
        BY <3>1
      <4> QED BY <3>1, <3>3, <4>1, <4>2
    <3>6. [i \in DOMAIN a |-> f[a[i]]] = Append(b, f[c])
      BY <3>1, <3>4, <3>5
    <3> QED BY <3>6 DEF a, b
  <2>4. FlattenSeq(Append(Lists(way), f[c])) = FlattenSeq(Lists(way)) \o f[c]
    BY <2>2, FlattenAppend
  <2> QED BY <2>1, <2>3, <2>4 DEF Gathered, way
<1> QED BY <1>3, <1>4, <1>5

(* A class has the fields of its parent, then its own.                     *)
LEMMA FieldsOfClass ==
  ASSUME NEW tab, Hierarchy(tab)
  PROVE  /\ CollectFields(tab, Object) = <<>>
         /\ \A c \in DOMAIN tab : CollectFields(tab, c) \in Seq(Field)
         /\ \A c \in DOMAIN tab \ {Object} :
              CollectFields(tab, c) = CollectFields(tab, tab[c].parent) \o tab[c].fields
<1> DEFINE D == DOMAIN tab
           f == [c \in D |-> tab[c].fields]
<1>1. /\ f \in [D -> Seq(Field)] /\ \A c \in D : f[c] = tab[c].fields
      /\ Object \in D /\ f[Object] = <<>>
  BY DEF Hierarchy, Lineage, ObjectInfo
<1> HIDE DEF f
<1>2. ASSUME NEW c \in D PROVE CollectFields(tab, c) = Gathered(f, FromTheRoot(tab, c))
  <2> DEFINE way == FromTheRoot(tab, c)
  <2>1. way \in Seq(D)
    BY RootFirst
  <2>2. CollectFields(tab, c) = FlattenSeq([i \in DOMAIN way |-> tab[way[i]].fields])
    BY DEF CollectFields
  <2> HIDE DEF way
  <2>3. \A i \in DOMAIN way : way[i] \in D
    BY <2>1
  <2>4. [i \in DOMAIN way |-> tab[way[i]].fields] = [i \in DOMAIN way |-> f[way[i]]]
    BY <1>1, <2>3
  <2>5. CollectFields(tab, c) = Gathered(f, way)
    BY <2>2, <2>4 DEF Gathered
  <2> QED BY <2>5 DEF way
<1>3. \A c \in D \ {Object} : tab[c].parent \in D
  BY DEF Hierarchy, Lineage
<1>4. /\ Gathered(f, FromTheRoot(tab, Object)) = f[Object]
      /\ \A c \in D : Gathered(f, FromTheRoot(tab, c)) \in Seq(Field)
      /\ \A c \in D \ {Object} :
           Gathered(f, FromTheRoot(tab, c)) = Gathered(f, FromTheRoot(tab, tab[c].parent)) \o f[c]
  BY <1>1, GatheredIs
<1> QED BY <1>1, <1>2, <1>3, <1>4

(* And its methods, each in the slot of the one it overrides.              *)
LEMMA MethodsOfClass ==
  ASSUME NEW tab, Hierarchy(tab)
  PROVE  /\ CollectMethods(tab, Object) = Builtins
         /\ \A c \in DOMAIN tab : /\ CollectMethods(tab, c) \in Seq(Method)
                                  /\ ~ Repeats(CollectMethods(tab, c))
         /\ \A c \in DOMAIN tab \ {Object} :
              /\ Overrides(CollectMethods(tab, c), CollectMethods(tab, tab[c].parent), tab[c].methods)
              /\ \A n : HasMember(CollectMethods(tab, c), n) <=>
                          \/ HasMember(CollectMethods(tab, tab[c].parent), n)
                          \/ HasMember(tab[c].methods, n)
<1> DEFINE D == DOMAIN tab
           f == [c \in D |-> tab[c].methods]
           All(c) == Gathered(f, FromTheRoot(tab, c))
<1>1. /\ f \in [D -> Seq(Method)] /\ \A c \in D : f[c] = tab[c].methods
      /\ Object \in D /\ f[Object] = Builtins /\ ~ Repeats(Builtins)
  BY DEF Hierarchy, Lineage, ObjectInfo
<1> HIDE DEF f
<1>2. ASSUME NEW c \in D PROVE CollectMethods(tab, c) = CollectAll(All(c))
  <2> DEFINE way == FromTheRoot(tab, c)
  <2>1. way \in Seq(D)
    BY RootFirst
  <2>2. CollectMethods(tab, c) = CollectAll(FlattenSeq([i \in DOMAIN way |-> tab[way[i]].methods]))
    BY DEF CollectMethods
  <2> HIDE DEF way
  <2>3. \A i \in DOMAIN way : way[i] \in D
    BY <2>1
  <2>4. [i \in DOMAIN way |-> tab[way[i]].methods] = [i \in DOMAIN way |-> f[way[i]]]
    BY <1>1, <2>3
  <2>5. CollectMethods(tab, c) = CollectAll(Gathered(f, way))
    BY <2>2, <2>4 DEF Gathered
  <2> QED BY <2>5 DEF way
<1>3. \A c \in D \ {Object} : tab[c].parent \in D
  BY DEF Hierarchy, Lineage
<1>4. /\ All(Object) = f[Object]
      /\ \A c \in D : All(c) \in Seq(Method)
      /\ \A c \in D \ {Object} : All(c) = All(tab[c].parent) \o f[c]
  BY <1>1, GatheredIs
<1> HIDE DEF All
<1>5. CollectMethods(tab, Object) = Builtins
  <2>1. Builtins \in Seq(Method)
    BY NamesAssumption
  <2> QED BY <1>1, <1>2, <1>4, <2>1, CollectedWhole
<1>6. ASSUME NEW c \in D
      PROVE  CollectMethods(tab, c) \in Seq(Method) /\ ~ Repeats(CollectMethods(tab, c))
  BY <1>2, <1>4, CollectedOnce
<1>7. ASSUME NEW c \in D \ {Object}
      PROVE  /\ Overrides(CollectMethods(tab, c), CollectMethods(tab, tab[c].parent), tab[c].methods)
             /\ \A n : HasMember(CollectMethods(tab, c), n) <=>
                         \/ HasMember(CollectMethods(tab, tab[c].parent), n)
                         \/ HasMember(tab[c].methods, n)
  <2> DEFINE p == tab[c].parent
             own == tab[c].methods
  <2>1. p \in D /\ own = f[c] /\ own \in Seq(Method) /\ All(p) \in Seq(Method)
    BY <1>1, <1>3, <1>4
  <2>2. /\ CollectMethods(tab, c) = CollectAll(All(p) \o own)
        /\ CollectMethods(tab, p) = CollectAll(All(p))
    BY <1>2, <1>4, <2>1
  <2> HIDE DEF p, own
  <2>3. Overrides(CollectAll(All(p) \o own), CollectAll(All(p)), own)
    BY <2>1, CollectMore
  <2>4. ASSUME NEW n
        PROVE  HasMember(All(p) \o own, n) <=> HasMember(All(p), n) \/ HasMember(own, n)
    <3> DEFINE a == All(p)
               l == Len(a)
               k == Len(own)
    <3>1. a \in Seq(Method) /\ own \in Seq(Method)
      BY <2>1
    <3> HIDE DEF a
    <3>2. /\ l \in Nat /\ k \in Nat /\ DOMAIN a = 1 .. l /\ DOMAIN own = 1 .. k
          /\ DOMAIN (a \o own) = 1 .. l + k
          /\ \A i \in 1 .. l : (a \o own)[i] = a[i]
          /\ \A i \in 1 .. k : (a \o own)[l + i] = own[i]
      BY <3>1
    <3> DEFINE b == a \o own
    <3> HIDE DEF l, k, b
    <3>3. \A i \in 1 .. l + k : i \in 1 .. l \/ (i - l \in 1 .. k /\ l + (i - l) = i)
      BY <3>2
    <3>4. (\A i \in 1 .. l : i \in 1 .. l + k) /\ \A i \in 1 .. k : l + i \in 1 .. l + k
      BY <3>2
    <3>5. HasMember(b, n) => HasMember(a, n) \/ HasMember(own, n)
      <4> HAVE HasMember(b, n)
      <4>1. PICK i \in 1 .. l + k : b[i].name = n
        BY <3>2 DEF HasMember, b
      <4>2. CASE i \in 1 .. l
        BY <3>2, <4>1, <4>2 DEF HasMember, b
      <4>3. CASE i - l \in 1 .. k /\ l + (i - l) = i
        <5>1. own[i - l].name = n
          BY <3>2, <4>1, <4>3 DEF b
        <5> QED BY <3>2, <4>3, <5>1 DEF HasMember
      <4> QED BY <3>3, <4>1, <4>2, <4>3
    <3>6. HasMember(a, n) => HasMember(b, n)
      BY <3>2, <3>4 DEF HasMember, b
    <3>7. HasMember(own, n) => HasMember(b, n)
      BY <3>2, <3>4 DEF HasMember, b
    <3> QED BY <3>5, <3>6, <3>7 DEF a, b
  <2>5. \A n : HasMember(CollectAll(All(p) \o own), n) <=> HasMember(All(p) \o own, n)
    <3>1. All(p) \o own \in Seq(Method)
      BY <2>1
    <3> QED BY <3>1, CollectedOnce
  <2>6. \A n : HasMember(CollectAll(All(p)), n) <=> HasMember(All(p), n)
    BY <2>1, CollectedOnce
  <2> QED BY <2>2, <2>3, <2>4, <2>5, <2>6 DEF p, own
<1> QED BY <1>5, <1>6, <1>7

(* The table holds what the source says, and Object.                       *)
TableTells(p, tab) ==
  /\ DOMAIN p = 1 .. Len(p) /\ Len(p) \in Nat
  /\ DOMAIN tab = {Object} \cup {p[i].name : i \in DOMAIN p}
  /\ \A i \in DOMAIN p :
       /\ p[i] \in ClassDecl /\ p[i].name # Object
       /\ \A j \in DOMAIN p : p[j].name = p[i].name => j = i
       /\ tab[p[i].name].parent = p[i].parent
       /\ tab[p[i].name].fields = p[i].fields
       /\ tab[p[i].name].methods = p[i].methods
  /\ Main \in DOMAIN tab /\ HasMember(tab[Main].methods, main)

LEMMA TableOfIs ==
  ASSUME NEW p \in Programs, Analysed!WellFormed(p)
  PROVE  TableTells(p, TableOf(p)) /\ Hierarchy(TableOf(p))
<1> DEFINE tab == TableOf(p)
           D == {Object} \cup {p[i].name : i \in DOMAIN p}
<1>1. /\ p \in Seq(ClassDecl) /\ DOMAIN p = 1 .. Len(p) /\ Len(p) \in Nat
      /\ \A i \in DOMAIN p : p[i] \in ClassDecl
  <2>1. p \in Seq(ClassDecl)
    BY ProgramsAssumption
  <2> QED BY <2>1
<1>2. \A i \in DOMAIN p : /\ p[i].name \in ClassName /\ p[i].parent \in ClassName
                          /\ p[i].fields \in Seq(Field) /\ p[i].methods \in Seq(Method)
  BY <1>1 DEF ClassDecl
<1>3. \A i \in DOMAIN p : /\ p[i].name # Object
                          /\ \A j \in DOMAIN p : p[j].name = p[i].name => j = i
                          /\ ~ Repeats(p[i].fields) /\ ~ Repeats(p[i].methods)
  BY DEF Analysed!WellFormed, Analysed!OneEach, Analysed!Repeats, Repeats
<1>4. DOMAIN tab = D /\ tab[Object] = ObjectInfo
  BY DEF TableOf
<1>5. ASSUME NEW i \in DOMAIN p
      PROVE  /\ tab[p[i].name].parent = p[i].parent
             /\ tab[p[i].name].fields = p[i].fields
             /\ tab[p[i].name].methods = p[i].methods
  <2>1. (CHOOSE j \in DOMAIN p : p[j].name = p[i].name) = i
    BY <1>3
  <2>2. p[i].name \in D /\ p[i].name # Object
    BY <1>3
  <2>3. tab[p[i].name] = InfoOf(p[CHOOSE j \in DOMAIN p : p[j].name = p[i].name])
    BY <2>2 DEF TableOf
  <2>4. tab[p[i].name] = InfoOf(p[i])
    BY <2>1, <2>3
  <2>5. AddMembers(p[i].fields) = p[i].fields /\ AddMembers(p[i].methods) = p[i].methods
    BY <1>2, <1>3, NoneIsLeftOut
  <2> QED BY <2>4, <2>5 DEF InfoOf
<1>6. Main \in D /\ HasMember(tab[Main].methods, main)
  <2>1. PICK i \in DOMAIN p : p[i].name = Main /\ \E k \in DOMAIN p[i].methods : p[i].methods[k].name = main
    BY DEF Analysed!WellFormed, Analysed!MainIsThere
  <2> QED BY <1>5, <2>1 DEF HasMember
<1>7. TableTells(p, tab)
  <2> HIDE DEF tab
  <2> QED BY <1>1, <1>3, <1>4, <1>5, <1>6 DEF TableTells
<1>8. IsFiniteSet(D)
  <2> DEFINE names == {p[i].name : i \in DOMAIN p}
             f == [i \in DOMAIN p |-> p[i].name]
  <2>1. IsFiniteSet(DOMAIN p)
    <3>1. IsFiniteSet(1 .. Len(p))
      BY <1>1, FS_Interval
    <3> QED BY <1>1, <3>1
  <2>2. f \in Surjection(DOMAIN p, names)
    BY DEF Surjection
  <2> HIDE DEF names, f
  <2>3. IsFiniteSet(names)
    BY <2>1, <2>2, FS_Surjection
  <2>4. IsFiniteSet({Object})
    BY FS_Singleton
  <2>5. IsFiniteSet({Object} \cup names)
    BY <2>3, <2>4, FS_Union
  <2> QED BY <2>5 DEF names
<1>9. D \subseteq ClassName /\ Object \in D
  BY <1>2, NamesAssumption
<1>10. ASSUME NEW c \in D
       PROVE  /\ tab[c].parent \in D
              /\ tab[c].fields \in Seq(Field) /\ ~ Repeats(tab[c].fields)
              /\ tab[c].methods \in Seq(Method) /\ ~ Repeats(tab[c].methods)
  <2>1. CASE c = Object
    <3>1. ObjectInfo.parent = Object /\ ObjectInfo.fields = <<>> /\ ObjectInfo.methods = Builtins
      BY DEF ObjectInfo
    <3>2. ~ Repeats(<<>>) /\ <<>> \in Seq(Field)
      BY DEF Repeats
    <3> QED BY <1>4, <2>1, <3>1, <3>2, BuiltinsAssumption, NamesAssumption
  <2>2. CASE c # Object
    <3>1. PICK i \in DOMAIN p : c = p[i].name
      BY <2>2
    <3>2. p[i].parent \in D
      BY DEF Analysed!WellFormed, Analysed!ParentsAreDeclared, Analysed!Declared, Analysed!Names
    <3> HIDE DEF tab, D
    <3> QED BY <1>2, <1>3, <1>5, <3>1, <3>2
  <2> QED BY <2>1, <2>2
<1>11. ASSUME NEW S \in SUBSET (D \ {Object}), S # {}
       PROVE  \E c \in S : tab[c].parent \notin S
  <2>1. S \in SUBSET Analysed!Names(p)
    BY DEF Analysed!Names
  <2>2. PICK i \in DOMAIN p : p[i].name \in S /\ p[i].parent \notin S
    BY <1>11, <2>1 DEF Analysed!WellFormed, Analysed!NoCycle
  <2> HIDE DEF tab
  <2> QED BY <1>5, <2>2
<1>12. Hierarchy(tab)
  <2> HIDE DEF tab, D
  <2> QED BY <1>4, <1>8, <1>9, <1>10, <1>11 DEF Hierarchy, Lineage
<1> QED BY <1>7, <1>12

-----------------------------------------------------------------------------
(* The loops of generate(), counted from the last: what has been done, and *)
(* for which of the classes.                                               *)
OnCourse ==
  /\ loops \in Seq(Range(Loops)) /\ Len(loops) <= 11
  /\ \A k \in 1 .. Len(loops) : loops[k] = Loops[(11 - Len(loops)) + k]
  /\ index \in 1 .. Len(program)

Past(n, i) == Len(loops) < n \/ (Len(loops) = n /\ i < index)

NamesPast(n) == {program[i].name : i \in {j \in DOMAIN program : Past(n, j)}}

LEMMA WhichLoop ==
  ASSUME NEW n \in 1 .. 11
  PROVE  /\ Loops[12 - n] = "vtable types" <=> n = 11
         /\ Loops[12 - n] = "class types" <=> n = 10
         /\ Loops[12 - n] = "slots" <=> n = 9
         /\ Loops[12 - n] = "layouts" <=> n = 8
         /\ Loops[12 - n] = "inits" <=> n = 7
         /\ Loops[12 - n] = "news" <=> n = 6
         /\ Loops[12 - n] = "methods" <=> n = 5
         /\ Loops[12 - n] = "vtables" <=> n = 4
         /\ Loops[12 - n] = "init bodies" <=> n = 3
         /\ Loops[12 - n] = "new bodies" <=> n = 2
         /\ Loops[12 - n] = "entry" <=> n = 1
<1>1. n \in {1, 2, 3, 4, 5, 6, 7, 8, 9, 10, 11}
  OBVIOUS
<1>2. /\ Loops[1] = "vtable types" /\ Loops[2] = "class types" /\ Loops[3] = "slots"
      /\ Loops[4] = "layouts" /\ Loops[5] = "inits" /\ Loops[6] = "news"
      /\ Loops[7] = "methods" /\ Loops[8] = "vtables" /\ Loops[9] = "init bodies"
      /\ Loops[10] = "new bodies" /\ Loops[11] = "entry"
  BY DEF Loops
<1>3. /\ 12 - 11 = 1 /\ 12 - 10 = 2 /\ 12 - 9 = 3 /\ 12 - 8 = 4 /\ 12 - 7 = 5 /\ 12 - 6 = 6
      /\ 12 - 5 = 7 /\ 12 - 4 = 8 /\ 12 - 3 = 9 /\ 12 - 2 = 10 /\ 12 - 1 = 11
  OBVIOUS
<1> QED BY <1>1, <1>2, <1>3

(* One turn of a loop is done for one class, and nothing else is.          *)
TurnOf(n) ==
  /\ Len(loops) = n /\ Len(loops') \in {n, n - 1} /\ index \in DOMAIN program
  /\ OnCourse' /\ program' = program /\ table' = table
  /\ \A q \in 1 .. 11 : \A i \in DOMAIN program : Past(q, i)' <=> Past(q, i) \/ (q = n /\ i = index)
  /\ \A q \in 1 .. 11 : q # n => NamesPast(q)' = NamesPast(q)
  /\ NamesPast(n)' = NamesPast(n) \cup {Current}
  /\ Current \notin NamesPast(n)

LEMMA TurnIs ==
  ASSUME OnCourse, TableTells(program, table), NEW loop, Turn(loop)
  PROVE  \E n \in 1 .. 11 : Loops[12 - n] = loop /\ TurnOf(n)
<1> DEFINE l == Len(program)
<1>0. PICK n : n \in Nat /\ n = Len(loops)
  <2>1. loops \in Seq(Range(Loops))
    BY DEF OnCourse
  <2>2. Len(loops) \in Nat
    BY <2>1
  <2> QED BY <2>2
<1>1. /\ DOMAIN program = 1 .. l /\ l \in Nat /\ index \in 1 .. l
      /\ program' = program /\ table' = table
  BY DEF OnCourse, TableTells, Turn
<1>2. n \in 1 .. 11 /\ loops[1] = loop
  <2>1. loops \in Seq(Range(Loops)) /\ n <= 11 /\ loops # <<>> /\ Head(loops) = loop
    BY <1>0 DEF OnCourse, Turn
  <2>2. ASSUME NEW S, NEW s \in Seq(S), s # <<>> PROVE Head(s) = s[1] /\ Len(s) # 0
    <3>1. Len(s) # 0
      BY <2>2, EmptySeq
    <3>2. Head(s) = s[1]
      BY <2>2, HeadTailProperties
    <3> QED BY <3>1, <3>2
  <2>3. Head(loops) = loops[1] /\ Len(loops) # 0
    BY <2>1, <2>2
  <2>4. n <= 11 /\ n # 0
    BY <1>0, <2>1, <2>3
  <2>5. \A x \in Nat : x <= 11 /\ x # 0 => x \in 1 .. 11
    OBVIOUS
  <2>6. n \in 1 .. 11
    BY <1>0, <2>4, <2>5
  <2> QED BY <2>1, <2>3, <2>6
<1>3. Loops[12 - n] = loop
  <2>1. 1 \in 1 .. n /\ (11 - n) + 1 = 12 - n
    BY <1>2
  <2> QED BY <1>0, <1>2, <2>1 DEF OnCourse
<1>4. \/ index < l /\ index' = index + 1 /\ loops' = loops
      \/ index = l /\ index' = 1 /\ loops' = Tail(loops)
  BY DEF Turn
<1>5. OnCourse'
  <2>1. CASE index < l /\ index' = index + 1 /\ loops' = loops
    BY <1>1, <2>1 DEF OnCourse
  <2>2. CASE index = l /\ index' = 1 /\ loops' = Tail(loops)
    <3>1. /\ loops' \in Seq(Range(Loops)) /\ Len(loops') = n - 1
          /\ \A k \in 1 .. n - 1 : loops'[k] = loops[k + 1]
      BY <1>0, <1>2, <2>2 DEF OnCourse
    <3>2. \A k \in 1 .. Len(loops') : loops'[k] = Loops[(11 - Len(loops')) + k]
      <4> TAKE k \in 1 .. Len(loops')
      <4>1. k + 1 \in 1 .. n /\ (11 - n) + (k + 1) = (11 - Len(loops')) + k /\ k \in 1 .. n - 1
        BY <1>2, <3>1
      <4>2. loops[k + 1] = Loops[(11 - n) + (k + 1)]
        BY <1>0, <4>1 DEF OnCourse
      <4> QED BY <3>1, <4>1, <4>2
    <3>3. index' \in 1 .. Len(program') /\ Len(loops') <= 11
      BY <1>1, <1>2, <2>2, <3>1
    <3> QED BY <3>1, <3>2, <3>3 DEF OnCourse
  <2> QED BY <1>4, <2>1, <2>2
<1>6. ASSUME NEW q \in 1 .. 11, NEW i \in DOMAIN program
      PROVE  Past(q, i)' <=> Past(q, i) \/ (q = n /\ i = index)
  <2>1. CASE index < l /\ index' = index + 1 /\ loops' = loops
    BY <1>0, <1>1, <1>2, <2>1 DEF Past
  <2>2. CASE index = l /\ index' = 1 /\ loops' = Tail(loops)
    <3>1. Len(loops') = n - 1
      BY <1>0, <1>2, <2>2 DEF OnCourse
    <3> QED BY <1>0, <1>1, <1>2, <2>2, <3>1 DEF Past
  <2> QED BY <1>4, <2>1, <2>2
<1>7. \A q \in 1 .. 11 : q # n => NamesPast(q)' = NamesPast(q)
  BY <1>1, <1>6 DEF NamesPast
<1>8. NamesPast(n)' = NamesPast(n) \cup {Current}
  <2>1. \A x : x \in NamesPast(n)' <=> \E i \in DOMAIN program : Past(n, i)' /\ x = program[i].name
    BY <1>1 DEF NamesPast
  <2>2. \A x : x \in NamesPast(n) <=> \E i \in DOMAIN program : Past(n, i) /\ x = program[i].name
    BY DEF NamesPast
  <2>3. \A i \in DOMAIN program : Past(n, i)' <=> Past(n, i) \/ i = index
    BY <1>2, <1>6
  <2>4. index \in DOMAIN program
    BY <1>1
  <2>5. \A x : x \in NamesPast(n)' <=> x \in NamesPast(n) \/ x = program[index].name
    BY <2>1, <2>2, <2>3, <2>4
  <2> QED BY <2>5 DEF Current
<1>9. Current \notin NamesPast(n)
  <2>1. \A i \in DOMAIN program : program[i].name = Current => i = index
    BY <1>1 DEF TableTells, Current
  <2>2. ~ Past(n, index)
    BY <1>0, <1>1 DEF Past
  <2> QED BY <2>1, <2>2 DEF NamesPast
<1>10. Len(loops') \in {n, n - 1}
  <2>1. loops \in Seq(Range(Loops)) /\ loops # <<>>
    BY DEF OnCourse, Turn
  <2>2. Len(Tail(loops)) = n - 1
    BY <1>0, <2>1
  <2> QED BY <1>0, <1>4, <2>2
<1>11. TurnOf(n)
  BY <1>0, <1>1, <1>5, <1>6, <1>7, <1>8, <1>9, <1>10 DEF TurnOf
<1> QED BY <1>2, <1>3, <1>11

-----------------------------------------------------------------------------
(* The functions of the methods: which the module holds when those of some *)
(* of the classes are emitted, and what each does.                         *)
Serves(ordered, tab, fs, c, m) ==
  LET f == fs[<<c, m.name>>] IN
  /\ f.formals = m.formals /\ f.ret = m.ret
  /\ HasMember(tab[c].methods, m.name) => f.does # "call"
  /\ f.does = "call" => \E a \in Range(Tail(Ancestry(tab, c))) :
                          f.to = <<a, m.name>> /\ <<a, m.name>> \in DOMAIN fs
  /\ ordered /\ ~ HasMember(tab[c].methods, m.name) =>
       f.does = "call" /\ f.to = <<tab[c].parent, m.name>>

Emitted(ordered, tab, done, fs) ==
  /\ done \subseteq DOMAIN tab
  /\ DOMAIN fs \subseteq {EntryPoint} \cup ((DOMAIN tab) \X (MethodName \cup {new, init}))
  /\ \A c \in DOMAIN tab, n \in MethodName :
       <<c, n>> \in DOMAIN fs <=> c \in done /\ HasMember(CollectMethods(tab, c), n)
  /\ \A c \in done : \A i \in DOMAIN CollectMethods(tab, c) :
       Serves(ordered, tab, fs, c, CollectMethods(tab, c)[i])

LEMMA ItsName ==
  ASSUME NEW ms \in Seq(Method), NEW i \in DOMAIN ms
  PROVE  ms[i].name \in MethodName /\ HasMember(ms, ms[i].name)
<1>1. ms[i] \in Method
  OBVIOUS
<1>2. ms[i].name \in MethodName
  BY <1>1 DEF Method
<1> QED BY <1>2 DEF HasMember

LEMMA RuntimeIsEmitted ==
  ASSUME NEW ordered, NEW tab, Hierarchy(tab)
  PROVE  Emitted(ordered, tab, {Object}, Runtime)
<1>1. /\ Object \in DOMAIN tab /\ tab[Object].methods = Builtins
      /\ CollectMethods(tab, Object) = Builtins
  <2>1. CollectMethods(tab, Object) = Builtins
    BY MethodsOfClass
  <2>2. Object \in DOMAIN tab /\ tab[Object] = ObjectInfo
    BY DEF Hierarchy, Lineage
  <2> QED BY <2>1, <2>2 DEF ObjectInfo
<1>2. /\ DOMAIN Builtins = 1 .. Len(Builtins) /\ Builtins \in Seq(Method)
      /\ \A i \in DOMAIN Builtins : Builtins[i].name \in MethodName
  <2>1. Builtins \in Seq(Method)
    BY NamesAssumption
  <2>2. DOMAIN Builtins = 1 .. Len(Builtins)
    BY <2>1
  <2> QED BY <2>1, <2>2, ItsName
<1>3. DOMAIN Runtime = {<<Object, new>>, <<Object, init>>}
                          \cup {<<Object, Builtins[i].name>> : i \in DOMAIN Builtins}
  BY DEF Runtime
<1>4. DOMAIN Runtime \subseteq {EntryPoint} \cup ((DOMAIN tab) \X (MethodName \cup {new, init}))
  <2>1. \A n \in MethodName \cup {new, init} :
          <<Object, n>> \in (DOMAIN tab) \X (MethodName \cup {new, init})
    BY <1>1
  <2> QED BY <1>2, <1>3, <2>1
<1>5. ASSUME NEW c \in DOMAIN tab, NEW n \in MethodName
      PROVE  <<c, n>> \in DOMAIN Runtime <=>
               c \in {Object} /\ HasMember(CollectMethods(tab, c), n)
  <2>1. n # new /\ n # init
    BY ConstructorNames
  <2>2. <<c, n>> \in DOMAIN Runtime <=>
          c = Object /\ \E i \in DOMAIN Builtins : Builtins[i].name = n
    BY <1>3, <2>1
  <2> QED BY <1>1, <2>2 DEF HasMember
<1>6. ASSUME NEW i \in DOMAIN Builtins
      PROVE  Serves(ordered, tab, Runtime, Object, Builtins[i])
  <2> DEFINE m == Builtins[i]
             k == <<Object, m.name>>
  <2>1. m.name \notin {new, init} /\ k \in DOMAIN Runtime
    BY <1>2, <1>3, ConstructorNames
  <2>2. HasMember(Builtins, m.name) /\ GetMember(Builtins, m.name) = m
    BY <1>2, FoundOnce, BuiltinsAssumption
  <2>3. Runtime[k] = Function("external", Null, GetMember(Builtins, m.name))
    BY <2>1 DEF Runtime
  <2> HIDE DEF m
  <2>4. /\ Runtime[k].does = "external"
        /\ Runtime[k].formals = m.formals /\ Runtime[k].ret = m.ret
    BY <2>2, <2>3 DEF Function
  <2>5. HasMember(tab[Object].methods, m.name)
    BY <1>1, <2>2
  <2>6. Serves(ordered, tab, Runtime, Object, m)
    BY <2>4, <2>5 DEF Serves
  <2> QED BY <2>6 DEF m
<1> QED BY <1>1, <1>4, <1>5, <1>6 DEF Emitted

(* A step that leaves the functions of the methods alone.                  *)
SameMethods(tab, fs, gs) ==
  /\ DOMAIN fs \subseteq DOMAIN gs
  /\ DOMAIN gs \subseteq {EntryPoint} \cup ((DOMAIN tab) \X (MethodName \cup {new, init}))
  /\ \A c \in DOMAIN tab, n \in MethodName :
       /\ <<c, n>> \in DOMAIN gs => <<c, n>> \in DOMAIN fs
       /\ <<c, n>> \in DOMAIN fs => gs[<<c, n>>] = fs[<<c, n>>]

LEMMA EmittedStays ==
  ASSUME NEW ordered, NEW tab, NEW done, NEW fs, NEW gs, Hierarchy(tab),
         Emitted(ordered, tab, done, fs), SameMethods(tab, fs, gs)
  PROVE  Emitted(ordered, tab, done, gs)
<1>1. ASSUME NEW c \in done, NEW i \in DOMAIN CollectMethods(tab, c)
      PROVE  Serves(ordered, tab, gs, c, CollectMethods(tab, c)[i])
  <2> DEFINE m == CollectMethods(tab, c)[i]
  <2>1. c \in DOMAIN tab /\ Serves(ordered, tab, fs, c, m)
    BY DEF Emitted
  <2>2. m.name \in MethodName /\ HasMember(CollectMethods(tab, c), m.name)
    <3>1. CollectMethods(tab, c) \in Seq(Method)
      BY <2>1, MethodsOfClass
    <3> QED BY <3>1, ItsName
  <2> HIDE DEF m
  <2>3. <<c, m.name>> \in DOMAIN fs
    BY <2>1, <2>2 DEF Emitted
  <2>4. gs[<<c, m.name>>] = fs[<<c, m.name>>]
    BY <2>1, <2>2, <2>3 DEF SameMethods
  <2>5. Serves(ordered, tab, gs, c, m)
    BY <2>1, <2>4 DEF Serves, SameMethods
  <2> QED BY <2>5 DEF m
<1>2. ASSUME NEW c \in DOMAIN tab, NEW n \in MethodName
      PROVE  <<c, n>> \in DOMAIN gs <=> c \in done /\ HasMember(CollectMethods(tab, c), n)
  BY DEF Emitted, SameMethods
<1> QED BY <1>1, <1>2 DEF Emitted, SameMethods

(* One more function that is not a method's.                               *)
LEMMA OneMoreIsSame ==
  ASSUME NEW ordered, NEW tab, NEW done, Emitted(ordered, tab, done, functions),
         NEW k \in {EntryPoint} \cup ((DOMAIN tab) \X {new, init}), NEW f
  PROVE  /\ SameMethods(tab, functions, WithFunction(k, f))
         /\ DOMAIN WithFunction(k, f) = DOMAIN functions \cup {k}
         /\ \A x \in DOMAIN WithFunction(k, f) :
              WithFunction(k, f)[x] = IF x = k THEN f ELSE functions[x]
<1> DEFINE gs == WithFunction(k, f)
<1>1. gs = [x \in DOMAIN functions \cup {k} |-> IF x = k THEN f ELSE functions[x]]
  BY DEF WithFunction, WithFunctions
<1>2. \A c \in DOMAIN tab, n \in MethodName : <<c, n>> # k
  <2>1. CASE k = EntryPoint
    <3>1. ASSUME NEW c, NEW n PROVE <<c, n>> # <<main>>
      <4>1. Len(<<c, n>>) = 2 /\ Len(<<main>>) = 1
        OBVIOUS
      <4> QED BY <4>1
    <3> QED BY <2>1, <3>1 DEF EntryPoint
  <2>2. CASE k \in (DOMAIN tab) \X {new, init}
    <3>1. k[2] \in {new, init}
      BY <2>2
    <3> QED BY <3>1, ConstructorNames
  <2> QED BY <2>1, <2>2
<1> HIDE DEF gs
<1>3. DOMAIN gs = DOMAIN functions \cup {k}
  BY <1>1
<1>4. \A x \in DOMAIN gs : gs[x] = IF x = k THEN f ELSE functions[x]
  BY <1>1
<1>5. DOMAIN gs \subseteq {EntryPoint} \cup ((DOMAIN tab) \X (MethodName \cup {new, init}))
  <2>1. k \in {EntryPoint} \cup ((DOMAIN tab) \X (MethodName \cup {new, init}))
    <3>1. (DOMAIN tab) \X {new, init} \subseteq (DOMAIN tab) \X (MethodName \cup {new, init})
      OBVIOUS
    <3> QED BY <3>1
  <2> QED BY <1>3, <2>1 DEF Emitted
<1>6. SameMethods(tab, functions, gs)
  BY <1>2, <1>3, <1>4, <1>5 DEF SameMethods
<1> QED BY <1>3, <1>4, <1>6 DEF gs

LEMMA TheOneNamed ==
  ASSUME NEW ms \in Seq(Method), ~ Repeats(ms), NEW m \in Range(ms)
  PROVE  /\ m \in Method /\ m.name \in MethodName /\ HasMember(ms, m.name)
         /\ (CHOOSE x \in Range(ms) : x.name = m.name) = m
         /\ \A x \in Range(ms) : x.name = m.name => x = m
<1>1. DOMAIN ms = 1 .. Len(ms) /\ Len(ms) \in Nat
  OBVIOUS
<1>2. PICK i \in DOMAIN ms : m = ms[i]
  BY DEF Range
<1>3. m.name \in MethodName /\ HasMember(ms, m.name)
  BY <1>2, ItsName
<1>4. \A x \in Range(ms) : x.name = m.name => x = m
  <2> SUFFICES ASSUME NEW j \in DOMAIN ms, ms[j].name = m.name PROVE ms[j] = m
    BY DEF Range
  <2>1. ~ (i < j) /\ ~ (j < i)
    BY <1>2 DEF Repeats
  <2>2. i = j
    BY <1>1, <2>1
  <2> QED BY <1>2, <2>2
<1>5. m \in Method
  BY <1>2
<1> QED BY <1>3, <1>4, <1>5

(* What an overriding class has of a name is what it declares.             *)
LEMMA OwnComesFirst ==
  ASSUME NEW tab, Hierarchy(tab), NEW c \in DOMAIN tab \ {Object},
         NEW m \in Range(CollectMethods(tab, c))
  PROVE  /\ HasMember(tab[c].methods, m.name) => m \in Range(tab[c].methods)
         /\ ~ HasMember(tab[c].methods, m.name) => m \in Range(CollectMethods(tab, tab[c].parent))
<1> DEFINE all == CollectMethods(tab, c)
           own == tab[c].methods
           above == CollectMethods(tab, tab[c].parent)
<1>1. Overrides(all, above, own) /\ all \in Seq(Method)
  BY MethodsOfClass
<1>2. own \in Seq(Method) /\ above \in Seq(Method)
  <2>1. tab[c].parent \in DOMAIN tab /\ own \in Seq(Method)
    BY DEF Hierarchy, Lineage
  <2> QED BY <2>1, MethodsOfClass
<1> HIDE DEF all, own, above
<1>3. PICK i : i \in 1 .. Len(all) /\ m = all[i]
  <2>1. DOMAIN all = 1 .. Len(all)
    BY <1>1
  <2> QED BY <2>1 DEF Range, all
<1>4. CASE \E k \in DOMAIN own : m = own[k]
  <2>1. m \in Range(own) /\ HasMember(own, m.name)
    BY <1>4 DEF Range, HasMember
  <2> QED BY <2>1 DEF own
<1>5. CASE i <= Len(above) /\ m = above[i] /\ ~ HasMember(own, m.name)
  <2>1. i \in DOMAIN above
    BY <1>2, <1>3, <1>5
  <2>2. m \in Range(above)
    BY <1>5, <2>1 DEF Range
  <2> QED BY <1>5, <2>2 DEF own, above
<1>6. \/ \E k \in DOMAIN own : m = own[k]
      \/ i <= Len(above) /\ m = above[i] /\ ~ HasMember(own, m.name)
  BY <1>1, <1>3 DEF Overrides
<1> QED BY <1>4, <1>5, <1>6

(* The names of the functions a class gets are those of all its methods.   *)
LEMMA FunctionsForIs ==
  ASSUME NEW ordered, NEW done, Hierarchy(table), Emitted(ordered, table, done, functions),
         NEW c \in DOMAIN table \ {Object}, c \notin done,
         NEW fs, fs = FunctionsFor(c, Range(table[c].methods), Range(CollectMethods(table, c)))
  PROVE  /\ DOMAIN fs = {<<c, m.name>> : m \in Range(CollectMethods(table, c))}
         /\ \A m \in Range(CollectMethods(table, c)) :
              fs[<<c, m.name>>] = IF HasMember(table[c].methods, m.name)
                                  THEN Function("body", Null, m) ELSE Thunk(c, m)
<1> DEFINE all == Range(CollectMethods(table, c))
           own == Range(table[c].methods)
           Named(ms, n) == CHOOSE m \in ms : m.name = n
<1>1. /\ table[c].methods \in Seq(Method) /\ ~ Repeats(table[c].methods)
      /\ CollectMethods(table, c) \in Seq(Method) /\ ~ Repeats(CollectMethods(table, c))
  BY MethodsOfClass DEF Hierarchy, Lineage
<1>2. \A m \in all : /\ m.name \in MethodName /\ Named(all, m.name) = m
                     /\ HasMember(CollectMethods(table, c), m.name)
  BY <1>1, TheOneNamed
<1>3. \A m \in own : Named(own, m.name) = m /\ HasMember(table[c].methods, m.name)
  BY <1>1, TheOneNamed
<1>4. ASSUME NEW m \in own PROVE \E x \in all : x.name = m.name
  <2>1. HasMember(CollectMethods(table, c), m.name)
    BY <1>3, MethodsOfClass
  <2> QED BY <2>1 DEF HasMember, Range
<1>5. \A m \in all : <<c, m.name>> \notin DOMAIN functions
  BY <1>2 DEF Emitted
<1>6. \A n : HasMember(table[c].methods, n) <=> \E m \in own : m.name = n
  BY DEF HasMember, Range
<1>7. \A m \in all : HasMember(table[c].methods, m.name) => m \in own
  BY OwnComesFirst
<1>8. fs = [k \in {<<c, m.name>> : m \in own \cup all} |->
              IF \E m \in own : m.name = k[2] THEN Function("body", Null, Named(own, k[2]))
              ELSE IF k \in DOMAIN functions THEN functions[k]
              ELSE Thunk(c, Named(all, k[2]))]
  BY DEF FunctionsFor
<1> HIDE DEF all, own
<1>9. DOMAIN fs = {<<c, m.name>> : m \in all}
  <2>1. DOMAIN fs = {<<c, m.name>> : m \in own \cup all}
    BY <1>8
  <2> QED BY <1>4, <2>1
<1>10. ASSUME NEW m \in all
       PROVE  fs[<<c, m.name>>] = IF HasMember(table[c].methods, m.name)
                                  THEN Function("body", Null, m) ELSE Thunk(c, m)
  <2> DEFINE k == <<c, m.name>>
  <2>1. k[2] = m.name /\ k \in {<<c, x.name>> : x \in own \cup all}
    OBVIOUS
  <2>2. fs[k] = IF \E x \in own : x.name = k[2] THEN Function("body", Null, Named(own, k[2]))
                ELSE IF k \in DOMAIN functions THEN functions[k]
                ELSE Thunk(c, Named(all, k[2]))
    BY <1>8, <2>1
  <2>3. k \notin DOMAIN functions
    BY <1>5
  <2> HIDE DEF k
  <2>4. CASE HasMember(table[c].methods, m.name)
    <3>1. Named(own, m.name) = m
      BY <1>3, <1>7, <2>4
    <3>2. \E x \in own : x.name = k[2]
      BY <1>6, <2>1, <2>4
    <3>3. fs[k] = Function("body", Null, m)
      BY <2>1, <2>2, <3>1, <3>2
    <3> QED BY <2>4, <3>3 DEF k
  <2>5. CASE ~ HasMember(table[c].methods, m.name)
    <3>1. ~ \E x \in own : x.name = k[2]
      BY <1>6, <2>1, <2>5
    <3> HIDE DEF Named
    <3>2. Named(all, k[2]) = m
      BY <1>2, <2>1
    <3>3. fs[k] = Thunk(c, Named(all, k[2]))
      BY <2>2, <2>3, <3>1
    <3>4. fs[k] = Thunk(c, m)
      BY <3>2, <3>3
    <3> QED BY <2>5, <3>4 DEF k
  <2> QED BY <2>4, <2>5
<1> QED BY <1>9, <1>10 DEF all

(* A thunk goes to the nearest class above that the module has the method  *)
(* of, which is the parent if its functions are emitted.                   *)
LEMMA ThunkIs ==
  ASSUME NEW ordered, NEW done, Hierarchy(table), Emitted(ordered, table, done, functions),
         NEW c \in DOMAIN table \ {Object},
         NEW m \in Range(CollectMethods(table, c)), ~ HasMember(table[c].methods, m.name)
  PROVE  LET f == Thunk(c, m) IN
         /\ f.formals = m.formals /\ f.ret = m.ret /\ f.does # "body"
         /\ f.does = "call" => \E a \in Range(Tail(Ancestry(table, c))) :
                                 f.to = <<a, m.name>> /\ <<a, m.name>> \in DOMAIN functions
         /\ table[c].parent \in done => f.does = "call" /\ f.to = <<table[c].parent, m.name>>
<1> DEFINE p == table[c].parent
           way == Ancestry(table, p)
           n == m.name
           real == Provider(way, n)
           f == Thunk(c, m)
<1>1. p \in DOMAIN table /\ Tail(Ancestry(table, c)) = way
  BY AncestryOfClass, ItsLineage
<1>2. way \in Seq(DOMAIN table) /\ Len(way) \in Nat \ {0} /\ way[1] = p
  BY <1>1, AncestryIs, ItsLineage
<1>3. f = Function(IF real = Null THEN "unreachable" ELSE "call", real, m)
  BY <1>1 DEF Thunk
<1>4. n \in MethodName /\ HasMember(CollectMethods(table, p), n)
  <2>1. /\ CollectMethods(table, p) \in Seq(Method) /\ ~ Repeats(CollectMethods(table, p))
    BY <1>1, MethodsOfClass
  <2>2. m \in Range(CollectMethods(table, p))
    BY OwnComesFirst
  <2> QED BY <2>1, <2>2, TheOneNamed
<1> HIDE DEF way, f, p, n
<1>5. ASSUME Having(way, n) # {}
      PROVE  \E a \in Range(way) : real = <<a, n>> /\ <<a, n>> \in DOMAIN functions
  <2>1. PICK b \in Range(way) : b \in Having(way, n)
    BY <1>5 DEF Having
  <2>2. PICK i \in DOMAIN way : FirstOf(way, Having(way, n)) = way[i] /\ way[i] \in Having(way, n)
    BY <1>2, <2>1, FirstOfIs
  <2> QED BY <1>5, <2>2 DEF Provider, Having
<1>6. Having(way, n) = {} => real = Null
  BY DEF Provider
<1>7. ASSUME p \in done PROVE real = <<p, n>>
  <2>1. <<p, n>> \in DOMAIN functions
    BY <1>1, <1>4, <1>7 DEF Emitted
  <2>2. p \in Having(way, n) /\ way # <<>>
    <3>1. 1 \in DOMAIN way
      BY <1>2
    <3>2. p \in Range(way)
      BY <1>2, <3>1 DEF Range
    <3> QED BY <1>2, <2>1, <3>2 DEF Having
  <2>3. FirstOf(way, Having(way, n)) = p
    BY <1>2, <2>2, FirstOfHead
  <2> QED BY <2>2, <2>3 DEF Provider
<1>8. /\ f.formals = m.formals /\ f.ret = m.ret /\ f.to = real
      /\ f.does = IF real = Null THEN "unreachable" ELSE "call"
  BY <1>3 DEF Function
<1>9. \A a : <<a, n>> # Null
  BY DEF Null
<1> HIDE DEF real
<1>10. f.does = "call" => \E a \in Range(way) : f.to = <<a, n>> /\ <<a, n>> \in DOMAIN functions
  BY <1>5, <1>6, <1>8
<1>11. p \in done => f.does = "call" /\ f.to = <<p, n>>
  BY <1>7, <1>8, <1>9
<1>12. f.does # "body"
  BY <1>8
<1> QED BY <1>1, <1>8, <1>10, <1>11, <1>12 DEF f, p, n, way

LEMMA OneMoreIsEmitted ==
  ASSUME NEW ordered, NEW done, Hierarchy(table), Emitted(ordered, table, done, functions),
         NEW c \in DOMAIN table \ {Object}, c \notin done,
         ordered => table[c].parent \in done,
         NEW gs, gs = WithFunctions(FunctionsFor(c, Range(table[c].methods),
                                                 Range(CollectMethods(table, c))))
  PROVE  /\ Emitted(ordered, table, done \cup {c}, gs)
         /\ DOMAIN functions \subseteq DOMAIN gs
<1> DEFINE all == CollectMethods(table, c)
           more == FunctionsFor(c, Range(table[c].methods), Range(all))
<1>1. /\ DOMAIN more = {<<c, m.name>> : m \in Range(all)}
      /\ \A m \in Range(all) :
           more[<<c, m.name>>] = IF HasMember(table[c].methods, m.name)
                                 THEN Function("body", Null, m) ELSE Thunk(c, m)
  BY FunctionsForIs
<1>2. gs = [x \in DOMAIN functions \cup DOMAIN more |->
              IF x \in DOMAIN more THEN more[x] ELSE functions[x]]
  BY DEF WithFunctions
<1> HIDE DEF more
<1>3. \A m \in Range(all) : m.name \in MethodName /\ HasMember(all, m.name)
  BY MethodsOfClass, TheOneNamed
<1>4. DOMAIN gs = DOMAIN functions \cup {<<c, m.name>> : m \in Range(all)}
  BY <1>1, <1>2
<1>5. \A m \in Range(all) : <<c, m.name>> \notin DOMAIN functions
  BY <1>3 DEF Emitted
<1>6. \A m \in Range(all) :
        gs[<<c, m.name>>] = IF HasMember(table[c].methods, m.name)
                            THEN Function("body", Null, m) ELSE Thunk(c, m)
  BY <1>1, <1>2
<1>7. \A x \in DOMAIN functions : gs[x] = functions[x]
  <2>1. \A x \in DOMAIN functions : x \notin DOMAIN more
    BY <1>1, <1>5
  <2> QED BY <1>2, <2>1
<1>8. ASSUME NEW a \in DOMAIN table, NEW n \in MethodName
      PROVE  <<a, n>> \in DOMAIN gs <=>
               a \in done \cup {c} /\ HasMember(CollectMethods(table, a), n)
  <2>1. <<a, n>> \in DOMAIN functions <=> a \in done /\ HasMember(CollectMethods(table, a), n)
    BY DEF Emitted
  <2>2. <<a, n>> \in {<<c, m.name>> : m \in Range(all)} <=> a = c /\ HasMember(all, n)
    <3>1. HasMember(all, n) <=> \E m \in Range(all) : m.name = n
      BY DEF HasMember, Range
    <3> HIDE DEF all
    <3> QED BY <3>1
  <2> QED BY <1>4, <2>1, <2>2
<1>9. ASSUME NEW m \in Range(all) PROVE Serves(ordered, table, gs, c, m)
  <2>1. CASE HasMember(table[c].methods, m.name)
    <3>1. gs[<<c, m.name>>] = Function("body", Null, m)
      BY <1>6, <2>1
    <3>2. /\ gs[<<c, m.name>>].formals = m.formals /\ gs[<<c, m.name>>].ret = m.ret
          /\ gs[<<c, m.name>>].does = "body"
      BY <3>1 DEF Function
    <3> QED BY <2>1, <3>2 DEF Serves
  <2>2. CASE ~ HasMember(table[c].methods, m.name)
    <3> DEFINE f == gs[<<c, m.name>>]
    <3>1. f = Thunk(c, m)
      BY <1>6, <2>2
    <3>2. /\ f.formals = m.formals /\ f.ret = m.ret
          /\ f.does = "call" => \E a \in Range(Tail(Ancestry(table, c))) :
                                  f.to = <<a, m.name>> /\ <<a, m.name>> \in DOMAIN functions
          /\ table[c].parent \in done => f.does = "call" /\ f.to = <<table[c].parent, m.name>>
      <4>1. LET t == Thunk(c, m) IN
            /\ t.formals = m.formals /\ t.ret = m.ret /\ t.does # "body"
            /\ t.does = "call" => \E a \in Range(Tail(Ancestry(table, c))) :
                                    t.to = <<a, m.name>> /\ <<a, m.name>> \in DOMAIN functions
            /\ table[c].parent \in done => t.does = "call" /\ t.to = <<table[c].parent, m.name>>
        BY <2>2, ThunkIs
      <4> HIDE DEF f
      <4> QED BY <3>1, <4>1
    <3> HIDE DEF f
    <3> QED BY <1>4, <2>2, <3>2 DEF Serves, f
  <2> QED BY <2>1, <2>2
<1>10. ASSUME NEW a \in done, NEW i \in DOMAIN CollectMethods(table, a)
       PROVE  Serves(ordered, table, gs, a, CollectMethods(table, a)[i])
  <2> DEFINE m == CollectMethods(table, a)[i]
  <2>1. a \in DOMAIN table /\ Serves(ordered, table, functions, a, m)
    BY DEF Emitted
  <2>2. m.name \in MethodName /\ HasMember(CollectMethods(table, a), m.name)
    <3>1. CollectMethods(table, a) \in Seq(Method)
      BY <2>1, MethodsOfClass
    <3> QED BY <3>1, ItsName
  <2> HIDE DEF m
  <2>3. gs[<<a, m.name>>] = functions[<<a, m.name>>]
    BY <1>7, <2>1, <2>2 DEF Emitted
  <2>4. Serves(ordered, table, gs, a, m)
    BY <1>4, <2>1, <2>3 DEF Serves
  <2> QED BY <2>4 DEF m
<1>11. \A i \in DOMAIN all : all[i] \in Range(all)
  BY DEF Range
<1>12. DOMAIN gs \subseteq {EntryPoint} \cup ((DOMAIN table) \X (MethodName \cup {new, init}))
  BY <1>3, <1>4 DEF Emitted
<1>13. done \cup {c} \subseteq DOMAIN table
  BY DEF Emitted
<1>14. ASSUME NEW a \in done \cup {c}, NEW i \in DOMAIN CollectMethods(table, a)
       PROVE  Serves(ordered, table, gs, a, CollectMethods(table, a)[i])
  <2>1. CASE a = c
    BY <1>9, <1>11, <2>1
  <2>2. CASE a \in done
    BY <1>10, <2>2
  <2> QED BY <2>1, <2>2
<1>15. Emitted(ordered, table, done \cup {c}, gs)
  BY <1>8, <1>12, <1>13, <1>14 DEF Emitted
<1> QED BY <1>4, <1>15

LEMMA TurnsAre ==
  ASSUME OnCourse, TableTells(program, table)
  PROVE  /\ Turn("vtable types") => TurnOf(11)
         /\ Turn("class types") => TurnOf(10)
         /\ Turn("slots") => TurnOf(9)
         /\ Turn("layouts") => TurnOf(8)
         /\ Turn("inits") => TurnOf(7)
         /\ Turn("news") => TurnOf(6)
         /\ Turn("methods") => TurnOf(5)
         /\ Turn("vtables") => TurnOf(4)
         /\ Turn("init bodies") => TurnOf(3)
         /\ Turn("new bodies") => TurnOf(2)
<1>1. ASSUME NEW loop, Turn(loop), NEW k \in 1 .. 11, \A n \in 1 .. 11 : Loops[12 - n] = loop => n = k
      PROVE  TurnOf(k)
  <2>1. PICK n \in 1 .. 11 : Loops[12 - n] = loop /\ TurnOf(n)
    BY <1>1, TurnIs
  <2>2. n = k
    BY <1>1, <2>1
  <2> QED BY <2>1, <2>2
<1>2. \A n \in 1 .. 11 :
        /\ Loops[12 - n] = "vtable types" => n = 11
        /\ Loops[12 - n] = "class types" => n = 10
        /\ Loops[12 - n] = "slots" => n = 9
        /\ Loops[12 - n] = "layouts" => n = 8
        /\ Loops[12 - n] = "inits" => n = 7
        /\ Loops[12 - n] = "news" => n = 6
        /\ Loops[12 - n] = "methods" => n = 5
        /\ Loops[12 - n] = "vtables" => n = 4
        /\ Loops[12 - n] = "init bodies" => n = 3
        /\ Loops[12 - n] = "new bodies" => n = 2
  BY WhichLoop
<1>3. Turn("vtable types") => TurnOf(11)
  <2>1. 11 \in 1 .. 11
    OBVIOUS
  <2>2. \A n \in 1 .. 11 : Loops[12 - n] = "vtable types" => n = 11
    BY <1>2, Zenon
  <2> QED BY <1>1, <2>1, <2>2
<1>4. Turn("class types") => TurnOf(10)
  <2>1. 10 \in 1 .. 11
    OBVIOUS
  <2>2. \A n \in 1 .. 11 : Loops[12 - n] = "class types" => n = 10
    BY <1>2, Zenon
  <2> QED BY <1>1, <2>1, <2>2
<1>5. Turn("slots") => TurnOf(9)
  <2>1. 9 \in 1 .. 11
    OBVIOUS
  <2>2. \A n \in 1 .. 11 : Loops[12 - n] = "slots" => n = 9
    BY <1>2, Zenon
  <2> QED BY <1>1, <2>1, <2>2
<1>6. Turn("layouts") => TurnOf(8)
  <2>1. 8 \in 1 .. 11
    OBVIOUS
  <2>2. \A n \in 1 .. 11 : Loops[12 - n] = "layouts" => n = 8
    BY <1>2, Zenon
  <2> QED BY <1>1, <2>1, <2>2
<1>7. Turn("inits") => TurnOf(7)
  <2>1. 7 \in 1 .. 11
    OBVIOUS
  <2>2. \A n \in 1 .. 11 : Loops[12 - n] = "inits" => n = 7
    BY <1>2, Zenon
  <2> QED BY <1>1, <2>1, <2>2
<1>8. Turn("news") => TurnOf(6)
  <2>1. 6 \in 1 .. 11
    OBVIOUS
  <2>2. \A n \in 1 .. 11 : Loops[12 - n] = "news" => n = 6
    BY <1>2, Zenon
  <2> QED BY <1>1, <2>1, <2>2
<1>9. Turn("methods") => TurnOf(5)
  <2>1. 5 \in 1 .. 11
    OBVIOUS
  <2>2. \A n \in 1 .. 11 : Loops[12 - n] = "methods" => n = 5
    BY <1>2, Zenon
  <2> QED BY <1>1, <2>1, <2>2
<1>10. Turn("vtables") => TurnOf(4)
  <2>1. 4 \in 1 .. 11
    OBVIOUS
  <2>2. \A n \in 1 .. 11 : Loops[12 - n] = "vtables" => n = 4
    BY <1>2, Zenon
  <2> QED BY <1>1, <2>1, <2>2
<1>11. Turn("init bodies") => TurnOf(3)
  <2>1. 3 \in 1 .. 11
    OBVIOUS
  <2>2. \A n \in 1 .. 11 : Loops[12 - n] = "init bodies" => n = 3
    BY <1>2, Zenon
  <2> QED BY <1>1, <2>1, <2>2
<1>12. Turn("new bodies") => TurnOf(2)
  <2>1. 2 \in 1 .. 11
    OBVIOUS
  <2>2. \A n \in 1 .. 11 : Loops[12 - n] = "new bodies" => n = 2
    BY <1>2, Zenon
  <2> QED BY <1>1, <2>1, <2>2
<1> QED BY <1>3, <1>4, <1>5, <1>6, <1>7, <1>8, <1>9, <1>10, <1>11, <1>12

LEMMA LastTurnIs ==
  ASSUME OnCourse, TableTells(program, table), EmitEntryPoint
  PROVE  /\ Len(loops) = 1 /\ OnCourse' /\ Len(loops') = 0
         /\ program' = program /\ table' = table
         /\ \A q \in 2 .. 11 : NamesPast(q)' = NamesPast(q)
<1>1. loops \in Seq(Range(Loops)) /\ loops # <<>> /\ Head(loops) = "entry" /\ loops' = Tail(loops)
  BY DEF OnCourse, EmitEntryPoint
<1>2. PICK n : n \in Nat /\ n = Len(loops) /\ n # 0
  <2>1. Len(loops) \in Nat /\ Len(loops) # 0
    BY <1>1, EmptySeq
  <2> QED BY <2>1
<1>3. Len(loops') = n - 1 /\ loops' \in Seq(Range(Loops)) /\ loops[1] = "entry"
  <2>1. loops[1] = Head(loops)
    BY <1>1, HeadTailProperties
  <2> QED BY <1>1, <1>2, <2>1
<1>4. n \in 1 .. 11 /\ Loops[12 - n] = "entry"
  <2>1. n <= 11
    BY <1>2 DEF OnCourse
  <2>2. \A k \in Nat : k # 0 /\ k <= 11 => k \in 1 .. 11 /\ 1 \in 1 .. k /\ (11 - k) + 1 = 12 - k
    OBVIOUS
  <2>3. n \in 1 .. 11 /\ 1 \in 1 .. n /\ (11 - n) + 1 = 12 - n
    BY <1>2, <2>1, <2>2
  <2> QED BY <1>2, <1>3, <2>3 DEF OnCourse
<1>5. n = 1
  BY <1>4, WhichLoop
<1>6. program' = program /\ table' = table /\ index' = index
  BY DEF EmitEntryPoint
<1>7. OnCourse'
  <2>1. Len(loops') = 0
    BY <1>3, <1>5
  <2> QED BY <1>3, <1>6, <2>1 DEF OnCourse
<1>8. ASSUME NEW q \in 2 .. 11 PROVE NamesPast(q)' = NamesPast(q)
  <2>1. \A i : Past(q, i)' /\ Past(q, i)
    BY <1>2, <1>3, <1>5 DEF Past
  <2> QED BY <1>6, <2>1 DEF NamesPast
<1> QED BY <1>2, <1>3, <1>5, <1>6, <1>7, <1>8

-----------------------------------------------------------------------------
(* What holds between two turns: each loop has done its work for the       *)
(* classes that it is past, and for no other.                              *)
Course == TableTells(program, table) /\ Hierarchy(table) /\ OnCourse

SlotsFor ==
  DOMAIN slots = NamesPast(9) /\ \A c \in NamesPast(9) : slots[c] = CollectMethods(table, c)

LayoutFor ==
  DOMAIN layout = NamesPast(8) /\ \A c \in NamesPast(8) : layout[c] = CollectFields(table, c)

Constructors ==
  /\ \A c \in NamesPast(7) : <<c, init>> \in DOMAIN functions
  /\ \A c \in NamesPast(6) : <<c, new>> \in DOMAIN functions

NoBodyYet == Len(loops) > 5 => \A k \in DOMAIN functions : functions[k].does # "body"

Done == {Object} \cup NamesPast(5)

MethodsFor == Emitted(ParentsFirst, table, Done, functions)

VtableOf(tab, c) ==
  [i \in DOMAIN CollectMethods(tab, c) |-> <<c, CollectMethods(tab, c)[i].name>>]

VtablesFor ==
  /\ DOMAIN vtables = {Object} \cup NamesPast(4)
  /\ \A c \in NamesPast(4) : vtables[c] = VtableOf(table, c)

GenInv ==
  /\ Course /\ SlotsFor /\ LayoutFor /\ Constructors /\ NoBodyYet /\ MethodsFor /\ VtablesFor

LEMMA GenInvAtFirst == GenInit => GenInv
<1> SUFFICES ASSUME GenInit PROVE GenInv
  OBVIOUS
<1>1. TableTells(program, table) /\ Hierarchy(table)
  BY TableOfIs DEF GenInit
<1>2. Len(loops) = 11 /\ loops \in Seq(Range(Loops)) /\ loops = Loops /\ index = 1
  <2>1. loops = Loops /\ index = 1
    BY DEF GenInit
  <2>2. Len(Loops) = 11
    BY DEF Loops
  <2>3. Loops \in Seq(Range(Loops))
    <3>1. DOMAIN Loops = 1 .. 11 /\ Loops = [k \in 1 .. 11 |-> Loops[k]]
      BY DEF Loops
    <3>2. \A k \in 1 .. 11 : Loops[k] \in Range(Loops)
      BY <3>1 DEF Range
    <3>3. Loops \in [1 .. 11 -> Range(Loops)]
      BY <3>1, <3>2
    <3> QED BY <3>3, SeqDef
  <2> QED BY <2>1, <2>2, <2>3
<1>3. OnCourse
  <2>1. Len(program) \in Nat /\ Main \in {Object} \cup {program[i].name : i \in DOMAIN program}
    BY <1>1 DEF TableTells
  <2>2. DOMAIN program = 1 .. Len(program) /\ DOMAIN program # {}
    BY <1>1, <2>1, NamesAssumption DEF TableTells
  <2>3. index \in 1 .. Len(program)
    BY <1>2, <2>1, <2>2
  <2>4. \A k \in 1 .. 11 : loops[k] = Loops[(11 - 11) + k]
    BY <1>2
  <2> QED BY <1>2, <2>3, <2>4 DEF OnCourse
<1>4. \A n \in 1 .. 11 : NamesPast(n) = {}
  <2>1. DOMAIN program = 1 .. Len(program) /\ Len(program) \in Nat
    BY <1>1 DEF TableTells
  <2>2. \A n \in 1 .. 11 : \A i \in DOMAIN program : ~ Past(n, i)
    BY <1>2, <2>1 DEF Past
  <2> QED BY <2>2 DEF NamesPast
<1>5. SlotsFor /\ LayoutFor /\ VtablesFor /\ Constructors
  <2>1. DOMAIN slots = {} /\ DOMAIN layout = {} /\ DOMAIN vtables = {Object}
    BY DEF GenInit
  <2> QED BY <1>4, <2>1 DEF SlotsFor, LayoutFor, VtablesFor, Constructors
<1>6. functions = Runtime
  BY DEF GenInit
<1>7. NoBodyYet
  <2>1. ASSUME NEW k \in DOMAIN Runtime PROVE Runtime[k].does = "external"
    BY DEF Runtime, Function
  <2> QED BY <1>6, <2>1 DEF NoBodyYet
<1>8. MethodsFor
  <2>1. Done = {Object}
    BY <1>4 DEF Done
  <2>2. Emitted(ParentsFirst, table, {Object}, Runtime)
    BY <1>1, RuntimeIsEmitted
  <2> QED BY <1>6, <2>1, <2>2 DEF MethodsFor
<1> QED BY <1>1, <1>3, <1>5, <1>7, <1>8 DEF GenInv, Course

(* A turn leaves what it does not work on as it is.                        *)
LEMMA TheOthersStay ==
  ASSUME GenInv, NEW n \in 1 .. 11, TurnOf(n)
  PROVE  /\ Course'
         /\ n # 9 /\ slots' = slots => SlotsFor'
         /\ n # 8 /\ layout' = layout => LayoutFor'
         /\ n # 4 /\ vtables' = vtables => VtablesFor'
         /\ n # 5 /\ SameMethods(table, functions, functions') => MethodsFor'
         /\ n \notin {6, 7} /\ DOMAIN functions \subseteq DOMAIN functions' => Constructors'
         /\ n <= 5 => NoBodyYet'
         /\ (\A k \in DOMAIN functions' : functions'[k].does = "body" =>
               k \in DOMAIN functions /\ functions[k].does = "body") => NoBodyYet'
<1>1. /\ program' = program /\ table' = table /\ OnCourse'
      /\ \A q \in 1 .. 11 : q # n => NamesPast(q)' = NamesPast(q)
      /\ Len(loops) = n /\ Len(loops') \in {n, n - 1}
  BY DEF TurnOf
<1>2. Course'
  BY <1>1 DEF Course, GenInv
<1>3. n # 9 /\ slots' = slots => SlotsFor'
  BY <1>1 DEF SlotsFor, GenInv
<1>4. n # 8 /\ layout' = layout => LayoutFor'
  BY <1>1 DEF LayoutFor, GenInv
<1>5. n # 4 /\ vtables' = vtables => VtablesFor'
  BY <1>1 DEF VtablesFor, GenInv
<1>6. ASSUME n # 5, SameMethods(table, functions, functions') PROVE MethodsFor'
  <2>1. Done' = Done /\ (ParentsFirst' <=> ParentsFirst)
    BY <1>1, <1>6 DEF Done, ParentsFirst
  <2>2. Hierarchy(table) /\ Emitted(ParentsFirst, table, Done, functions)
    BY DEF GenInv, Course, MethodsFor
  <2>3. Emitted(ParentsFirst, table, Done, functions')
    BY <1>6, <2>2, EmittedStays
  <2> QED BY <1>1, <2>1, <2>3 DEF MethodsFor
<1>7. n \notin {6, 7} /\ DOMAIN functions \subseteq DOMAIN functions' => Constructors'
  BY <1>1 DEF Constructors, GenInv
<1>8. n <= 5 => NoBodyYet'
  BY <1>1 DEF NoBodyYet
<1>9. (\A k \in DOMAIN functions' : functions'[k].does = "body" =>
         k \in DOMAIN functions /\ functions[k].does = "body") => NoBodyYet'
  BY <1>1 DEF NoBodyYet, GenInv
<1> QED BY <1>2, <1>3, <1>4, <1>5, <1>6, <1>7, <1>8, <1>9

LEMMA SinglesFlatten ==
  ASSUME NEW S, NEW s \in Seq(S)
  PROVE  FlattenSeq([i \in DOMAIN s |-> <<s[i]>>]) = s
<1> DEFINE Singles(t) == [i \in DOMAIN t |-> <<t[i]>>]
           T == {t \in Seq(S) : FlattenSeq(Singles(t)) = t}
           L == Seq(S)
<1>1. ASSUME NEW t \in Seq(S) PROVE Singles(t) \in Seq(L)
  <2>1. DOMAIN t = 1 .. Len(t) /\ Len(t) \in Nat /\ \A i \in DOMAIN t : t[i] \in S
    OBVIOUS
  <2>2. \A i \in DOMAIN t : <<t[i]>> \in L
    BY <2>1
  <2> HIDE DEF L
  <2>3. Singles(t) \in [1 .. Len(t) -> L]
    BY <2>1, <2>2
  <2> HIDE DEF Singles
  <2> QED BY <2>1, <2>3, SeqDef
<1>2. <<>> \in T
  <2>1. Singles(<<>>) = <<>>
    OBVIOUS
  <2>2. FlattenSeq(<<>>) = <<>>
    BY DEF FlattenSeq
  <2> QED BY <2>1, <2>2
<1>3. ASSUME NEW t \in Seq(S), NEW e \in S, t \in T PROVE Append(t, e) \in T
  <2> DEFINE a == Append(t, e)
             b == Singles(t)
             n == Len(t)
  <2>1. /\ n \in Nat /\ DOMAIN t = 1 .. n /\ DOMAIN a = 1 .. n + 1 /\ a[n + 1] = e
        /\ a \in Seq(S) /\ \A i \in 1 .. n : a[i] = t[i]
    OBVIOUS
  <2>2. b \in Seq(L) /\ DOMAIN b = 1 .. n /\ Len(b) = n /\ <<e>> \in L
    <3>1. b \in Seq(L) /\ <<e>> \in L
      BY <1>1
    <3>2. DOMAIN b = 1 .. n
      BY <2>1
    <3> HIDE DEF b, L
    <3> QED BY <2>1, <3>1, <3>2
  <2>3. \A i \in 1 .. n : b[i] = <<t[i]>>
    BY <2>1
  <2> HIDE DEF L, a, b, n
  <2>4. Append(b, <<e>>) = [i \in 1 .. n + 1 |-> IF i = n + 1 THEN <<e>> ELSE b[i]]
    BY <2>1, <2>2
  <2>5. \A i \in 1 .. n + 1 : <<a[i]>> = IF i = n + 1 THEN <<e>> ELSE b[i]
    <3>1. \A i \in 1 .. n + 1 : i = n + 1 \/ i \in 1 .. n
      BY <2>1
    <3>2. n + 1 \notin 1 .. n
      BY <2>1
    <3> QED BY <2>1, <2>3, <3>1, <3>2
  <2>6. Singles(a) = Append(b, <<e>>)
    BY <2>1, <2>4, <2>5
  <2>7. FlattenSeq(Append(b, <<e>>)) = FlattenSeq(b) \o <<e>>
    BY <2>2, FlattenAppend DEF L
  <2>8. FlattenSeq(b) = t
    BY <1>3 DEF b
  <2>9. t \o <<e>> = a
    BY DEF a
  <2> QED BY <2>1, <2>6, <2>7, <2>8, <2>9 DEF a
<1>4. Seq(S) \subseteq T
  <2> HIDE DEF T
  <2> QED BY <1>2, <1>3, Lengthwise
<1> QED BY <1>4

(* All slots of a class's vtable hold the class's own functions.           *)
LEMMA SlotsAreFilled ==
  ASSUME NEW ordered, NEW done, Hierarchy(table), Emitted(ordered, table, done, functions),
         NEW c \in done
  PROVE  FlattenSeq([i \in DOMAIN CollectMethods(table, c) |->
                       VtableSlot(c, CollectMethods(table, c)[i])]) = VtableOf(table, c)
<1> DEFINE all == CollectMethods(table, c)
           way == Ancestry(table, c)
           t == VtableOf(table, c)
           S == {<<c, n>> : n \in MethodName}
<1>1. c \in DOMAIN table
  BY DEF Emitted
<1>2. all \in Seq(Method)
  BY <1>1, MethodsOfClass
<1>3. way \in Seq(DOMAIN table) /\ Len(way) \in Nat \ {0} /\ way[1] = c
  BY <1>1, AncestryIs, ItsLineage
<1> HIDE DEF way
<1>4. ASSUME NEW i \in DOMAIN all PROVE VtableSlot(c, all[i]) = <<<<c, all[i].name>>>>
  <2> DEFINE n == all[i].name
             fn == Provider(way, n)
  <2>1. n \in MethodName /\ HasMember(all, n)
    BY <1>2, ItsName
  <2>2. <<c, n>> \in DOMAIN functions
    BY <1>1, <2>1 DEF Emitted
  <2>3. c \in Having(way, n) /\ way # <<>>
    <3>1. 1 \in DOMAIN way
      BY <1>3
    <3>2. c \in Range(way)
      BY <1>3, <3>1 DEF Range
    <3> QED BY <1>3, <2>2, <3>2 DEF Having
  <2>4. FirstOf(way, Having(way, n)) = c
    BY <1>3, <2>3, FirstOfHead
  <2>5. fn = <<c, n>> /\ fn # Null
    BY <2>3, <2>4 DEF Provider, Null
  <2> HIDE DEF fn
  <2>6. VtableSlot(c, all[i]) = IF fn = Null THEN <<Null, Null>> ELSE <<fn>>
    BY DEF VtableSlot, fn, way
  <2> QED BY <2>5, <2>6
<1>5. /\ DOMAIN all = 1 .. Len(all) /\ Len(all) \in Nat
      /\ t = [i \in DOMAIN all |-> <<c, all[i].name>>]
  BY <1>2 DEF VtableOf
<1>6. \A i \in DOMAIN all : <<c, all[i].name>> \in S
  <2>1. \A i \in DOMAIN all : all[i].name \in MethodName
    BY <1>2, ItsName
  <2> QED BY <2>1
<1>7. t \in Seq(S) /\ DOMAIN t = DOMAIN all /\ \A i \in DOMAIN all : t[i] = <<c, all[i].name>>
  <2>1. t \in [1 .. Len(all) -> S]
    BY <1>5, <1>6
  <2> HIDE DEF S
  <2> QED BY <1>5, <2>1, SeqDef
<1> HIDE DEF all, t, S
<1>8. [i \in DOMAIN all |-> VtableSlot(c, all[i])] = [i \in DOMAIN t |-> <<t[i]>>]
  BY <1>4, <1>7
<1>9. FlattenSeq([i \in DOMAIN t |-> <<t[i]>>]) = t
  BY <1>7, SinglesFlatten
<1> QED BY <1>8, <1>9 DEF all, t

LEMMA CurrentIs ==
  ASSUME GenInv, index \in DOMAIN program
  PROVE  /\ Current \in DOMAIN table \ {Object}
         /\ table[Current].methods = program[index].methods
         /\ table[Current].parent = program[index].parent
BY DEF GenInv, Course, TableTells, Current

(* One more of the functions that are not methods', or another body of one. *)
LEMMA WithAConstructor ==
  ASSUME GenInv, NEW n \in 1 .. 11, TurnOf(n), n \notin {4, 5, 8, 9},
         slots' = slots, layout' = layout, vtables' = vtables,
         NEW c \in {new, init}, NEW f, functions' = WithFunction(<<Current, c>>, f),
         n = 7 => c = init, n = 6 => c = new, n > 5 => f.does = "declared"
  PROVE  GenInv'
<1> DEFINE k == <<Current, c>>
<1>1. /\ index \in DOMAIN program /\ NamesPast(n)' = NamesPast(n) \cup {Current}
      /\ \A q \in 1 .. 11 : q # n => NamesPast(q)' = NamesPast(q)
  BY DEF TurnOf
<1>2. Current \in DOMAIN table
  BY <1>1, CurrentIs
<1>3. k \in {EntryPoint} \cup ((DOMAIN table) \X {new, init})
  BY <1>2
<1>4. Emitted(ParentsFirst, table, Done, functions)
  BY DEF GenInv, MethodsFor
<1>5. /\ SameMethods(table, functions, functions')
      /\ DOMAIN functions' = DOMAIN functions \cup {k}
      /\ \A x \in DOMAIN functions' : functions'[x] = IF x = k THEN f ELSE functions[x]
  <2> HIDE DEF k
  <2>1. /\ SameMethods(table, functions, WithFunction(k, f))
        /\ DOMAIN WithFunction(k, f) = DOMAIN functions \cup {k}
        /\ \A x \in DOMAIN WithFunction(k, f) :
             WithFunction(k, f)[x] = IF x = k THEN f ELSE functions[x]
    BY <1>3, <1>4, OneMoreIsSame
  <2>2. functions' = WithFunction(k, f)
    BY DEF k
  <2> QED BY <2>1, <2>2
<1>6. Constructors'
  <2>1. CASE n = 7
    BY <1>1, <1>5, <2>1 DEF GenInv, Constructors
  <2>2. CASE n = 6
    BY <1>1, <1>5, <2>2 DEF GenInv, Constructors
  <2>3. CASE n \notin {6, 7}
    BY <1>5, <2>3, TheOthersStay
  <2> QED BY <2>1, <2>2, <2>3
<1>7. NoBodyYet'
  <2>1. CASE n <= 5
    BY <2>1, TheOthersStay
  <2>2. CASE n > 5
    <3>1. \A x \in DOMAIN functions' : functions'[x].does = "body" =>
            x \in DOMAIN functions /\ functions[x].does = "body"
      BY <1>5, <2>2
    <3> QED BY <3>1, TheOthersStay
  <2> QED BY <2>1, <2>2
<1>8. Course' /\ SlotsFor' /\ LayoutFor' /\ VtablesFor' /\ MethodsFor'
  BY <1>5, TheOthersStay
<1> QED BY <1>6, <1>7, <1>8 DEF GenInv

LEMMA UnchangedIsSame ==
  ASSUME GenInv, functions' = functions
  PROVE  /\ SameMethods(table, functions, functions')
         /\ DOMAIN functions \subseteq DOMAIN functions'
         /\ \A k \in DOMAIN functions' : functions'[k].does = "body" =>
              k \in DOMAIN functions /\ functions[k].does = "body"
BY DEF GenInv, MethodsFor, Emitted, SameMethods

LEMMA GenInvOn == GenInv /\ GenNext => GenInv'
<1> SUFFICES ASSUME GenInv, GenNext PROVE GenInv'
  OBVIOUS
<1>0. OnCourse /\ TableTells(program, table) /\ Hierarchy(table)
  BY DEF GenInv, Course
<1>1. CASE DeclareVtable \/ DeclareClass
  <2>1. PICK n : n \in {10, 11} /\ TurnOf(n)
    BY <1>0, <1>1, TurnsAre DEF DeclareVtable, DeclareClass
  <2>2. /\ slots' = slots /\ layout' = layout /\ functions' = functions
        /\ vtables' = vtables
    BY <1>1 DEF DeclareVtable, DeclareClass
  <2>3. n \in 1 .. 11 /\ n \notin {4, 5, 6, 7, 8, 9}
    BY <2>1
  <2> QED BY <2>1, <2>2, <2>3, TheOthersStay, UnchangedIsSame DEF GenInv
<1>2. CASE LayOutVtable
  <2>1. TurnOf(9)
    BY <1>0, <1>2, TurnsAre DEF LayOutVtable
  <2>2. /\ layout' = layout /\ functions' = functions /\ vtables' = vtables
        /\ slots' = With(slots, Current, CollectMethods(table, Current))
    BY <1>2 DEF LayOutVtable
  <2>3. table' = table /\ NamesPast(9)' = NamesPast(9) \cup {Current} /\ Current \notin NamesPast(9)
    BY <2>1 DEF TurnOf
  <2>4. SlotsFor'
    BY <2>2, <2>3 DEF GenInv, SlotsFor, With
  <2>5. Course' /\ LayoutFor' /\ Constructors' /\ NoBodyYet' /\ MethodsFor' /\ VtablesFor'
    BY <2>1, <2>2, TheOthersStay, UnchangedIsSame
  <2> QED BY <2>4, <2>5 DEF GenInv
<1>3. CASE LayOutStruct
  <2>1. TurnOf(8)
    BY <1>0, <1>3, TurnsAre DEF LayOutStruct
  <2>2. /\ slots' = slots /\ functions' = functions /\ vtables' = vtables
        /\ layout' = With(layout, Current, CollectFields(table, Current))
    BY <1>3 DEF LayOutStruct
  <2>3. table' = table /\ NamesPast(8)' = NamesPast(8) \cup {Current} /\ Current \notin NamesPast(8)
    BY <2>1 DEF TurnOf
  <2>4. LayoutFor'
    BY <2>2, <2>3 DEF GenInv, LayoutFor, With
  <2>5. Course' /\ SlotsFor' /\ Constructors' /\ NoBodyYet' /\ MethodsFor' /\ VtablesFor'
    BY <2>1, <2>2, TheOthersStay, UnchangedIsSame
  <2> QED BY <2>4, <2>5 DEF GenInv
<1>4. CASE DeclareInit
  <2>1. TurnOf(7)
    BY <1>0, <1>4, TurnsAre DEF DeclareInit
  <2> DEFINE f == Function("declared", Null, Creation)
  <2>2. f.does = "declared"
    BY DEF Function
  <2>3. /\ slots' = slots /\ layout' = layout /\ vtables' = vtables
        /\ functions' = WithFunction(<<Current, init>>, f)
    BY <1>4 DEF DeclareInit
  <2> HIDE DEF f
  <2> QED BY <2>1, <2>2, <2>3, WithAConstructor
<1>5. CASE DeclareNew
  <2>1. TurnOf(6)
    BY <1>0, <1>5, TurnsAre DEF DeclareNew
  <2> DEFINE f == Function("declared", Null, Creation)
  <2>2. f.does = "declared"
    BY DEF Function
  <2>3. /\ slots' = slots /\ layout' = layout /\ vtables' = vtables
        /\ functions' = WithFunction(<<Current, new>>, f)
    BY <1>5 DEF DeclareNew
  <2> HIDE DEF f
  <2> QED BY <2>1, <2>2, <2>3, WithAConstructor
<1>6. CASE EmitMethods
  <2>1. TurnOf(5)
    BY <1>0, <1>6, TurnsAre DEF EmitMethods
  <2>2. /\ Current \in DOMAIN table \ {Object}
        /\ table[Current].methods = program[index].methods
        /\ table[Current].parent = program[index].parent
    BY <2>1, CurrentIs DEF TurnOf
  <2>3. /\ slots' = slots /\ layout' = layout /\ vtables' = vtables
        /\ functions' = WithFunctions(FunctionsFor(Current, Range(table[Current].methods),
                                                   Range(CollectMethods(table, Current))))
    BY <1>6, <2>2 DEF EmitMethods
  <2>4. /\ table' = table /\ program' = program /\ index \in DOMAIN program /\ Len(loops) = 5
        /\ NamesPast(5)' = NamesPast(5) \cup {Current} /\ Current \notin NamesPast(5)
    BY <2>1 DEF TurnOf
  <2>5. Current \notin Done /\ Done' = Done \cup {Current}
    BY <2>2, <2>4 DEF Done
  <2>6. ASSUME ParentsFirst PROVE table[Current].parent \in Done
    <3>1. CASE table[Current].parent = Object
      BY <3>1 DEF Done
    <3>2. CASE table[Current].parent # Object
      <4>1. table[Current].parent \in DOMAIN table
        BY <1>0, <2>2 DEF Hierarchy, Lineage
      <4>2. PICK j \in DOMAIN program : table[Current].parent = program[j].name
        BY <1>0, <3>2, <4>1 DEF TableTells
      <4>3. j < index
        BY <2>2, <2>4, <2>6, <4>2 DEF ParentsFirst
      <4>4. Past(5, j)
        BY <2>4, <4>3 DEF Past
      <4> QED BY <4>2, <4>4 DEF Done, NamesPast
    <3> QED BY <3>1, <3>2
  <2>7. Emitted(ParentsFirst, table, Done, functions)
    BY DEF GenInv, MethodsFor
  <2>8. /\ Emitted(ParentsFirst, table, Done \cup {Current}, functions')
        /\ DOMAIN functions \subseteq DOMAIN functions'
    BY <1>0, <2>2, <2>3, <2>5, <2>6, <2>7, OneMoreIsEmitted
  <2>9. ParentsFirst' <=> ParentsFirst
    BY <2>4 DEF ParentsFirst
  <2>10. MethodsFor'
    BY <2>4, <2>5, <2>8, <2>9 DEF MethodsFor
  <2>11. Course' /\ SlotsFor' /\ LayoutFor' /\ Constructors' /\ NoBodyYet' /\ VtablesFor'
    BY <2>1, <2>3, <2>8, TheOthersStay
  <2> QED BY <2>10, <2>11 DEF GenInv
<1>7. CASE EmitVtable
  <2>1. TurnOf(4)
    BY <1>0, <1>7, TurnsAre DEF EmitVtable
  <2>2. /\ table' = table /\ program' = program /\ index \in DOMAIN program /\ Len(loops) = 4
        /\ NamesPast(4)' = NamesPast(4) \cup {Current} /\ Current \notin NamesPast(4)
    BY <2>1 DEF TurnOf
  <2>3. Current \in DOMAIN table \ {Object}
    BY <2>2, CurrentIs
  <2>4. Current \in Done
    <3>1. Past(5, index)
      BY <2>2 DEF Past
    <3> QED BY <2>2, <3>1 DEF Done, NamesPast, Current
  <2>5. /\ slots' = slots /\ layout' = layout /\ functions' = functions
        /\ vtables' = With(vtables, Current,
                           FlattenSeq([i \in DOMAIN CollectMethods(table, Current) |->
                                         VtableSlot(Current, CollectMethods(table, Current)[i])]))
    BY <1>7 DEF EmitVtable
  <2>6. vtables' = With(vtables, Current, VtableOf(table, Current))
    <3>1. Emitted(ParentsFirst, table, Done, functions)
      BY DEF GenInv, MethodsFor
    <3>2. FlattenSeq([i \in DOMAIN CollectMethods(table, Current) |->
                        VtableSlot(Current, CollectMethods(table, Current)[i])])
            = VtableOf(table, Current)
      BY <1>0, <2>4, <3>1, SlotsAreFilled
    <3> QED BY <2>5, <3>2
  <2>7. VtablesFor'
    BY <2>2, <2>3, <2>6 DEF GenInv, VtablesFor, With
  <2>8. Course' /\ SlotsFor' /\ LayoutFor' /\ Constructors' /\ NoBodyYet' /\ MethodsFor'
    BY <2>1, <2>5, TheOthersStay, UnchangedIsSame
  <2> QED BY <2>7, <2>8 DEF GenInv
<1>8. CASE EmitInit
  <2>1. TurnOf(3)
    BY <1>0, <1>8, TurnsAre DEF EmitInit
  <2> DEFINE f == Function("body", Null, Creation)
  <2>2. slots' = slots /\ layout' = layout /\ vtables' = vtables
    BY <1>8 DEF EmitInit
  <2>3. CASE functions' = WithFunction(<<Current, init>>, f)
    <3> HIDE DEF f
    <3> QED BY <2>1, <2>2, <2>3, WithAConstructor
  <2>4. CASE functions' = functions
    BY <2>1, <2>2, <2>4, TheOthersStay, UnchangedIsSame DEF GenInv
  <2> QED BY <1>8, <2>3, <2>4 DEF EmitInit
<1>9. CASE EmitNew
  <2>1. TurnOf(2)
    BY <1>0, <1>9, TurnsAre DEF EmitNew
  <2> DEFINE f == Function("call", <<Current, init>>, Creation)
  <2>2. slots' = slots /\ layout' = layout /\ vtables' = vtables
    BY <1>9 DEF EmitNew
  <2>3. CASE functions' = WithFunction(<<Current, new>>, f)
    <3> HIDE DEF f
    <3> QED BY <2>1, <2>2, <2>3, WithAConstructor
  <2>4. CASE functions' = functions
    BY <2>1, <2>2, <2>4, TheOthersStay, UnchangedIsSame DEF GenInv
  <2> QED BY <1>9, <2>3, <2>4 DEF EmitNew
<1>10. CASE EmitEntryPoint
  <2>1. /\ OnCourse' /\ Len(loops') = 0 /\ program' = program /\ table' = table
        /\ \A q \in 2 .. 11 : NamesPast(q)' = NamesPast(q)
    BY <1>0, <1>10, LastTurnIs
  <2> DEFINE f == Function("call", <<Main, main>>, functions[<<Main, main>>])
  <2>2. /\ slots' = slots /\ layout' = layout /\ vtables' = vtables
        /\ functions' = WithFunction(EntryPoint, f)
    BY <1>10 DEF EmitEntryPoint
  <2> HIDE DEF f
  <2>3. Emitted(ParentsFirst, table, Done, functions)
    BY DEF GenInv, MethodsFor
  <2>4. /\ SameMethods(table, functions, functions')
        /\ DOMAIN functions' = DOMAIN functions \cup {EntryPoint}
    <3>1. /\ SameMethods(table, functions, WithFunction(EntryPoint, f))
          /\ DOMAIN WithFunction(EntryPoint, f) = DOMAIN functions \cup {EntryPoint}
      BY <2>3, OneMoreIsSame
    <3> QED BY <2>2, <3>1
  <2>5. MethodsFor'
    <3>1. Done' = Done /\ (ParentsFirst' <=> ParentsFirst)
      BY <2>1 DEF Done, ParentsFirst
    <3>2. Emitted(ParentsFirst, table, Done, functions')
      BY <1>0, <2>3, <2>4, EmittedStays
    <3> QED BY <2>1, <3>1, <3>2 DEF MethodsFor
  <2>6. SlotsFor' /\ LayoutFor' /\ VtablesFor'
    BY <2>1, <2>2 DEF GenInv, SlotsFor, LayoutFor, VtablesFor
  <2>7. Constructors'
    BY <2>1, <2>4 DEF GenInv, Constructors
  <2>8. NoBodyYet'
    BY <2>1 DEF NoBodyYet
  <2>9. Course'
    BY <1>0, <2>1 DEF Course
  <2> QED BY <2>5, <2>6, <2>7, <2>8, <2>9 DEF GenInv
<1> QED BY <1>1, <1>2, <1>3, <1>4, <1>5, <1>6, <1>7, <1>8, <1>9, <1>10 DEF GenNext

-----------------------------------------------------------------------------
LEMMA LaterIsLess ==
  ASSUME GenInv, NEW q \in Nat, NEW r \in Nat, q < r
  PROVE  NamesPast(q) \subseteq NamesPast(r)
<1>1. PICK n : n \in Nat /\ n = Len(loops)
  <2>1. loops \in Seq(Range(Loops))
    BY DEF GenInv, Course, OnCourse
  <2> QED BY <2>1
<1>2. \A i : Past(q, i) => Past(r, i)
  BY <1>1 DEF Past
<1> QED BY <1>2 DEF NamesPast

LEMMA PastAreClasses ==
  ASSUME GenInv, NEW q
  PROVE  NamesPast(q) \subseteq DOMAIN table \ {Object}
BY DEF GenInv, Course, TableTells, NamesPast

(* What GenInv says of the slots, the functions and the references.        *)
LEMMA GenInvTells ==
  ASSUME GenInv
  PROVE  ClassesExtendTheirParents /\ VtablesAreComplete /\ BodiesFindTheirReferences
<1>1. /\ Hierarchy(table) /\ SlotsFor /\ LayoutFor /\ VtablesFor
      /\ Emitted(ParentsFirst, table, Done, functions)
  BY DEF GenInv, Course, MethodsFor
<1>2. ClassesExtendTheirParents
  <2>1. ASSUME NEW c \in DOMAIN slots, table[c].parent \in DOMAIN slots \cup {Object}
        PROVE  LET above == SlotsOf(table[c].parent) IN
               /\ Len(above) <= Len(slots[c])
               /\ \A i \in DOMAIN above : above[i].name = slots[c][i].name
    <3> DEFINE p == table[c].parent
               above == SlotsOf(p)
    <3>1. c \in DOMAIN table \ {Object} /\ slots[c] = CollectMethods(table, c)
      BY <1>1, PastAreClasses DEF SlotsFor
    <3>2. above = CollectMethods(table, p)
      <4>1. CASE p = Object
        BY <1>1, <4>1, MethodsOfClass DEF SlotsOf
      <4>2. CASE p # Object
        BY <1>1, <2>1, <4>2 DEF SlotsOf, SlotsFor
      <4> QED BY <4>1, <4>2
    <3>3. above \in Seq(Method) /\ Overrides(slots[c], above, table[c].methods)
      <4>1. p \in DOMAIN table
        BY <1>1, <3>1, AncestryOfClass, ItsLineage
      <4>2. Overrides(CollectMethods(table, c), CollectMethods(table, p), table[c].methods)
        BY <1>1, <3>1, MethodsOfClass
      <4>3. CollectMethods(table, p) \in Seq(Method)
        BY <1>1, <4>1, MethodsOfClass
      <4> QED BY <3>1, <3>2, <4>2, <4>3
    <3> HIDE DEF above
    <3>4. DOMAIN above = 1 .. Len(above)
      BY <3>3
    <3>5. Len(above) <= Len(slots[c]) /\ \A i \in DOMAIN above : above[i].name = slots[c][i].name
      BY <3>3, <3>4 DEF Overrides
    <3> QED BY <3>5 DEF above
  <2>2. ASSUME NEW c \in DOMAIN layout, table[c].parent \in DOMAIN layout
        PROVE  IsPrefix(layout[table[c].parent], layout[c])
    <3> DEFINE p == table[c].parent
               a == CollectFields(table, p)
               own == table[c].fields
    <3>1. c \in DOMAIN table \ {Object}
      BY <1>1, PastAreClasses DEF LayoutFor
    <3>2. layout[c] = a \o own /\ layout[p] = a /\ a \in Seq(Field) /\ own \in Seq(Field)
      <4>1. layout[c] = CollectFields(table, c) /\ layout[p] = a
        BY <1>1, <2>2 DEF LayoutFor
      <4>2. p \in DOMAIN table /\ own \in Seq(Field)
        BY <1>1, <3>1 DEF Hierarchy, Lineage
      <4>3. CollectFields(table, c) = a \o own /\ a \in Seq(Field)
        BY <1>1, <3>1, <4>2, FieldsOfClass
      <4> QED BY <4>1, <4>2, <4>3
    <3> HIDE DEF a, own
    <3>3. /\ Len(a) <= Len(a \o own) /\ SubSeq(a, 1, Len(a)) = a
          /\ SubSeq(a \o own, 1, Len(a)) = a
      <4>1. Len(a) \in Nat /\ Len(own) \in Nat /\ Len(a \o own) = Len(a) + Len(own)
        BY <3>2
      <4>2. SubSeq(a, 1, Len(a)) = a
        BY <3>2
      <4>3. SubSeq(a \o own, 1, Len(a)) = a
        <5> DEFINE b == a \o own
                   n == Len(a)
        <5>1. b \in Seq(Field) /\ n \in 0 .. Len(b) /\ \A i \in 1 .. n : b[i] = a[i]
          BY <3>2, <4>1
        <5> HIDE DEF b, n
        <5>2. /\ SubSeq(b, 1, n) \in Seq(Field) /\ Len(SubSeq(b, 1, n)) = n
              /\ \A i \in 1 .. n : SubSeq(b, 1, n)[i] = b[i]
          BY <5>1, Prefix
        <5>3. /\ Len(SubSeq(b, 1, n)) = Len(a)
              /\ \A i \in 1 .. Len(a) : SubSeq(b, 1, n)[i] = a[i]
          BY <5>1, <5>2 DEF n
        <5>4. SubSeq(b, 1, n) = a
          <6> DEFINE d == SubSeq(b, 1, n)
          <6>1. d \in Seq(Field) /\ Len(d) = Len(a) /\ \A i \in 1 .. Len(a) : d[i] = a[i]
            BY <5>2, <5>3
          <6> HIDE DEF d
          <6>2. d = a
            BY <3>2, <6>1, SeqEqual
          <6> QED BY <6>2 DEF d
        <5> QED BY <5>4 DEF b, n
      <4> QED BY <4>1, <4>2, <4>3
    <3> QED BY <3>2, <3>3 DEF IsPrefix
  <2> QED BY <2>1, <2>2 DEF ClassesExtendTheirParents
<1>3. VtablesAreComplete
  <2> SUFFICES ASSUME NEW c \in DOMAIN vtables \ {Object}
               PROVE  /\ Len(vtables[c]) = Len(slots[c])
                      /\ \A i \in DOMAIN vtables[c] :
                           /\ vtables[c][i] = <<c, slots[c][i].name>>
                           /\ functions[vtables[c][i]].formals = slots[c][i].formals
                           /\ functions[vtables[c][i]].ret = slots[c][i].ret
    BY DEF VtablesAreComplete
  <2> DEFINE all == CollectMethods(table, c)
  <2>1. c \in NamesPast(4) /\ vtables[c] = VtableOf(table, c)
    BY <1>1 DEF VtablesFor
  <2>2. c \in Done /\ slots[c] = all /\ c \in DOMAIN table
    <3>1. NamesPast(4) \subseteq NamesPast(5) /\ NamesPast(4) \subseteq NamesPast(9)
      BY LaterIsLess
    <3> QED BY <1>1, <2>1, <3>1, PastAreClasses DEF SlotsFor, Done
  <2>3. all \in Seq(Method)
    BY <1>1, <2>2, MethodsOfClass
  <2> HIDE DEF all
  <2>4. vtables[c] = [i \in DOMAIN all |-> <<c, all[i].name>>]
    BY <2>1 DEF VtableOf, all
  <2>5. Len(vtables[c]) = Len(all) /\ DOMAIN vtables[c] = DOMAIN all
    <3>1. DOMAIN all = 1 .. Len(all) /\ Len(all) \in Nat
      BY <2>3
    <3>2. DOMAIN vtables[c] = 1 .. Len(all)
      BY <2>4, <3>1
    <3>3. Len(vtables[c]) = Len(all)
      <4> DEFINE v == [i \in 1 .. Len(all) |-> <<c, all[i].name>>]
      <4>1. vtables[c] = v
        BY <2>4, <3>1
      <4>2. Len(v) = Len(all)
        BY <3>1
      <4> QED BY <4>1, <4>2
    <3> QED BY <3>1, <3>2, <3>3
  <2>6. ASSUME NEW i \in DOMAIN all
        PROVE  /\ vtables[c][i] = <<c, all[i].name>>
               /\ functions[<<c, all[i].name>>].formals = all[i].formals
               /\ functions[<<c, all[i].name>>].ret = all[i].ret
    <3>1. Serves(ParentsFirst, table, functions, c, all[i])
      BY <1>1, <2>2 DEF Emitted, all
    <3> QED BY <2>4, <3>1 DEF Serves
  <2> QED BY <2>2, <2>5, <2>6
<1>4. BodiesFindTheirReferences
  <2> SUFFICES ASSUME NEW k \in DOMAIN functions, functions[k].does = "body",
                      NEW c \in DOMAIN table \ {Object}
               PROVE  /\ c \in DOMAIN slots /\ c \in DOMAIN layout
                      /\ {<<c, new>>, <<c, init>>} \subseteq DOMAIN functions
    BY DEF BodiesFindTheirReferences
  <2>1. PICK n : n \in Nat /\ n = Len(loops)
    <3>1. loops \in Seq(Range(Loops))
      BY DEF GenInv, Course, OnCourse
    <3> QED BY <3>1
  <2>2. n <= 5
    BY <2>1 DEF GenInv, NoBodyYet
  <2>3. PICK i \in DOMAIN program : c = program[i].name
    BY DEF GenInv, Course, TableTells
  <2>4. Past(6, i) /\ Past(7, i) /\ Past(8, i) /\ Past(9, i)
    BY <2>1, <2>2 DEF Past
  <2>5. c \in NamesPast(6) /\ c \in NamesPast(7) /\ c \in NamesPast(8) /\ c \in NamesPast(9)
    BY <2>3, <2>4 DEF NamesPast
  <2> QED BY <1>1, <2>5 DEF GenInv, Constructors, SlotsFor, LayoutFor
<1> QED BY <1>2, <1>3, <1>4

-----------------------------------------------------------------------------
(* Where the last member of a name is, when a list goes on with more.      *)
IsLast(members, n, x) ==
  /\ x \in DOMAIN members /\ members[x].name = n
  /\ \A j \in x + 1 .. Len(members) : members[j].name # n

LEMMA LastNamedIs ==
  ASSUME NEW S, NEW members \in Seq(S), NEW n, NEW x, IsLast(members, n, x)
  PROVE  LastNamed(members, n) = x
<1> DEFINE Is(i) == members[i].name = n /\ \A j \in i + 1 .. Len(members) : members[j].name # n
           y == CHOOSE i \in DOMAIN members : Is(i)
<1>1. DOMAIN members = 1 .. Len(members) /\ Len(members) \in Nat
  OBVIOUS
<1>2. x \in DOMAIN members /\ Is(x)
  BY DEF IsLast
<1>3. y \in DOMAIN members /\ Is(y)
  BY <1>2
<1>4. LastNamed(members, n) = y
  BY DEF LastNamed
<1> HIDE DEF y
<1>5. x = y
  <2>1. ~ (x < y)
    <3>1. x < y => y \in x + 1 .. Len(members)
      BY <1>1, <1>2, <1>3
    <3> QED BY <1>2, <1>3, <3>1
  <2>2. ~ (y < x)
    <3>1. y < x => x \in y + 1 .. Len(members)
      BY <1>1, <1>2, <1>3
    <3> QED BY <1>2, <1>3, <3>1
  <2> QED BY <1>1, <1>2, <1>3, <2>1, <2>2
<1> QED BY <1>4, <1>5

LEMMA LastOfTwo ==
  ASSUME NEW S, NEW above \in Seq(S), NEW own \in Seq(S), ~ Repeats(own)
  PROVE  /\ \A i \in DOMAIN own : IsLast(above \o own, own[i].name, Len(above) + i)
         /\ \A n, x : IsLast(above, n, x) /\ ~ HasMember(own, n) => IsLast(above \o own, n, x)
<1> DEFINE all == above \o own
           l == Len(above)
           k == Len(own)
<1>1. /\ l \in Nat /\ k \in Nat /\ DOMAIN above = 1 .. l /\ DOMAIN own = 1 .. k
      /\ DOMAIN all = 1 .. l + k /\ Len(all) = l + k
      /\ \A i \in 1 .. l : all[i] = above[i]
      /\ \A i \in 1 .. k : all[l + i] = own[i]
  OBVIOUS
<1> HIDE DEF all
<1>2. ASSUME NEW i \in DOMAIN own PROVE IsLast(all, own[i].name, l + i)
  <2> HIDE DEF l, k
  <2>1. l + i \in DOMAIN all /\ all[l + i].name = own[i].name
    BY <1>1
  <2>2. ASSUME NEW j \in (l + i) + 1 .. Len(all) PROVE all[j].name # own[i].name
    <3>1. j - l \in 1 .. k /\ i < j - l /\ l + (j - l) = j
      BY <1>1, <2>2
    <3>2. all[j] = own[j - l]
      BY <1>1, <3>1
    <3> QED BY <1>1, <3>1, <3>2 DEF Repeats
  <2> QED BY <2>1, <2>2 DEF IsLast
<1>3. ASSUME NEW n, NEW x, IsLast(above, n, x), ~ HasMember(own, n) PROVE IsLast(all, n, x)
  <2>0. x \in 1 .. l /\ above[x].name = n /\ \A j \in x + 1 .. l : above[j].name # n
    BY <1>1, <1>3 DEF IsLast
  <2> HIDE DEF l, k
  <2>1. x \in DOMAIN all /\ all[x].name = n
    BY <1>1, <2>0
  <2>2. ASSUME NEW j \in x + 1 .. Len(all) PROVE all[j].name # n
    <3>1. CASE j <= l
      <4>1. j \in 1 .. l /\ j \in x + 1 .. l
        BY <1>1, <2>0, <3>1
      <4> QED BY <1>1, <2>0, <4>1
    <3>2. CASE j > l
      <4>1. j - l \in 1 .. k /\ l + (j - l) = j
        BY <1>1, <2>0, <3>2
      <4>2. all[j] = own[j - l]
        BY <1>1, <4>1
      <4> QED BY <1>1, <1>3, <4>1, <4>2 DEF HasMember
    <3>3. j \in Int /\ l \in Int
      BY <1>1, <2>0
    <3> QED BY <3>1, <3>2, <3>3
  <2> QED BY <2>1, <2>2 DEF IsLast
<1> QED BY <1>2, <1>3 DEF all, l

(* The last field of a name is that of the nearest class that declares it. *)
NearestIsLast(tab, c) ==
  LET way == Ancestry(tab, c) IN
  \A k \in DOMAIN way : \A i \in DOMAIN tab[way[k]].fields :
    (\A j \in 1 .. k - 1 : ~ HasMember(tab[way[j]].fields, tab[way[k]].fields[i].name)) =>
      IsLast(CollectFields(tab, c), tab[way[k]].fields[i].name,
             Len(CollectFields(tab, way[k])) - Len(tab[way[k]].fields) + i)

LEMMA FieldsAreNearest ==
  ASSUME NEW tab, Hierarchy(tab)
  PROVE  \A c \in DOMAIN tab : NearestIsLast(tab, c)
<1> DEFINE D == DOMAIN tab
           P == {c \in D : NearestIsLast(tab, c)}
<1>1. Object \in P
  <2>1. Ancestry(tab, Object) = <<Object>> /\ Object \in D /\ tab[Object].fields = <<>>
    BY AncestryOfObject, ItsLineage DEF Hierarchy, Lineage, ObjectInfo
  <2> QED BY <2>1 DEF NearestIsLast
<1>2. ASSUME NEW c \in D \ {Object}, tab[c].parent \in P PROVE c \in P
  <2> DEFINE p == tab[c].parent
             rest == Ancestry(tab, p)
             way == Ancestry(tab, c)
             above == CollectFields(tab, p)
             own == tab[c].fields
             all == CollectFields(tab, c)
  <2>1. p \in D /\ NearestIsLast(tab, p) /\ way = <<c>> \o rest
    BY <1>2, AncestryOfClass, ItsLineage
  <2>2. rest \in Seq(D)
    BY <2>1, AncestryIs, ItsLineage
  <2>3. /\ above \in Seq(Field) /\ own \in Seq(Field) /\ ~ Repeats(own)
        /\ all = above \o own
    <3>1. own \in Seq(Field) /\ ~ Repeats(own)
      BY DEF Hierarchy, Lineage
    <3> QED BY <2>1, <3>1, FieldsOfClass
  <2>4. /\ \A i \in DOMAIN own : IsLast(all, own[i].name, Len(above) + i)
        /\ \A n, x : IsLast(above, n, x) /\ ~ HasMember(own, n) => IsLast(all, n, x)
    BY <2>3, LastOfTwo
  <2>5. Len(all) - Len(own) = Len(above)
    BY <2>3
  <2>6. \A k \in DOMAIN rest : \A i \in DOMAIN tab[rest[k]].fields :
          (\A j \in 1 .. k - 1 : ~ HasMember(tab[rest[j]].fields, tab[rest[k]].fields[i].name)) =>
            IsLast(above, tab[rest[k]].fields[i].name,
                   Len(CollectFields(tab, rest[k])) - Len(tab[rest[k]].fields) + i)
    BY <2>1 DEF NearestIsLast
  <2>7. /\ Len(rest) \in Nat /\ DOMAIN rest = 1 .. Len(rest)
        /\ DOMAIN way = 1 .. Len(rest) + 1 /\ way[1] = c
        /\ \A k \in 1 .. Len(rest) : way[k + 1] = rest[k]
    BY <2>1, <2>2
  <2> HIDE DEF p, rest, way, above, all
  <2>8. ASSUME NEW k \in DOMAIN way, NEW i \in DOMAIN tab[way[k]].fields,
               \A j \in 1 .. k - 1 : ~ HasMember(tab[way[j]].fields, tab[way[k]].fields[i].name)
        PROVE  IsLast(all, tab[way[k]].fields[i].name,
                      Len(CollectFields(tab, way[k])) - Len(tab[way[k]].fields) + i)
    <3>1. CASE k = 1
      <4>1. way[k] = c /\ tab[way[k]].fields = own /\ CollectFields(tab, way[k]) = all
        BY <2>7, <3>1 DEF all
      <4> HIDE DEF own
      <4> QED BY <2>4, <2>5, <4>1
    <3>2. CASE k # 1
      <4> DEFINE h == k - 1
                 n == tab[way[k]].fields[i].name
      <4>1. h \in 1 .. Len(rest) /\ h + 1 = k
        BY <2>7, <3>2
      <4>2. way[k] = rest[h]
        BY <2>7, <4>1
      <4>3. ASSUME NEW j \in 1 .. h - 1 PROVE ~ HasMember(tab[rest[j]].fields, n)
        <5>1. j + 1 \in 1 .. k - 1 /\ j \in 1 .. Len(rest)
          BY <2>7, <4>1
        <5>2. way[j + 1] = rest[j]
          BY <2>7, <5>1
        <5> QED BY <2>8, <5>1, <5>2
      <4>4. ~ HasMember(own, n)
        <5>1. 1 \in 1 .. k - 1
          BY <2>7, <4>1
        <5> QED BY <2>7, <2>8, <5>1
      <4> DEFINE x == Len(CollectFields(tab, way[k])) - Len(tab[way[k]].fields) + i
      <4>5. IsLast(above, n, x)
        <5> HIDE DEF h
        <5> QED BY <2>6, <2>7, <4>1, <4>2, <4>3
      <4> HIDE DEF n, x
      <4>6. IsLast(all, n, x)
        BY <2>4, <4>4, <4>5
      <4> QED BY <4>6 DEF n, x
    <3> QED BY <3>1, <3>2
  <2> QED BY <2>8 DEF NearestIsLast, way, all
<1>3. DOMAIN tab \subseteq P
  <2> HIDE DEF P
  <2> QED BY <1>1, <1>2, ByParent, ItsLineage
<1> QED BY <1>3

LEMMA GenInvTellsFields ==
  ASSUME GenInv
  PROVE  FieldIndexIsNearest
<1> SUFFICES ASSUME NEW c \in DOMAIN layout, NEW k \in DOMAIN Ancestry(table, c),
                    NEW i \in DOMAIN table[Ancestry(table, c)[k]].fields,
                    \A j \in 1 .. k - 1 : ~ HasMember(table[Ancestry(table, c)[j]].fields,
                                             table[Ancestry(table, c)[k]].fields[i].name)
             PROVE  FieldIndex(c, table[Ancestry(table, c)[k]].fields[i].name)
                      = Len(CollectFields(table, Ancestry(table, c)[k]))
                          - Len(table[Ancestry(table, c)[k]].fields) + i
  BY DEF FieldIndexIsNearest
<1> DEFINE n == table[Ancestry(table, c)[k]].fields[i].name
           x == Len(CollectFields(table, Ancestry(table, c)[k]))
                  - Len(table[Ancestry(table, c)[k]].fields) + i
<1>1. c \in DOMAIN table /\ layout[c] = CollectFields(table, c) /\ Hierarchy(table)
  BY PastAreClasses DEF GenInv, LayoutFor, Course
<1>2. NearestIsLast(table, c)
  BY <1>1, FieldsAreNearest
<1>3. IsLast(CollectFields(table, c), n, x)
  BY <1>2 DEF NearestIsLast
<1>4. CollectFields(table, c) \in Seq(Field)
  BY <1>1, FieldsOfClass
<1> HIDE DEF n, x
<1>5. LastNamed(CollectFields(table, c), n) = x
  BY <1>3, <1>4, LastNamedIs
<1> QED BY <1>1, <1>5 DEF n, x, FieldIndex

LEMMA GenInvTellsThunks ==
  ASSUME GenInv
  PROVE  ThunksGoUp
<1> SUFFICES ASSUME NEW k \in DOMAIN functions, k # EntryPoint, functions[k].does = "call",
                    k[2] \in MethodName
             PROVE  \E a \in Range(Tail(Ancestry(table, k[1]))) :
                      functions[k].to = <<a, k[2]>> /\ <<a, k[2]>> \in DOMAIN functions
  BY DEF ThunksGoUp
<1>1. Emitted(ParentsFirst, table, Done, functions)
  BY DEF GenInv, MethodsFor
<1>2. PICK c, n : c \in DOMAIN table /\ n \in MethodName /\ k = <<c, n>>
  BY <1>1 DEF Emitted
<1>3. c \in Done /\ HasMember(CollectMethods(table, c), n)
  BY <1>1, <1>2 DEF Emitted
<1>4. PICK i \in DOMAIN CollectMethods(table, c) : CollectMethods(table, c)[i].name = n
  BY <1>3 DEF HasMember
<1>5. Serves(ParentsFirst, table, functions, c, CollectMethods(table, c)[i])
  BY <1>1, <1>3 DEF Emitted
<1> QED BY <1>2, <1>4, <1>5 DEF Serves

-----------------------------------------------------------------------------
(* A class has the methods that are declared on its way.                   *)
LEMMA HasWhatIsDeclared ==
  ASSUME Hierarchy(table), NEW n
  PROVE  \A c \in DOMAIN table :
           HasMember(CollectMethods(table, c), n) <=>
             \E a \in Range(Ancestry(table, c)) : a \in Declares(n)
<1> DEFINE P == {c \in DOMAIN table : HasMember(CollectMethods(table, c), n) <=>
                   \E a \in Range(Ancestry(table, c)) : a \in Declares(n)}
<1>1. Object \in P
  <2>1. Range(Ancestry(table, Object)) = {Object}
    BY ObjectIsAlone, ItsLineage
  <2>2. /\ CollectMethods(table, Object) = Builtins
        /\ Object \in DOMAIN table /\ table[Object].methods = Builtins
    <3>1. Object \in DOMAIN table /\ table[Object] = ObjectInfo
      BY DEF Hierarchy, Lineage
    <3> QED BY <3>1, MethodsOfClass DEF ObjectInfo
  <2> QED BY <2>1, <2>2 DEF Declares
<1>2. ASSUME NEW c \in DOMAIN table \ {Object}, table[c].parent \in P PROVE c \in P
  <2>1. Range(Ancestry(table, c)) = {c} \cup Range(Ancestry(table, table[c].parent))
    BY AncestryOfClass, ItsLineage
  <2>2. HasMember(CollectMethods(table, c), n) <=>
          \/ HasMember(CollectMethods(table, table[c].parent), n)
          \/ HasMember(table[c].methods, n)
    BY MethodsOfClass
  <2>3. c \in Declares(n) <=> HasMember(table[c].methods, n)
    BY DEF Declares
  <2> QED BY <1>2, <2>1, <2>2, <2>3
<1>3. DOMAIN table \subseteq P
  <2> HIDE DEF P
  <2> QED BY <1>1, <1>2, ByParent, ItsLineage
<1> QED BY <1>3

(* A slot of a class is one of each of its subclasses, for the same method. *)
LEMMA SlotsAreKept ==
  ASSUME NEW tab, Hierarchy(tab)
  PROVE  \A d \in DOMAIN tab : \A s \in Range(Ancestry(tab, d)) :
           /\ Len(CollectMethods(tab, s)) <= Len(CollectMethods(tab, d))
           /\ \A x \in 1 .. Len(CollectMethods(tab, s)) :
                CollectMethods(tab, s)[x].name = CollectMethods(tab, d)[x].name
<1> DEFINE Kept(s, d) == /\ Len(CollectMethods(tab, s)) <= Len(CollectMethods(tab, d))
                         /\ \A x \in 1 .. Len(CollectMethods(tab, s)) :
                              CollectMethods(tab, s)[x].name = CollectMethods(tab, d)[x].name
           P == {d \in DOMAIN tab : \A s \in Range(Ancestry(tab, d)) : Kept(s, d)}
<1>0. \A c \in DOMAIN tab : Len(CollectMethods(tab, c)) \in Nat
  <2> SUFFICES ASSUME NEW c \in DOMAIN tab PROVE Len(CollectMethods(tab, c)) \in Nat
    OBVIOUS
  <2>1. CollectMethods(tab, c) \in Seq(Method)
    BY MethodsOfClass
  <2> QED BY <2>1
<1>1. Object \in P
  <2>1. Range(Ancestry(tab, Object)) = {Object} /\ Object \in DOMAIN tab
    BY ObjectIsAlone, ItsLineage
  <2>2. Kept(Object, Object)
    BY <1>0, <2>1
  <2> QED BY <2>1, <2>2
<1>2. ASSUME NEW c \in DOMAIN tab \ {Object}, tab[c].parent \in P PROVE c \in P
  <2> DEFINE p == tab[c].parent
  <2>1. Range(Ancestry(tab, c)) = {c} \cup Range(Ancestry(tab, p)) /\ p \in DOMAIN tab
    BY AncestryOfClass, ItsLineage
  <2>2. Kept(c, c)
    BY <1>0
  <2>3. Kept(p, c)
    <3>1. Overrides(CollectMethods(tab, c), CollectMethods(tab, p), tab[c].methods)
      BY MethodsOfClass
    <3> QED BY <3>1 DEF Overrides
  <2>4. ASSUME NEW s \in Range(Ancestry(tab, p)) PROVE Kept(s, c)
    <3>1. Kept(s, p) /\ s \in DOMAIN tab
      BY <1>2, <2>1, WaysGoOn, ItsLineage
    <3> DEFINE a == CollectMethods(tab, s)
               b == CollectMethods(tab, p)
               e == CollectMethods(tab, c)
    <3>2. Len(a) \in Nat /\ Len(b) \in Nat /\ Len(e) \in Nat
      BY <1>0, <2>1, <3>1
    <3> HIDE DEF a, b, e
    <3>3. Len(a) <= Len(b) /\ \A x \in 1 .. Len(a) : a[x].name = b[x].name
      BY <3>1 DEF a, b
    <3>4. Len(b) <= Len(e) /\ \A x \in 1 .. Len(b) : b[x].name = e[x].name
      BY <2>3 DEF b, e
    <3>5. Len(a) <= Len(e) /\ \A x \in 1 .. Len(a) : a[x].name = e[x].name
      BY <3>2, <3>3, <3>4
    <3> QED BY <3>5 DEF a, e
  <2> HIDE DEF Kept
  <2> QED BY <2>1, <2>2, <2>4
<1>3. DOMAIN tab \subseteq P
  <2> HIDE DEF P
  <2> QED BY <1>1, <1>2, ByParent, ItsLineage
<1> QED BY <1>3

(* The nearest class that declares a method.                               *)
LEMMA NearestIs ==
  ASSUME Hierarchy(table), NEW n, NEW c \in DOMAIN table
  PROVE  /\ c \in Declares(n) => NearestDeclaring(c, n) = c
         /\ c \notin Declares(n) /\ HasMember(CollectMethods(table, c), n) =>
              /\ c # Object
              /\ NearestDeclaring(c, n) = NearestDeclaring(table[c].parent, n)
         /\ HasMember(CollectMethods(table, c), n) =>
              /\ NearestDeclaring(c, n) \in Range(Ancestry(table, c))
              /\ NearestDeclaring(c, n) \in Declares(n)
<1> DEFINE way == Ancestry(table, c)
<1>1. way \in Seq(DOMAIN table) /\ Len(way) \in Nat \ {0} /\ way[1] = c
  BY AncestryIs, ItsLineage
<1>2. NearestDeclaring(c, n) = FirstOf(way, Declares(n))
  BY DEF NearestDeclaring
<1>3. HasMember(CollectMethods(table, c), n) => \E a \in Range(way) : a \in Declares(n)
  BY HasWhatIsDeclared
<1> HIDE DEF way
<1>4. ASSUME c \in Declares(n) PROVE NearestDeclaring(c, n) = c
  <2>1. way # <<>>
    BY <1>1
  <2> QED BY <1>1, <1>2, <1>4, <2>1, FirstOfHead
<1>5. ASSUME c \notin Declares(n), HasMember(CollectMethods(table, c), n)
      PROVE  /\ c # Object
             /\ NearestDeclaring(c, n) = NearestDeclaring(table[c].parent, n)
  <2>1. PICK a \in Range(way) : a \in Declares(n)
    BY <1>3, <1>5
  <2>2. c # Object
    <3>1. Range(Ancestry(table, Object)) = {Object}
      BY ObjectIsAlone, ItsLineage
    <3> QED BY <1>5, <2>1, <3>1 DEF way
  <2> DEFINE rest == Ancestry(table, table[c].parent)
  <2>3. way = <<c>> \o rest /\ a \in Range(rest) /\ table[c].parent \in DOMAIN table
    <3>1. /\ way = <<c>> \o rest /\ Range(way) = {c} \cup Range(rest)
          /\ table[c].parent \in DOMAIN table
      BY <2>2, AncestryOfClass, ItsLineage DEF way
    <3> QED BY <1>5, <2>1, <3>1
  <2>4. rest \in Seq(DOMAIN table) /\ \A i, l \in DOMAIN rest : rest[i] = rest[l] => i = l
    BY <2>3, AncestryIs, ItsLineage
  <2>5. NearestDeclaring(table[c].parent, n) = FirstOf(rest, Declares(n))
    BY DEF NearestDeclaring
  <2> HIDE DEF rest
  <2>6. FirstOf(<<c>> \o rest, Declares(n)) = FirstOf(rest, Declares(n))
    BY <1>5, <2>1, <2>3, <2>4, FirstOfRest
  <2> QED BY <1>2, <2>2, <2>3, <2>5, <2>6
<1>6. ASSUME HasMember(CollectMethods(table, c), n)
      PROVE  /\ NearestDeclaring(c, n) \in Range(way)
             /\ NearestDeclaring(c, n) \in Declares(n)
  <2>1. PICK a \in Range(way) : a \in Declares(n)
    BY <1>3, <1>6
  <2>2. PICK i \in DOMAIN way : FirstOf(way, Declares(n)) = way[i] /\ way[i] \in Declares(n)
    BY <1>1, <2>1, FirstOfIs
  <2> QED BY <1>2, <2>2 DEF Range
<1> QED BY <1>4, <1>5, <1>6 DEF way

(* From a subclass on, the nearest class is at or below the one from the   *)
(* class on.                                                               *)
LEMMA NearestIsBelow ==
  ASSUME Hierarchy(table), NEW n, NEW s \in DOMAIN table,
         HasMember(CollectMethods(table, s), n)
  PROVE  \A d \in DOMAIN table : IsSubtype(d, s) =>
           /\ HasMember(CollectMethods(table, d), n)
           /\ IsSubtype(NearestDeclaring(d, n), NearestDeclaring(s, n))
<1> DEFINE Below(d) == /\ HasMember(CollectMethods(table, d), n)
                       /\ IsSubtype(NearestDeclaring(d, n), NearestDeclaring(s, n))
           P == {d \in DOMAIN table : IsSubtype(d, s) => Below(d)}
<1>1. Below(s)
  <2>1. NearestDeclaring(s, n) \in DOMAIN table
    BY NearestIs, WaysGoOn, ItsLineage
  <2> QED BY <2>1, StartsAtItself, ItsLineage DEF IsSubtype
<1>2. Object \in P
  <2>1. Range(Ancestry(table, Object)) = {Object} /\ Object \in DOMAIN table
    BY ObjectIsAlone, ItsLineage
  <2>2. IsSubtype(Object, s) => s = Object
    BY <2>1 DEF IsSubtype
  <2> HIDE DEF Below
  <2> QED BY <1>1, <2>1, <2>2
<1>3. ASSUME NEW c \in DOMAIN table \ {Object}, table[c].parent \in P PROVE c \in P
  <2> SUFFICES ASSUME IsSubtype(c, s) PROVE Below(c)
    OBVIOUS
  <2> DEFINE p == table[c].parent
  <2>1. Range(Ancestry(table, c)) = {c} \cup Range(Ancestry(table, p)) /\ p \in DOMAIN table
    BY AncestryOfClass, ItsLineage
  <2>2. CASE s = c
    <3> HIDE DEF Below
    <3> QED BY <1>1, <2>2
  <2>3. CASE s \in Range(Ancestry(table, p))
    <3>1. Below(p)
      BY <1>3, <2>3 DEF IsSubtype
    <3>2. HasMember(CollectMethods(table, c), n)
      BY <3>1, MethodsOfClass
    <3>3. CASE c \in Declares(n)
      <4>1. NearestDeclaring(c, n) = c
        BY <3>3, NearestIs
      <4>2. NearestDeclaring(s, n) \in Range(Ancestry(table, s))
        BY NearestIs
      <4>3. Range(Ancestry(table, s)) \subseteq Range(Ancestry(table, c))
        BY WaysGoOn, ItsLineage DEF IsSubtype
      <4> QED BY <3>2, <4>1, <4>2, <4>3 DEF IsSubtype
    <3>4. CASE c \notin Declares(n)
      <4>1. NearestDeclaring(c, n) = NearestDeclaring(p, n)
        BY <3>2, <3>4, NearestIs
      <4> QED BY <3>1, <3>2, <4>1
    <3> QED BY <3>3, <3>4
  <2> QED BY <2>1, <2>2, <2>3 DEF IsSubtype
<1>4. DOMAIN table \subseteq P
  <2> HIDE DEF P
  <2> QED BY <1>2, <1>3, ByParent, ItsLineage
<1> QED BY <1>4

-----------------------------------------------------------------------------
(* A call on its way: it has reached a function of a class from which on   *)
(* the nearest class that declares the method is that of the object.       *)
OnItsWay ==
  ParentsFirst /\ static # Object =>
    \E c \in DOMAIN table :
      /\ at = <<c, method>> /\ HasMember(CollectMethods(table, c), method)
      /\ NearestDeclaring(c, method) = NearestDeclaring(dynamic, method)
      /\ phase = "reached" => c \in Declares(method)

CallInv ==
  phase # "compiled" =>
    /\ loops = <<>> /\ phase \in {"calling", "reached"}
    /\ static \in DOMAIN table /\ dynamic \in DOMAIN table /\ method \in MethodName
    /\ IsSubtype(dynamic, static) /\ HasMember(CollectMethods(table, static), method)
    /\ OnItsWay

LEMMA AllIsDone ==
  ASSUME GenInv, loops = <<>>, NEW q \in Nat \ {0}
  PROVE  NamesPast(q) = DOMAIN table \ {Object}
<1>1. \A i : Past(q, i)
  <2>1. Len(loops) = 0
    OBVIOUS
  <2> QED BY <2>1 DEF Past
<1>2. NamesPast(q) = {program[i].name : i \in DOMAIN program}
  BY <1>1 DEF NamesPast
<1>3. /\ DOMAIN table = {Object} \cup {program[i].name : i \in DOMAIN program}
      /\ \A i \in DOMAIN program : program[i].name # Object
  BY DEF GenInv, Course, TableTells
<1> QED BY <1>2, <1>3

(* The slot of the static type holds the function of the object's class.   *)
LEMMA SlotIsRight ==
  ASSUME GenInv, loops = <<>>, NEW s \in DOMAIN table \ {Object}, NEW d \in DOMAIN table,
         IsSubtype(d, s), NEW m \in MethodName, HasMember(CollectMethods(table, s), m)
  PROVE  vtables[d][GetVtableIndex(s, m) + 1] = <<d, m>>
<1> DEFINE a == CollectMethods(table, s)
           b == CollectMethods(table, d)
           x == FirstNamed(a, m)
<1>1. Hierarchy(table) /\ SlotsFor /\ VtablesFor
  BY DEF GenInv, Course
<1>2. a \in Seq(Method) /\ b \in Seq(Method)
  BY <1>1, MethodsOfClass
<1>3. d # Object
  BY <1>1, ObjectIsAlone, ItsLineage DEF IsSubtype
<1>4. s \in DOMAIN slots /\ slots[s] = a /\ vtables[d] = VtableOf(table, d)
  <2>1. s \in NamesPast(9) /\ d \in NamesPast(4)
    BY <1>3, AllIsDone
  <2> QED BY <1>1, <2>1 DEF SlotsFor, VtablesFor
<1>5. Len(a) <= Len(b) /\ \A i \in 1 .. Len(a) : a[i].name = b[i].name
  BY <1>1, SlotsAreKept DEF IsSubtype
<1> HIDE DEF a, b
<1>6. x \in DOMAIN a /\ a[x].name = m
  BY <1>2, FirstNamedIs DEF a
<1>7. GetVtableIndex(s, m) = x - 1
  BY <1>4 DEF GetVtableIndex, a
<1> HIDE DEF x
<1>8. x \in 1 .. Len(a) /\ x \in DOMAIN b /\ (x - 1) + 1 = x
  BY <1>2, <1>5, <1>6
<1>9. b[x].name = m
  BY <1>5, <1>6, <1>8
<1>10. vtables[d][x] = <<d, m>>
  BY <1>4, <1>8, <1>9 DEF VtableOf, b
<1> QED BY <1>7, <1>8, <1>10

LEMMA CallInvAtFirst == Init => CallInv
BY DEF Init, CallInv

LEMMA CallInvOn == GenInv /\ CallInv /\ [Next]_allVars => CallInv'
<1> SUFFICES ASSUME GenInv, CallInv, [Next]_allVars PROVE CallInv'
  OBVIOUS
<1>1. Hierarchy(table) /\ Emitted(ParentsFirst, table, Done, functions)
  BY DEF GenInv, Course, MethodsFor
<1>2. CASE GenNext /\ UNCHANGED callVars
  <2>1. loops # <<>>
    BY <1>2 DEF GenNext, Turn, DeclareVtable, DeclareClass, LayOutVtable, LayOutStruct,
                DeclareInit, DeclareNew, EmitMethods, EmitVtable, EmitInit, EmitNew,
                EmitEntryPoint
  <2>2. phase = "compiled"
    BY <2>1 DEF CallInv
  <2> QED BY <1>2, <2>2 DEF callVars, CallInv
<1>3. CASE Call
  <2>1. PICK s, d, m : /\ s \in DOMAIN table /\ d \in DOMAIN table /\ m \in MethodName
                       /\ IsSubtype(d, s) /\ \E a \in Declares(m) : IsSubtype(s, a)
                       /\ static' = s /\ dynamic' = d /\ method' = m
                       /\ at' = vtables[d][GetVtableIndex(s, m) + 1]
    BY <1>3 DEF Call
  <2>2. /\ loops = <<>> /\ loops' = loops /\ table' = table /\ program' = program
        /\ phase' = "calling"
    BY <1>3 DEF Call, genVars
  <2>3. HasMember(CollectMethods(table, s), m)
    BY <1>1, <2>1, HasWhatIsDeclared DEF IsSubtype
  <2>4. HasMember(CollectMethods(table, d), m)
    BY <1>1, <2>1, <2>3, NearestIsBelow
  <2>5. s # Object => at' = <<d, m>>
    BY <2>1, <2>2, <2>3, SlotIsRight
  <2>6. OnItsWay'
    BY <2>1, <2>2, <2>4, <2>5 DEF OnItsWay
  <2>7. IsSubtype(d, s)' <=> IsSubtype(d, s)
    BY <2>2 DEF IsSubtype
  <2> QED BY <2>1, <2>2, <2>3, <2>6, <2>7 DEF CallInv, IsSubtype
<1>4. CASE FollowThunk
  <2>1. /\ phase = "calling" /\ functions[at].does = "call" /\ at' = functions[at].to
        /\ loops' = loops /\ table' = table /\ program' = program /\ functions' = functions
        /\ phase' = phase /\ static' = static /\ dynamic' = dynamic /\ method' = method
    BY <1>4 DEF FollowThunk, genVars
  <2>2. /\ loops = <<>> /\ static \in DOMAIN table /\ dynamic \in DOMAIN table
        /\ method \in MethodName /\ IsSubtype(dynamic, static)
        /\ HasMember(CollectMethods(table, static), method) /\ OnItsWay
    BY <2>1 DEF CallInv
  <2>3. ASSUME ParentsFirst, static # Object
        PROVE  \E c \in DOMAIN table :
                 /\ at' = <<c, method>> /\ HasMember(CollectMethods(table, c), method)
                 /\ NearestDeclaring(c, method) = NearestDeclaring(dynamic, method)
    <3>1. PICK c \in DOMAIN table :
            /\ at = <<c, method>> /\ HasMember(CollectMethods(table, c), method)
            /\ NearestDeclaring(c, method) = NearestDeclaring(dynamic, method)
      BY <2>2, <2>3 DEF OnItsWay
    <3>2. c \in Done
      <4>1. NamesPast(5) = DOMAIN table \ {Object}
        BY <2>2, AllIsDone
      <4> QED BY <4>1 DEF Done
    <3>3. PICK i \in DOMAIN CollectMethods(table, c) : CollectMethods(table, c)[i].name = method
      BY <3>1 DEF HasMember
    <3>4. Serves(ParentsFirst, table, functions, c, CollectMethods(table, c)[i])
      BY <1>1, <3>2 DEF Emitted
    <3>5. /\ ~ HasMember(table[c].methods, method)
          /\ functions[at].to = <<table[c].parent, method>>
      BY <2>1, <2>3, <3>1, <3>3, <3>4 DEF Serves
    <3>6. c \notin Declares(method)
      BY <3>5 DEF Declares
    <3>7. /\ c # Object
          /\ NearestDeclaring(c, method) = NearestDeclaring(table[c].parent, method)
      BY <1>1, <3>1, <3>6, NearestIs
    <3>8. /\ table[c].parent \in DOMAIN table
          /\ HasMember(CollectMethods(table, table[c].parent), method)
      BY <1>1, <3>1, <3>5, <3>7, AncestryOfClass, ItsLineage, MethodsOfClass
    <3> QED BY <2>1, <3>1, <3>5, <3>7, <3>8
  <2>4. OnItsWay'
    BY <2>1, <2>3 DEF OnItsWay, ParentsFirst, NearestDeclaring, Declares
  <2> QED BY <2>1, <2>2, <2>4 DEF CallInv, IsSubtype
<1>5. CASE Reach
  <2>1. /\ phase = "calling" /\ functions[at].does # "call" /\ at' = at
        /\ loops' = loops /\ table' = table /\ program' = program /\ functions' = functions
        /\ phase' = "reached" /\ static' = static /\ dynamic' = dynamic /\ method' = method
    BY <1>5 DEF Reach, genVars
  <2>2. /\ loops = <<>> /\ static \in DOMAIN table /\ dynamic \in DOMAIN table
        /\ method \in MethodName /\ IsSubtype(dynamic, static)
        /\ HasMember(CollectMethods(table, static), method) /\ OnItsWay
    BY <2>1 DEF CallInv
  <2>3. ASSUME ParentsFirst, static # Object
        PROVE  \E c \in DOMAIN table :
                 /\ at = <<c, method>> /\ HasMember(CollectMethods(table, c), method)
                 /\ NearestDeclaring(c, method) = NearestDeclaring(dynamic, method)
                 /\ c \in Declares(method)
    <3>1. PICK c \in DOMAIN table :
            /\ at = <<c, method>> /\ HasMember(CollectMethods(table, c), method)
            /\ NearestDeclaring(c, method) = NearestDeclaring(dynamic, method)
      BY <2>2, <2>3 DEF OnItsWay
    <3>2. c \in Done
      <4>1. NamesPast(5) = DOMAIN table \ {Object}
        BY <2>2, AllIsDone
      <4> QED BY <4>1 DEF Done
    <3>3. PICK i \in DOMAIN CollectMethods(table, c) : CollectMethods(table, c)[i].name = method
      BY <3>1 DEF HasMember
    <3>4. Serves(ParentsFirst, table, functions, c, CollectMethods(table, c)[i])
      BY <1>1, <3>2 DEF Emitted
    <3>5. HasMember(table[c].methods, method)
      BY <2>1, <2>3, <3>1, <3>3, <3>4 DEF Serves
    <3> QED BY <3>1, <3>5 DEF Declares
  <2>4. OnItsWay'
    BY <2>1, <2>3 DEF OnItsWay, ParentsFirst, NearestDeclaring, Declares
  <2> QED BY <2>1, <2>2, <2>4 DEF CallInv, IsSubtype
<1>6. CASE UNCHANGED allVars
  BY <1>6 DEF allVars, genVars, callVars, CallInv, OnItsWay, IsSubtype, ParentsFirst,
              NearestDeclaring, Declares
<1> QED BY <1>2, <1>3, <1>4, <1>5, <1>6 DEF Next

LEMMA GenInvUnchanged ==
  ASSUME GenInv, UNCHANGED genVars
  PROVE  GenInv'
<1>1. /\ loops' = loops /\ index' = index /\ program' = program /\ table' = table
      /\ slots' = slots /\ layout' = layout /\ functions' = functions /\ vtables' = vtables
  BY DEF genVars
<1>2. OnCourse'
  BY <1>1 DEF OnCourse, GenInv, Course
<1>3. Course'
  BY <1>1, <1>2 DEF GenInv, Course
<1>4. \A q, i : Past(q, i)' <=> Past(q, i)
  BY <1>1 DEF Past
<1>5. \A q : NamesPast(q)' = NamesPast(q)
  BY <1>1, <1>4 DEF NamesPast
<1>6. SlotsFor' /\ LayoutFor' /\ Constructors' /\ NoBodyYet' /\ VtablesFor'
  BY <1>1, <1>5 DEF GenInv, SlotsFor, LayoutFor, Constructors, NoBodyYet, VtablesFor
<1>7. MethodsFor'
  <2>1. Done' = Done /\ (ParentsFirst' <=> ParentsFirst)
    BY <1>1, <1>5 DEF Done, ParentsFirst
  <2>2. SameMethods(table, functions, functions')
    BY <1>1, UnchangedIsSame
  <2>3. Emitted(ParentsFirst, table, Done, functions')
    <3>1. Hierarchy(table) /\ Emitted(ParentsFirst, table, Done, functions)
      BY DEF GenInv, Course, MethodsFor
    <3> QED BY <2>2, <3>1, EmittedStays
  <2> QED BY <1>1, <2>1, <2>3 DEF MethodsFor
<1> QED BY <1>3, <1>6, <1>7 DEF GenInv

LEMMA InvAlways == Spec => [](GenInv /\ CallInv)
<1>1. Init => GenInv /\ CallInv
  BY GenInvAtFirst, CallInvAtFirst DEF Init
<1>2. GenInv /\ CallInv /\ [Next]_allVars => (GenInv /\ CallInv)'
  <2> SUFFICES ASSUME GenInv, CallInv, [Next]_allVars PROVE GenInv' /\ CallInv'
    OBVIOUS
  <2>1. CallInv'
    BY CallInvOn
  <2>2. CASE GenNext
    BY <2>1, <2>2, GenInvOn
  <2>3. CASE UNCHANGED genVars
    BY <2>1, <2>3, GenInvUnchanged
  <2> QED BY <2>2, <2>3 DEF Next, Call, FollowThunk, Reach, allVars
<1> QED BY <1>1, <1>2, PTL DEF Spec

(* A reached call runs what the override is, of the types of the static    *)
(* type's method.                                                          *)
LEMMA InvTellsCalls ==
  ASSUME GenInv, CallInv
  PROVE  CallsReachTheOverride /\ CallsAgreeOnTypes
<1> SUFFICES ASSUME phase = "reached", ParentsFirst, static # Object
             PROVE  /\ at = <<NearestDeclaring(dynamic, method), method>>
                    /\ OverridesConform => AgreesOnTypes
  BY DEF CallsReachTheOverride, CallsAgreeOnTypes, RunsTheOverride, AgreesOnTypes, Reached
<1>1. /\ Hierarchy(table) /\ Emitted(ParentsFirst, table, Done, functions)
      /\ loops = <<>> /\ static \in DOMAIN table /\ dynamic \in DOMAIN table
      /\ method \in MethodName /\ IsSubtype(dynamic, static)
      /\ HasMember(CollectMethods(table, static), method) /\ OnItsWay
  BY DEF GenInv, Course, MethodsFor, CallInv
<1>2. PICK e \in DOMAIN table :
        /\ at = <<e, method>> /\ HasMember(CollectMethods(table, e), method)
        /\ NearestDeclaring(e, method) = NearestDeclaring(dynamic, method)
        /\ e \in Declares(method)
  BY <1>1 DEF OnItsWay
<1>3. e = NearestDeclaring(dynamic, method)
  BY <1>1, <1>2, NearestIs
<1>4. ASSUME OverridesConform PROVE AgreesOnTypes
  <2> DEFINE a == NearestDeclaring(static, method)
  <2>1. a \in Declares(method) /\ a \in DOMAIN table
    BY <1>1, NearestIs DEF Declares
  <2>2. IsSubtype(e, a)
    BY <1>1, <1>3, NearestIsBelow
  <2> HIDE DEF a
  <2>3. PICK k \in DOMAIN table[a].methods : table[a].methods[k].name = method
    BY <2>1 DEF Declares, HasMember
  <2>4. \A c \in DOMAIN table : table[c].methods \in Seq(Method) /\ ~ Repeats(table[c].methods)
    BY <1>1 DEF Hierarchy, Lineage
  <2>5. GetMember(table[a].methods, method) = table[a].methods[k]
    <3>1. k \in 1 .. Len(table[a].methods)
      BY <2>1, <2>3, <2>4
    <3> QED BY <2>1, <2>3, <2>4, <3>1, FoundOnce
  <2>6. PICK i \in DOMAIN CollectMethods(table, e) : CollectMethods(table, e)[i].name = method
    BY <1>2 DEF HasMember
  <2> DEFINE m == CollectMethods(table, e)[i]
  <2>7. functions[at].formals = m.formals /\ functions[at].ret = m.ret
    <3>1. e \in Done
      <4>1. NamesPast(5) = DOMAIN table \ {Object}
        BY <1>1, AllIsDone
      <4> QED BY <4>1 DEF Done
    <3>2. Serves(ParentsFirst, table, functions, e, m)
      BY <1>1, <3>1 DEF Emitted
    <3> QED BY <1>2, <2>6, <3>2 DEF Serves
  <2>8. m \in Range(table[e].methods)
    <3>1. m \in Range(CollectMethods(table, e))
      BY DEF Range
    <3>2. HasMember(table[e].methods, m.name)
      BY <1>2, <2>6 DEF Declares
    <3>3. CASE e = Object
      <4>1. CollectMethods(table, e) = Builtins /\ table[e] = ObjectInfo
        BY <1>1, <3>3, MethodsOfClass DEF Hierarchy, Lineage
      <4> QED BY <3>1, <4>1 DEF ObjectInfo
    <3>4. CASE e # Object
      BY <1>1, <3>1, <3>2, <3>4, OwnComesFirst
    <3> QED BY <3>3, <3>4
  <2>9. m = table[a].methods[k]
    <3>1. PICK j \in DOMAIN table[e].methods : m = table[e].methods[j]
      BY <2>8 DEF Range
    <3>2. table[e].methods[j].name = table[a].methods[k].name
      BY <2>3, <2>6, <3>1
    <3> QED BY <1>4, <2>1, <2>2, <2>3, <3>1, <3>2 DEF OverridesConform
  <2> HIDE DEF m
  <2>10. functions[at].formals = table[a].methods[k].formals
         /\ functions[at].ret = table[a].methods[k].ret
    BY <2>7, <2>9
  <2> QED BY <2>5, <2>10 DEF AgreesOnTypes, a
<1> QED BY <1>2, <1>3, <1>4

-----------------------------------------------------------------------------
(* An object of a class can stand for one of its parent: every slot of the *)
(* parent's vtable type is one of the class's, for a method of that name,  *)
(* and the parent's struct begins the class's, whatever the order of the   *)
(* classes in the source (finalize_class_vtable, finalize_class_struct).   *)
THEOREM ClassesAlwaysExtendTheirParents == Spec => []ClassesExtendTheirParents
<1>1. GenInv /\ CallInv => ClassesExtendTheirParents
  BY GenInvTells
<1> QED BY <1>1, InvAlways, PTL

(* field_indices_ has for each field a class can see the slot of the one   *)
(* lookup_field finds, although a subclass may have another of its name.   *)
THEOREM FieldIndexIsAlwaysNearest == Spec => []FieldIndexIsNearest
<1>1. GenInv /\ CallInv => FieldIndexIsNearest
  BY GenInvTellsFields
<1> QED BY <1>1, InvAlways, PTL

(* emit_vtable fills every slot, with the class's own function of the type *)
(* that the slot has: it never leaves a null pointer in a vtable.          *)
THEOREM VtablesAreAlwaysComplete == Spec => []VtablesAreComplete
<1>1. GenInv /\ CallInv => VtablesAreComplete
  BY GenInvTells
<1> QED BY <1>1, InvAlways, PTL

(* By the time generate() translates a body, the constructors of every     *)
(* class are declared and all slots are final.                             *)
THEOREM BodiesAlwaysFindTheirReferences == Spec => []BodiesFindTheirReferences
<1>1. GenInv /\ CallInv => BodiesFindTheirReferences
  BY GenInvTells
<1> QED BY <1>1, InvAlways, PTL

(* A thunk calls the method of a class further up, which the module holds: *)
(* no chain of thunks comes back to where it began.                        *)
THEOREM ThunksAlwaysGoUp == Spec => []ThunksGoUp
<1>1. GenInv /\ CallInv => ThunksGoUp
  BY GenInvTellsThunks
<1> QED BY <1>1, InvAlways, PTL

(* A call that is not on an Object runs the most derived override of the   *)
(* object's class, when each class comes after its parent in the source.   *)
THEOREM CallsAlwaysReachTheOverride == Spec => []CallsReachTheOverride
<1>1. GenInv /\ CallInv => CallsReachTheOverride
  BY InvTellsCalls
<1> QED BY <1>1, InvAlways, PTL

(* And, if no override changes the types, of those the call was checked    *)
(* against.                                                                *)
THEOREM CallsAlwaysAgreeOnTypes == Spec => []CallsAgreeOnTypes
<1>1. GenInv /\ CallInv => CallsAgreeOnTypes
  BY InvTellsCalls
<1> QED BY <1>1, InvAlways, PTL

-----------------------------------------------------------------------------
(* When mangled names are apart, for every alphabet and every name.        *)
Twice == <<underscore, underscore>>

(* Both mangling functions put two underscores and more behind a class.    *)
LEMMA ArtifactIsMeth ==
  ASSUME NEW class \in Name, NEW word \in Name, underscore \in Character
  PROVE  Artifact(class, word) = Meth(class, <<underscore>> \o word)
<1> DEFINE one == <<underscore>>
<1>1. Twice \in Seq(Character) /\ one \in Seq(Character)
  BY DEF Twice
<1>2. class \in Seq(Character) /\ word \in Seq(Character)
  BY DEF Name
<1>3. <<underscore, underscore, underscore>> = Twice \o one
  BY DEF Twice
<1>4. class \o (Twice \o one) = (class \o Twice) \o one /\ class \o Twice \in Seq(Character)
  <2> HIDE DEF one
  <2> QED BY <1>1, <1>2, ConcatAssociative, ConcatProperties
<1>5. ((class \o Twice) \o one) \o word = (class \o Twice) \o (one \o word)
  <2> HIDE DEF one
  <2> QED BY <1>1, <1>2, <1>4, ConcatAssociative
<1>6. Artifact(class, word) = ((class \o Twice) \o one) \o word
  BY <1>3, <1>4 DEF Artifact
<1> QED BY <1>5, <1>6 DEF Meth, Twice

LEMMA MethAt ==
  ASSUME NEW class \in Name, NEW rest \in Name, underscore \in Character
  PROVE  /\ Meth(class, rest) \in Name
         /\ Len(Meth(class, rest)) = Len(class) + 2 + Len(rest)
         /\ \A i \in 1 .. Len(class) : Meth(class, rest)[i] = class[i]
         /\ Meth(class, rest)[Len(class) + 1] = underscore
         /\ Meth(class, rest)[Len(class) + 2] = underscore
         /\ \A i \in 1 .. Len(rest) : Meth(class, rest)[Len(class) + 2 + i] = rest[i]
<1> DEFINE front == class \o Twice
<1>1. class \in Seq(Character) /\ rest \in Seq(Character) /\ Twice \in Seq(Character)
  BY DEF Name, Twice
<1>2. Len(class) \in Nat /\ Len(rest) \in Nat /\ Len(Twice) = 2
  BY <1>1 DEF Twice
<1>3. /\ front \in Seq(Character) /\ Len(front) = Len(class) + 2
      /\ \A i \in 1 .. Len(class) + 2 :
           front[i] = IF i <= Len(class) THEN class[i] ELSE Twice[i - Len(class)]
  <2>1. /\ front \in Seq(Character) /\ Len(front) = Len(class) + Len(Twice)
        /\ \A i \in 1 .. Len(class) + Len(Twice) :
             front[i] = IF i <= Len(class) THEN class[i] ELSE Twice[i - Len(class)]
    BY <1>1, ConcatProperties, Zenon
  <2> QED BY <1>2, <2>1
<1>4. Meth(class, rest) = front \o rest
  BY DEF Meth, Twice
<1> HIDE DEF front
<1>5. /\ Meth(class, rest) \in Seq(Character)
      /\ Len(Meth(class, rest)) = Len(front) + Len(rest)
      /\ \A i \in 1 .. Len(front) + Len(rest) :
           Meth(class, rest)[i] = IF i <= Len(front) THEN front[i] ELSE rest[i - Len(front)]
  <2>1. /\ front \o rest \in Seq(Character)
        /\ Len(front \o rest) = Len(front) + Len(rest)
        /\ \A i \in 1 .. Len(front) + Len(rest) :
             (front \o rest)[i] = IF i <= Len(front) THEN front[i] ELSE rest[i - Len(front)]
    BY <1>1, <1>3, ConcatProperties, Zenon
  <2> QED BY <1>4, <2>1, Zenon
<1>6. \A i \in 1 .. Len(class) : Meth(class, rest)[i] = class[i]
  BY <1>2, <1>3, <1>5
<1>7. front[Len(class) + 1] = underscore /\ front[Len(class) + 2] = underscore
  <2>1. Twice[1] = underscore /\ Twice[2] = underscore
    BY DEF Twice
  <2>2. (Len(class) + 1) - Len(class) = 1 /\ (Len(class) + 2) - Len(class) = 2
    BY <1>2
  <2> QED BY <1>2, <1>3, <2>1, <2>2
<1>8. /\ Meth(class, rest)[Len(class) + 1] = underscore
      /\ Meth(class, rest)[Len(class) + 2] = underscore
  BY <1>2, <1>3, <1>5, <1>7
<1>9. \A i \in 1 .. Len(rest) : Meth(class, rest)[Len(class) + 2 + i] = rest[i]
  <2> TAKE i \in 1 .. Len(rest)
  <2>1. /\ Len(class) + 2 + i \in 1 .. Len(front) + Len(rest)
        /\ ~ (Len(class) + 2 + i <= Len(front))
        /\ (Len(class) + 2 + i) - Len(front) = i
    BY <1>2, <1>3
  <2> QED BY <1>5, <2>1
<1> QED BY <1>2, <1>3, <1>5, <1>6, <1>8, <1>9 DEF Name

(* A shorter plain class name would show its underscores in the other one. *)
LEMMA NoShorterClass ==
  ASSUME NEW c, NEW d, Plain(c), Plain(d), NEW m \in Name, NEW n \in Name,
         underscore \in Character, Meth(c, m) = Meth(d, n), Len(c) < Len(d)
  PROVE  FALSE
<1>1. c \in Name /\ d \in Name /\ Len(c) \in Nat /\ Len(d) \in Nat
  BY DEF Plain, Name
<1>2. Meth(d, n)[Len(c) + 1] = underscore /\ Meth(d, n)[Len(c) + 2] = underscore
  BY <1>1, MethAt
<1>3. Meth(d, n)[Len(c) + 1] = d[Len(c) + 1]
  <2>1. Len(c) + 1 \in 1 .. Len(d)
    BY <1>1
  <2> QED BY <1>1, <2>1, MethAt, Zenon
<1>4. CASE Len(d) = Len(c) + 1
  BY <1>1, <1>2, <1>3, <1>4 DEF Plain
<1>5. CASE Len(d) >= Len(c) + 2
  <2>1. Meth(d, n)[Len(c) + 2] = d[Len(c) + 2]
    <3>1. Len(c) + 2 \in 1 .. Len(d)
      BY <1>1, <1>5
    <3> QED BY <1>1, <3>1, MethAt, Zenon
  <2>2. Len(c) + 1 \in 1 .. Len(d) - 1 /\ (Len(c) + 1) + 1 = Len(c) + 2
    BY <1>1, <1>5
  <2> QED BY <1>2, <1>3, <2>1, <2>2 DEF Plain
<1> QED BY <1>1, <1>4, <1>5

LEMMA MethIsInjective ==
  ASSUME NEW c, NEW d, Plain(c), Plain(d), NEW m \in Name, NEW n \in Name,
         underscore \in Character, Meth(c, m) = Meth(d, n)
  PROVE  c = d /\ m = n
<1>1. c \in Name /\ d \in Name /\ Len(c) \in Nat /\ Len(d) \in Nat
  BY DEF Plain, Name
<1>2. Len(c) = Len(d)
  BY <1>1, NoShorterClass
<1>3. /\ Len(Meth(c, m)) = Len(c) + 2 + Len(m) /\ Len(Meth(d, n)) = Len(d) + 2 + Len(n)
      /\ \A i \in 1 .. Len(c) : Meth(c, m)[i] = c[i]
      /\ \A i \in 1 .. Len(d) : Meth(d, n)[i] = d[i]
      /\ \A i \in 1 .. Len(m) : Meth(c, m)[Len(c) + 2 + i] = m[i]
      /\ \A i \in 1 .. Len(n) : Meth(d, n)[Len(d) + 2 + i] = n[i]
  BY <1>1, MethAt, Zenon
<1>4. Len(m) = Len(n)
  <2>1. Len(m) \in Nat /\ Len(n) \in Nat
    BY DEF Name
  <2> QED BY <1>1, <1>2, <1>3, <2>1
<1>5. /\ \A i \in 1 .. Len(c) : c[i] = d[i]
      /\ \A i \in 1 .. Len(m) : m[i] = n[i]
  BY <1>2, <1>3, <1>4, Zenon
<1>6. c = d
  BY <1>1, <1>2, <1>5, SeqEqual DEF Name
<1>7. m = n
  BY <1>4, <1>5, SeqEqual DEF Name
<1> QED BY <1>6, <1>7

(* Of classes with plain names, every function and every global has a name *)
(* of its own: no method is called, and no initializer or vtable used, in  *)
(* the place of another (mangling.hpp, as generation.cpp uses it).         *)
THEOREM NamesAreApart ==
  ASSUME NEW c, NEW d, Plain(c), Plain(d), underscore \in Character
  PROVE  /\ \A m, n \in Name : Meth(c, m) = Meth(d, n) => c = d /\ m = n
         /\ \A v, w \in Words : Word(v) /\ Word(w) /\ Artifact(c, v) = Artifact(d, w)
                                  => c = d /\ v = w
         /\ \A m \in Name, w \in Words : Word(m) /\ Word(w) => Meth(c, m) # Artifact(d, w)
<1>1. c \in Name /\ d \in Name
  BY DEF Plain
<1>2. \A w \in Name : <<underscore>> \o w \in Name /\ (<<underscore>> \o w)[1] = underscore
  BY DEF Name
<1>3. \A m, n \in Name : Meth(c, m) = Meth(d, n) => c = d /\ m = n
  BY MethIsInjective
<1>4. ASSUME NEW v \in Words, NEW w \in Words, Word(v), Word(w), Artifact(c, v) = Artifact(d, w)
      PROVE  c = d /\ v = w
  <2>1. v \in Name /\ w \in Name
    BY <1>4 DEF Word
  <2>2. Meth(c, <<underscore>> \o v) = Meth(d, <<underscore>> \o w)
    BY <1>1, <1>4, <2>1, ArtifactIsMeth
  <2>3. c = d /\ <<underscore>> \o v = <<underscore>> \o w
    BY <1>2, <1>3, <2>1, <2>2
  <2>4. v = Tail(<<underscore>> \o v) /\ w = Tail(<<underscore>> \o w)
    BY <2>1 DEF Name
  <2> QED BY <2>3, <2>4
<1>5. ASSUME NEW m \in Name, NEW w \in Words, Word(m), Word(w) PROVE Meth(c, m) # Artifact(d, w)
  <2>1. w \in Name
    BY <1>5 DEF Word
  <2>2. Artifact(d, w) = Meth(d, <<underscore>> \o w)
    BY <1>1, <2>1, ArtifactIsMeth
  <2>3. m # <<underscore>> \o w
    BY <1>2, <1>5, <2>1 DEF Word
  <2> QED BY <1>2, <1>3, <2>1, <2>2, <2>3
<1> QED BY <1>3, <1>4, <1>5

(* And of other classes they are not: the method init of A_ is emitted     *)
(* under the name of the initializer of A, and vtable under that of A's    *)
(* vtable.                                                                 *)
THEOREM NamesCanClash ==
  ASSUME NEW class \in Name, NEW word \in Name, underscore \in Character
  PROVE  Meth(Append(class, underscore), word) = Artifact(class, word)
<1>1. Append(class, underscore) \o Twice = class \o <<underscore, underscore, underscore>>
  BY DEF Name, Twice
<1> QED BY <1>1 DEF Meth, Artifact, Twice
=============================================================================

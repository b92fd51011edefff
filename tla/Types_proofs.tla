---------------------------- MODULE Types_proofs -----------------------------
(***************************************************************************)
(* The typing of the TypesVisitor is that of the rules, for every set of   *)
(* names and every tree, of any size and depth.                            *)
(***************************************************************************)
EXTENDS Types, Hierarchies

-----------------------------------------------------------------------------
(* The positions of a tree: paths every step of which is to a child.       *)
PositionIn(root, path) ==
  /\ path \in Seq(Nat)
  /\ \A k \in 1 .. Len(path) :
       path[k] \in DOMAIN NodeIn(root, SubSeq(path, 1, k - 1)).kids

(* The frames of the stack are the nodes on the way to the one on top: the *)
(* path of each says which children of those below it are being visited.   *)
Frame == [at : Seq(Nat), next : Nat]

SpineOf(root, s) ==
  /\ s \in Seq(Frame)
  /\ \A j \in DOMAIN s :
       /\ Len(s[j].at) = j - 1 /\ PositionIn(root, s[j].at)
       /\ \A i \in 1 .. j - 1 : s[j].at[i] = s[i].next - 1
       /\ s[j].next \in 1 .. Len(NodeIn(root, s[j].at).kids) + 1

LevelOps(j) == IF j = 1 THEN {"program"} ELSE IF j = 2 THEN {"class"}
               ELSE IF j = 3 THEN {"field", "method"} ELSE Expressions

LevelsOf(root, s) == \A j \in DOMAIN s : NodeIn(root, s[j].at).op \in LevelOps(j)

Spine == SpineOf(tree, stack) /\ LevelsOf(tree, stack)

InItsClass == Len(stack) >= 3 => current = NodeAt(stack[2].at).name

(* What has been visited before: some step of the path leads to an earlier *)
(* child than the one that is being visited.                               *)
PastOf(s, path) ==
  \E m \in DOMAIN s :
    /\ m <= Len(path) /\ \A i \in 1 .. m - 1 : path[i] = s[i].next - 1
    /\ path[m] < IF m < Len(s) THEN s[m].next - 1 ELSE s[m].next

Past(path) == PastOf(stack, path)

TypedBefore ==
  \A path \in DOMAIN types : path \in Seq(Nat) /\ (stack # <<>> => Past(path))

ReportedBefore ==
  \A fault \in errors :
    /\ fault.at \in Seq(Nat)
    /\ stack # <<>> => Past(fault.at) \/ \E j \in DOMAIN stack : fault.at = stack[j].at

(* What has been reported about the nodes being visited: of a let what its *)
(* type and its initializer were found to be, of other expressions nothing *)
(* before their visit ends.                                                *)
LetFault(path, next) == LET e == NodeAt(path) IN
  \/ next > 1 /\ ~ Exists(e.type)
  \/ next > Len(e.kids) /\ Len(e.kids) = 2 /\ ~ Conforms(TypeAt(Append(path, 1)), e.type)

ReportsSoFar ==
  \A j \in DOMAIN stack : LET op == NodeAt(stack[j].at).op IN
    /\ op = "let" => (Faulted(stack[j].at) <=> LetFault(stack[j].at, stack[j].next))
    /\ op \in Expressions \ {"let"} => ~ Faulted(stack[j].at)

TypedRightly ==
  \A path \in DOMAIN types :
    /\ ~ Faulted(path) => Derives(path, types[path])
    /\ Faulted(path) => \A t \in Type : ~ Derives(path, t)

OfATree == tree \in Trees /\ table = TableOfTree(tree)

Scoped == ScopesFollowTheTree /\ \E S : scopes \in Seq(S)

(* What holds of the walk and the scopes at every step; and of the types    *)
(* that were set and the errors that were reported.                        *)
Walked == OfATree /\ Spine /\ InItsClass

SInv == Walked /\ Scoped

RInv == TypedBefore /\ ReportedBefore /\ ReportsSoFar /\ TypedRightly

-----------------------------------------------------------------------------
(* The nodes at the positions.                                             *)
Reaches(root, path, g) ==
  /\ g \in [0 .. Len(path) -> NodesOf(root)] /\ g[0] = root
  /\ \A k \in 1 .. Len(path) :
       path[k] \in DOMAIN g[k - 1].kids /\ g[k] = g[k - 1].kids[path[k]]

LEMMA ReachedIs ==
  ASSUME NEW root, NEW path \in Seq(Nat), NEW g, Reaches(root, path, g)
  PROVE  NodeIn(root, path) = g[Len(path)]
<1> DEFINE n == Len(path)
           Turn(h) == [k \in 0 .. n |-> IF k = 0 THEN root ELSE h[k - 1].kids[path[k]]]
           at == CHOOSE h : h = Turn(h)
<1>1. n \in Nat
  OBVIOUS
<1>2. /\ g \in [0 .. n -> NodesOf(root)] /\ g[0] = root
      /\ \A k \in 1 .. n : g[k] = g[k - 1].kids[path[k]]
  BY DEF Reaches
<1> HIDE DEF n
<1>3. g = Turn(g)
  BY <1>1, <1>2
<1>4. at = Turn(at)
  <2> HIDE DEF Turn
  <2> QED BY <1>3
<1>5. NodeIn(root, path) = at[n]
  BY DEF NodeIn, n
<1>6. at[0] = root /\ \A k \in 1 .. n : at[k] = at[k - 1].kids[path[k]]
  <2> HIDE DEF at
  <2>1. \A k \in 0 .. n : at[k] = IF k = 0 THEN root ELSE at[k - 1].kids[path[k]]
    BY <1>4
  <2> QED BY <1>1, <2>1
<1> HIDE DEF at, Turn
<1>7. Together(at, g, n)
  BY <1>1, <1>2, <1>6 DEF Together
<1>8. \A k \in 0 .. n : at[k] = g[k]
  BY <1>7, LoopIsOne
<1>9. n \in 0 .. n
  BY <1>1
<1> QED BY <1>5, <1>8, <1>9 DEF n

LEMMA PrefixOfPrefix ==
  ASSUME NEW S, NEW s \in Seq(S), NEW n \in 0 .. Len(s), NEW m \in 0 .. n
  PROVE  SubSeq(SubSeq(s, 1, n), 1, m) = SubSeq(s, 1, m)
<1> DEFINE t == SubSeq(s, 1, n)
<1>0. n \in Nat /\ m \in Nat /\ m <= n /\ Len(s) \in Nat /\ m \in 0 .. Len(s)
  OBVIOUS
<1>1. t \in Seq(S) /\ Len(t) = n /\ \A i \in 1 .. n : t[i] = s[i]
  BY Prefix
<1> HIDE DEF t
<1>2. /\ SubSeq(t, 1, m) \in Seq(S) /\ Len(SubSeq(t, 1, m)) = m
      /\ \A i \in 1 .. m : SubSeq(t, 1, m)[i] = t[i]
  BY <1>0, <1>1, Prefix
<1>3. /\ SubSeq(s, 1, m) \in Seq(S) /\ Len(SubSeq(s, 1, m)) = m
      /\ \A i \in 1 .. m : SubSeq(s, 1, m)[i] = s[i]
  BY <1>0, Prefix
<1>4. \A i \in 1 .. m : i \in 1 .. n
  BY <1>0
<1>5. \A i \in 1 .. m : SubSeq(t, 1, m)[i] = SubSeq(s, 1, m)[i]
  BY <1>1, <1>2, <1>3, <1>4
<1> QED BY <1>2, <1>3, <1>5, SeqEqual DEF t

LEMMA PrefixIsPosition ==
  ASSUME NEW root, NEW path, PositionIn(root, path), NEW n \in 0 .. Len(path)
  PROVE  PositionIn(root, SubSeq(path, 1, n)) /\ Len(SubSeq(path, 1, n)) = n
<1> DEFINE q == SubSeq(path, 1, n)
<1>0. path \in Seq(Nat) /\ n \in Nat /\ Len(path) \in Nat
  BY DEF PositionIn
<1>1. q \in Seq(Nat) /\ Len(q) = n /\ \A i \in 1 .. n : q[i] = path[i]
  BY <1>0, Prefix
<1>2. ASSUME NEW k \in 1 .. n
      PROVE  q[k] \in DOMAIN NodeIn(root, SubSeq(q, 1, k - 1)).kids
  <2>1. k \in 1 .. Len(path) /\ k - 1 \in 0 .. n
    BY <1>0
  <2>2. SubSeq(q, 1, k - 1) = SubSeq(path, 1, k - 1)
    BY <1>0, <2>1, PrefixOfPrefix
  <2>3. path[k] \in DOMAIN NodeIn(root, SubSeq(path, 1, k - 1)).kids
    BY <2>1 DEF PositionIn
  <2> HIDE DEF q
  <2> QED BY <1>1, <2>2, <2>3
<1> HIDE DEF q
<1>3. PositionIn(root, q)
  BY <1>1, <1>2 DEF PositionIn
<1> QED BY <1>1, <1>3 DEF q

(* A longer path is reached by one more step.                              *)
LEMMA ReachesOn ==
  ASSUME NEW root \in Trees, NEW path \in Seq(Nat), NEW n \in Nat, Len(path) = n + 1,
         NEW g, Reaches(root, SubSeq(path, 1, n), g),
         path[n + 1] \in DOMAIN g[n].kids
  PROVE  \E h : Reaches(root, path, h)
<1> DEFINE q == SubSeq(path, 1, n)
           last == g[n].kids[path[n + 1]]
           h == [k \in 0 .. n + 1 |-> IF k <= n THEN g[k] ELSE last]
<1>1. Len(q) = n /\ \A i \in 1 .. n : q[i] = path[i]
  <2>1. n \in 0 .. Len(path)
    OBVIOUS
  <2> QED BY <2>1, Prefix
<1>2. /\ g \in [0 .. n -> NodesOf(root)] /\ g[0] = root
      /\ \A k \in 1 .. n : path[k] \in DOMAIN g[k - 1].kids /\ g[k] = g[k - 1].kids[path[k]]
  BY <1>1 DEF Reaches
<1>3. g[n] \in NodesOf(root)
  BY <1>2
<1>4. last \in NodesOf(root)
  <2>1. g[n].kids \in Seq(NodesOf(root))
    BY <1>3, TreesAssumption
  <2> QED BY <2>1
<1> HIDE DEF last, q
<1>5. h \in [0 .. n + 1 -> NodesOf(root)] /\ h[0] = root
  BY <1>2, <1>4
<1>6. \A k \in 0 .. n : h[k] = g[k]
  OBVIOUS
<1>7. h[n + 1] = last
  OBVIOUS
<1> HIDE DEF h
<1>8. ASSUME NEW k \in 1 .. n + 1
      PROVE  path[k] \in DOMAIN h[k - 1].kids /\ h[k] = h[k - 1].kids[path[k]]
  <2>1. CASE k \in 1 .. n
    <3>1. h[k] = g[k] /\ h[k - 1] = g[k - 1]
      BY <1>6, <2>1
    <3> QED BY <1>2, <2>1, <3>1
  <2>2. CASE k = n + 1
    <3>1. h[k - 1] = g[n] /\ h[k] = last
      BY <1>6, <1>7, <2>2
    <3> QED BY <2>2, <3>1 DEF last
  <2> QED BY <2>1, <2>2
<1> QED BY <1>5, <1>8 DEF Reaches

LEMMA Reachable ==
  ASSUME NEW root \in Trees, NEW path, PositionIn(root, path)
  PROVE  \E g : Reaches(root, path, g)
<1> DEFINE S == {n \in Nat : \A q \in Seq(Nat) : Len(q) = n /\ PositionIn(root, q) =>
                   \E g : Reaches(root, q, g)}
<1>1. 0 \in S
  <2> SUFFICES ASSUME NEW q \in Seq(Nat), Len(q) = 0
               PROVE  \E g : Reaches(root, q, g)
    OBVIOUS
  <2>1. root \in NodesOf(root)
    BY TreesAssumption
  <2>2. Reaches(root, q, [k \in 0 .. 0 |-> root])
    BY <2>1 DEF Reaches
  <2> QED BY <2>2
<1>2. ASSUME NEW n \in Nat, n \in S PROVE n + 1 \in S
  <2> SUFFICES ASSUME NEW q \in Seq(Nat), Len(q) = n + 1, PositionIn(root, q)
               PROVE  \E g : Reaches(root, q, g)
    OBVIOUS
  <2> DEFINE before == SubSeq(q, 1, n)
  <2>1. n \in 0 .. Len(q) /\ n + 1 \in 1 .. Len(q) /\ (n + 1) - 1 = n
    OBVIOUS
  <2>2. PositionIn(root, before) /\ Len(before) = n
    BY <2>1, PrefixIsPosition
  <2>3. before \in Seq(Nat)
    BY <2>2 DEF PositionIn
  <2>4. q[n + 1] \in DOMAIN NodeIn(root, before).kids
    BY <2>1 DEF PositionIn
  <2>5. PICK g : Reaches(root, before, g)
    BY <1>2, <2>2, <2>3
  <2>6. NodeIn(root, before) = g[n]
    BY <2>2, <2>3, <2>5, ReachedIs
  <2> QED BY <2>4, <2>5, <2>6, ReachesOn
<1>3. Nat \subseteq S
  <2> HIDE DEF S
  <2> QED BY <1>1, <1>2, Upwards
<1>4. path \in Seq(Nat) /\ Len(path) \in S
  BY <1>3 DEF PositionIn
<1> QED BY <1>4

LEMMA RootIs ==
  ASSUME NEW root \in Trees
  PROVE  PositionIn(root, <<>>) /\ NodeIn(root, <<>>) = root
<1>1. PositionIn(root, <<>>)
  BY DEF PositionIn
<1>2. root \in NodesOf(root)
  BY TreesAssumption
<1>3. Reaches(root, <<>>, [k \in 0 .. 0 |-> root])
  BY <1>2 DEF Reaches
<1>4. NodeIn(root, <<>>) = [k \in 0 .. 0 |-> root][Len(<<>>)]
  BY <1>3, ReachedIs
<1> QED BY <1>1, <1>4

LEMMA NodeIs ==
  ASSUME NEW root \in Trees, NEW path, PositionIn(root, path)
  PROVE  LET e == NodeIn(root, path) IN
         e \in NodesOf(root) /\ e.kids \in Seq(NodesOf(root)) /\ Shaped(e)
<1>1. PICK g : Reaches(root, path, g)
  BY Reachable
<1>2. path \in Seq(Nat) /\ Len(path) \in 0 .. Len(path)
  BY DEF PositionIn
<1>3. NodeIn(root, path) = g[Len(path)]
  BY <1>1, <1>2, ReachedIs
<1>4. g[Len(path)] \in NodesOf(root)
  BY <1>1, <1>2 DEF Reaches
<1> QED BY <1>3, <1>4, TreesAssumption

(* A child of a node is at the node's path and its own number.             *)
LEMMA KidIs ==
  ASSUME NEW root \in Trees, NEW path, PositionIn(root, path),
         NEW k \in DOMAIN NodeIn(root, path).kids
  PROVE  /\ PositionIn(root, Append(path, k))
         /\ NodeIn(root, Append(path, k)) = NodeIn(root, path).kids[k]
<1> DEFINE q == Append(path, k)
           n == Len(path)
           e == NodeIn(root, path)
<1>0. path \in Seq(Nat) /\ n \in Nat
  BY DEF PositionIn
<1>1. k \in Nat
  <2>1. e.kids \in Seq(NodesOf(root))
    BY NodeIs
  <2> HIDE DEF e
  <2>2. DOMAIN e.kids \subseteq Nat
    BY <2>1
  <2> QED BY <2>2 DEF e
<1>2. q \in Seq(Nat) /\ Len(q) = n + 1 /\ q[n + 1] = k /\ \A i \in 1 .. n : q[i] = path[i]
  BY <1>0, <1>1
<1> HIDE DEF q, n
<1>3. \A m \in 0 .. n : SubSeq(q, 1, m) = SubSeq(path, 1, m)
  <2> TAKE m \in 0 .. n
  <2>0. m \in 0 .. Len(q) /\ m \in 0 .. Len(path)
    BY <1>0, <1>2 DEF n
  <2>1. /\ SubSeq(q, 1, m) \in Seq(Nat) /\ Len(SubSeq(q, 1, m)) = m
        /\ \A i \in 1 .. m : SubSeq(q, 1, m)[i] = q[i]
    BY <1>2, <2>0, Prefix
  <2>2. /\ SubSeq(path, 1, m) \in Seq(Nat) /\ Len(SubSeq(path, 1, m)) = m
        /\ \A i \in 1 .. m : SubSeq(path, 1, m)[i] = path[i]
    BY <1>0, <2>0, Prefix
  <2>3. \A i \in 1 .. m : q[i] = path[i]
    BY <1>0, <1>2
  <2>4. \A i \in 1 .. m : SubSeq(q, 1, m)[i] = SubSeq(path, 1, m)[i]
    BY <2>1, <2>2, <2>3
  <2> QED BY <2>1, <2>2, <2>4, SeqEqual
<1>4. SubSeq(path, 1, n) = path
  <2>1. /\ SubSeq(path, 1, n) \in Seq(Nat) /\ Len(SubSeq(path, 1, n)) = n
        /\ \A i \in 1 .. n : SubSeq(path, 1, n)[i] = path[i]
    BY <1>0, Prefix DEF n
  <2> QED BY <1>0, <2>1, SeqEqual DEF n
<1>5. SubSeq(q, 1, n) = path
  BY <1>0, <1>3, <1>4
<1>6. ASSUME NEW j \in 1 .. n + 1
      PROVE  q[j] \in DOMAIN NodeIn(root, SubSeq(q, 1, j - 1)).kids
  <2>1. CASE j \in 1 .. n
    <3>1. j - 1 \in 0 .. n
      BY <1>0, <2>1
    <3>2. SubSeq(q, 1, j - 1) = SubSeq(path, 1, j - 1) /\ q[j] = path[j]
      BY <1>2, <1>3, <2>1, <3>1
    <3>3. path[j] \in DOMAIN NodeIn(root, SubSeq(path, 1, j - 1)).kids
      BY <2>1 DEF PositionIn, n
    <3> QED BY <3>2, <3>3
  <2>2. CASE j = n + 1
    <3>1. j - 1 = n
      BY <1>0, <2>2
    <3> QED BY <1>2, <1>5, <2>2, <3>1 DEF e
  <2> QED BY <1>0, <2>1, <2>2
<1>7. PositionIn(root, q)
  BY <1>2, <1>6 DEF PositionIn
<1>8. NodeIn(root, q) = e.kids[k]
  <2>1. PICK h : Reaches(root, q, h)
    BY <1>7, Reachable
  <2>2. Reaches(root, path, [i \in 0 .. n |-> h[i]])
    <3>1. h \in [0 .. n + 1 -> NodesOf(root)] /\ h[0] = root
      BY <1>2, <2>1 DEF Reaches
    <3>2. ASSUME NEW i \in 1 .. n
          PROVE  path[i] \in DOMAIN h[i - 1].kids /\ h[i] = h[i - 1].kids[path[i]]
      <4>1. i \in 1 .. Len(q) /\ q[i] = path[i]
        BY <1>0, <1>2
      <4> QED BY <2>1, <4>1 DEF Reaches
    <3>3. \A i \in 0 .. n : [j \in 0 .. n |-> h[j]][i] = h[i]
      OBVIOUS
    <3>4. \A i \in 1 .. n : i \in 0 .. n /\ i - 1 \in 0 .. n
      BY <1>0
    <3>5. [i \in 0 .. n |-> h[i]] \in [0 .. n -> NodesOf(root)] /\ 0 \in 0 .. n
      BY <1>0, <3>1
    <3> DEFINE cut == [i \in 0 .. n |-> h[i]]
    <3>6. cut[0] = root
      BY <3>1, <3>3, <3>5
    <3> HIDE DEF cut
    <3>7. \A i \in 1 .. n : path[i] \in DOMAIN cut[i - 1].kids /\ cut[i] = cut[i - 1].kids[path[i]]
      BY <3>2, <3>3, <3>4 DEF cut
    <3> QED BY <3>5, <3>6, <3>7 DEF cut, Reaches, n
  <2>3. NodeIn(root, path) = [i \in 0 .. n |-> h[i]][n]
    BY <1>0, <2>2, ReachedIs DEF n
  <2>4. NodeIn(root, q) = h[n + 1]
    BY <1>2, <2>1, ReachedIs
  <2>5. h[n + 1] = h[n].kids[k]
    <3>1. n + 1 \in 1 .. Len(q) /\ (n + 1) - 1 = n
      BY <1>0, <1>2
    <3> QED BY <1>2, <2>1, <3>1 DEF Reaches
  <2>6. n \in 0 .. n
    BY <1>0
  <2> QED BY <2>3, <2>4, <2>5, <2>6 DEF e
<1> QED BY <1>7, <1>8 DEF q, e

-----------------------------------------------------------------------------
(* The class table is a hierarchy, and the questions to it are answered    *)
(* along the ways up.                                                      *)
TreeTable(tab) == Lineage(tab) /\ tab[Object].parent = Object

LEMMA TableIsTreeTable ==
  ASSUME NEW t \in Trees
  PROVE  TreeTable(TableOfTree(t))
<1> DEFINE tab == TableOfTree(t)
           names == {t.kids[i].name : i \in DOMAIN t.kids}
<1>1. /\ t.kids \in Seq(NodesOf(t)) /\ t.op = "program" /\ Shaped(t)
      /\ \A e \in NodesOf(t) : Shaped(e)
      /\ ParentsKnown(tab) /\ WellFounded(tab, DOMAIN tab \ {Object})
  BY TreesAssumption
<1>2. DOMAIN tab = {Object} \cup names
  BY DEF TableOfTree
<1>3. tab[Object].parent = Object
  BY DEF TableOfTree, ObjectInfo
<1>4. names \subseteq ClassName
  <2>1. \A i \in DOMAIN t.kids : t.kids[i] \in NodesOf(t) /\ t.kids[i].op \in {"class"}
    BY <1>1 DEF Shaped, Below
  <2> QED BY <1>1, <2>1 DEF Shaped
<1>5. IsFiniteSet(names)
  <2> DEFINE I == 1 .. Len(t.kids)
             f == [i \in I |-> t.kids[i].name]
  <2>1. Len(t.kids) \in Nat /\ DOMAIN t.kids = I
    BY <1>1
  <2>2. IsFiniteSet(I)
    BY <2>1, FS_Interval
  <2>3. f \in Surjection(I, names)
    BY <2>1 DEF Surjection
  <2> HIDE DEF I, f, names
  <2> QED BY <2>2, <2>3, FS_Surjection
<1>6. IsFiniteSet(DOMAIN tab)
  <2> HIDE DEF names
  <2>1. IsFiniteSet(names \cup {Object})
    BY <1>5, FS_AddElement
  <2> QED BY <1>2, <2>1
<1> HIDE DEF tab, names
<1>7. Lineage(tab)
  BY <1>1, <1>2, <1>4, <1>6, NamesAssumption
     DEF Lineage, ParentsKnown, WellFounded, ClosedUnderExtends
<1> QED BY <1>3, <1>7 DEF TreeTable, tab

LEMMA AboveIs ==
  ASSUME TreeTable(table), NEW c \in ClassName
  PROVE  Above(c) = Range(Ancestry(table, c))
<1> DEFINE R == Range(Ancestry(table, c))
           Closed(S) == c \in S /\ \A k \in S \cap DOMAIN table : table[k].parent \in S
<1>0. Lineage(table) /\ table[Object].parent = Object
  BY DEF TreeTable
<1>1. \A s : s \in Above(c) <=> s \in ClassName /\ \A S \in SUBSET ClassName : Closed(S) => s \in S
  BY DEF Above
<1>2. CASE c \in DOMAIN table
  <2>1. R \subseteq DOMAIN table /\ DOMAIN table \subseteq ClassName /\ c \in R
    BY <1>0, <1>2, WaysGoOn, StartsAtItself DEF Lineage
  <2>2. Closed(R)
    <3> SUFFICES ASSUME NEW k \in R PROVE table[k].parent \in R
      BY <2>1
    <3>1. CASE k = Object
      BY <1>0, <3>1
    <3>2. CASE k # Object
      <4>1. k \in DOMAIN table \ {Object} /\ Range(Ancestry(table, k)) \subseteq R
        BY <1>0, <1>2, <2>1, <3>2, WaysGoOn
      <4>2. /\ table[k].parent \in DOMAIN table
            /\ Range(Ancestry(table, k)) = {k} \cup Range(Ancestry(table, table[k].parent))
        BY <1>0, <4>1, AncestryOfClass
      <4>3. table[k].parent \in Range(Ancestry(table, table[k].parent))
        BY <1>0, <4>2, StartsAtItself
      <4> QED BY <4>1, <4>2, <4>3
    <3> QED BY <3>1, <3>2
  <2>3. Above(c) \subseteq R
    <3> HIDE DEF R, Closed
    <3> QED BY <1>1, <2>1, <2>2
  <2>4. ASSUME NEW S \in SUBSET ClassName, Closed(S) PROVE R \subseteq S
    <3> DEFINE P == {a \in DOMAIN table : a \in S => Range(Ancestry(table, a)) \subseteq S}
    <3>1. Object \in P
      BY <1>0, ObjectIsAlone
    <3>2. ASSUME NEW a \in DOMAIN table \ {Object}, table[a].parent \in P PROVE a \in P
      <4>1. Range(Ancestry(table, a)) = {a} \cup Range(Ancestry(table, table[a].parent))
        BY <1>0, AncestryOfClass
      <4> QED BY <2>4, <3>2, <4>1
    <3>3. DOMAIN table \subseteq P
      <4> HIDE DEF P
      <4> QED BY <1>0, <3>1, <3>2, ByParent
    <3> QED BY <1>2, <2>4, <3>3
  <2>5. R \subseteq Above(c)
    <3> HIDE DEF R, Closed
    <3> QED BY <1>1, <2>1, <2>4
  <2> HIDE DEF R, Closed
  <2>6. Above(c) = R
    BY <2>3, <2>5
  <2> QED BY <2>6 DEF R
<1>3. CASE c \notin DOMAIN table
  <2>1. R = {c}
    BY <1>0, <1>3, AncestryOfStranger
  <2>2. Closed({c}) /\ {c} \in SUBSET ClassName
    BY <1>3
  <2> HIDE DEF R, Closed
  <2>3. Above(c) \subseteq {c}
    BY <1>1, <2>2
  <2>4. c \in Above(c)
    BY <1>1 DEF Closed
  <2> QED BY <2>1, <2>3, <2>4 DEF R
<1> QED BY <1>2, <1>3

LEMMA ConformsIsFits ==
  ASSUME TreeTable(table), NEW t, NEW expected
  PROVE  Conforms(t, expected) <=> Fits(t, expected)
<1>1. CASE t \in ClassName
  <2>1. Above(t) = Range(Ancestry(table, t)) /\ Above(t) \subseteq ClassName
    BY <1>1, AboveIs DEF Above
  <2> QED BY <1>1, <2>1 DEF Conforms, Fits, IsCustom, IsSubtype
<1>2. CASE t \notin ClassName
  BY <1>2 DEF Conforms, Fits, IsCustom
<1> QED BY <1>1, <1>2

LEMMA NearestIsLowest ==
  ASSUME TreeTable(table), NEW c \in ClassName, NEW S \in SUBSET DOMAIN table
  PROVE  /\ Nearest(c, S) = Lowest(Above(c) \cap S)
         /\ \A a, b \in Nearest(c, S) : a = b
<1>0. Lineage(table) /\ DOMAIN table \subseteq ClassName
  BY DEF TreeTable, Lineage
<1> DEFINE R == Range(Ancestry(table, c))
           first == FirstOf(Ancestry(table, c), S)
<1>1. Above(c) = R
  BY AboveIs
<1>2. Nearest(c, S) = IF R \cap S = {} THEN {} ELSE {first}
  BY DEF Nearest
<1>3. ASSUME R \cap S # {} PROVE Lowest(R \cap S) = {first}
  <2>1. c \in DOMAIN table
    <3> SUFFICES ASSUME c \notin DOMAIN table PROVE FALSE
      OBVIOUS
    <3>1. R = {c}
      BY <1>0, AncestryOfStranger
    <3> QED BY <1>3, <3>1
  <2>2. first \in R \cap S /\ \A d \in R \cap S : d \in Range(Ancestry(table, first))
    BY <1>0, <1>3, <2>1, FirstIsLowest
  <2> HIDE DEF first, R
  <2>3. \A d \in S : Above(d) = Range(Ancestry(table, d))
    BY <1>0, AboveIs
  <2>4. first \in Lowest(R \cap S)
    BY <2>2, <2>3 DEF Lowest
  <2>5. ASSUME NEW d \in Lowest(R \cap S) PROVE d = first
    <3>1. d \in R \cap S /\ first \in Range(Ancestry(table, d))
      BY <2>2, <2>3, <2>5 DEF Lowest
    <3>2. d \in Range(Ancestry(table, first)) /\ first \in DOMAIN table /\ d \in DOMAIN table
      BY <2>2, <3>1
    <3> QED BY <1>0, <3>1, <3>2, WaysNeverMeetTwice
  <2> QED BY <2>4, <2>5
<1>4. R \cap S = {} => Lowest(R \cap S) = {}
  BY DEF Lowest
<1> HIDE DEF R, first
<1> QED BY <1>1, <1>2, <1>3, <1>4

LEMMA CommonIsLowest ==
  ASSUME TreeTable(table), NEW a \in DOMAIN table, NEW b \in DOMAIN table
  PROVE  Lowest(Above(a) \cap Above(b)) = {CommonAncestor(a, b)}
<1> DEFINE S == Range(Ancestry(table, a))
<1>0. Lineage(table) /\ a \in ClassName /\ b \in ClassName
  BY DEF TreeTable, Lineage
<1>1. Above(a) = S /\ Above(b) = Range(Ancestry(table, b)) /\ S \subseteq DOMAIN table
  BY <1>0, AboveIs, WaysGoOn
<1>2. Object \in S /\ Object \in Range(Ancestry(table, b))
  BY <1>0, AncestryIs
<1>3. Nearest(b, S) = {CommonAncestor(a, b)}
  BY <1>2 DEF Nearest, CommonAncestor
<1>4. Nearest(b, S) = Lowest(Above(b) \cap S)
  BY <1>0, <1>1, NearestIsLowest
<1> QED BY <1>1, <1>3, <1>4

LEMMA MethodsAreFound ==
  ASSUME TreeTable(table), NEW c \in ClassName, NEW n
  PROVE  /\ LookupMethod(c, n) = MethodsOf(c, n)
         /\ \A a, b \in LookupMethod(c, n) : a = b
<1> DEFINE S == {k \in DOMAIN table : HasMember(table[k].methods, n)}
<1>1. Nearest(c, S) = Lowest(Above(c) \cap S) /\ \A a, b \in Nearest(c, S) : a = b
  BY NearestIsLowest
<1>2. Above(c) \cap S = {k \in Above(c) \cap DOMAIN table : HasMember(table[k].methods, n)}
  OBVIOUS
<1>3. LookupMethod(c, n) = {GetMember(table[k].methods, n) : k \in Nearest(c, S)}
  BY DEF LookupMethod
<1>4. MethodsOf(c, n) = {GetMember(table[k].methods, n) : k \in Lowest(Above(c) \cap S)}
  BY <1>2 DEF MethodsOf
<1> QED BY <1>1, <1>3, <1>4

FieldTypes(c, n) ==
  LET owners == {k \in Above(c) \cap DOMAIN table : HasMember(table[k].fields, n)}
  IN {GetMember(table[k].fields, n).type : k \in Lowest(owners)}

LEMMA FieldsAreFound ==
  ASSUME TreeTable(table), NEW c \in ClassName, NEW n
  PROVE  /\ {f.type : f \in LookupField(c, n)} = FieldTypes(c, n)
         /\ \A a, b \in FieldTypes(c, n) : a = b
<1> DEFINE S == {k \in DOMAIN table : HasMember(table[k].fields, n)}
<1>1. Nearest(c, S) = Lowest(Above(c) \cap S) /\ \A a, b \in Nearest(c, S) : a = b
  BY NearestIsLowest
<1>2. Above(c) \cap S = {k \in Above(c) \cap DOMAIN table : HasMember(table[k].fields, n)}
  OBVIOUS
<1>3. LookupField(c, n) = {GetMember(table[k].fields, n) : k \in Nearest(c, S)}
  BY DEF LookupField
<1>4. FieldTypes(c, n) = {GetMember(table[k].fields, n).type : k \in Lowest(Above(c) \cap S)}
  BY <1>2 DEF FieldTypes
<1>5. {f.type : f \in LookupField(c, n)}
        = {GetMember(table[k].fields, n).type : k \in Nearest(c, S)}
  BY <1>3
<1> HIDE DEF S
<1>6. FieldTypes(c, n) = {GetMember(table[k].fields, n).type : k \in Nearest(c, S)}
  BY <1>1, <1>4
<1>7. \A a, b \in FieldTypes(c, n) : a = b
  BY <1>1, <1>6
<1> QED BY <1>5, <1>6, <1>7

-----------------------------------------------------------------------------
(* Steps of the stack: a child is entered, or the node on top is left.     *)
Entered(s, t) ==
  /\ s # <<>> /\ t \in Seq(Frame) /\ Len(t) = Len(s) + 1
  /\ \A j \in 1 .. Len(s) - 1 : t[j] = s[j]
  /\ t[Len(s)].at = s[Len(s)].at /\ t[Len(s)].next = s[Len(s)].next + 1
  /\ t[Len(t)].at = Append(s[Len(s)].at, s[Len(s)].next) /\ t[Len(t)].next = 1

Left(s, t) ==
  /\ s # <<>> /\ t \in Seq(Frame) /\ Len(t) = Len(s) - 1
  /\ \A j \in 1 .. Len(t) : t[j] = s[j]

LEMMA TopIs ==
  ASSUME Spine, stack # <<>>
  PROVE  /\ Len(stack) \in Nat \ {0} /\ DOMAIN stack = 1 .. Len(stack)
         /\ Top = stack[Len(stack)] /\ Top \in Frame /\ Len(stack) \in DOMAIN stack
         /\ PositionIn(tree, Top.at) /\ Len(Top.at) = Len(stack) - 1
         /\ Top.next \in 1 .. Kids + 1
         /\ Node.op \in LevelOps(Len(stack))
<1>1. stack \in Seq(Frame)
  BY DEF Spine, SpineOf
<1>2. Len(stack) \in Nat \ {0} /\ DOMAIN stack = 1 .. Len(stack)
  BY <1>1
<1>3. Len(stack) \in DOMAIN stack /\ Top = stack[Len(stack)]
  BY <1>2 DEF Top, Last
<1>4. Top \in Frame
  BY <1>1, <1>3
<1>5. NodeAt(Top.at) = Node /\ NodeAt(Top.at) = NodeIn(tree, Top.at)
  BY DEF Node, NodeAt
<1> QED BY <1>2, <1>3, <1>4, <1>5 DEF Spine, SpineOf, LevelsOf, Kids

LEMMA EnterIs ==
  ASSUME Spine, stack # <<>>, Enter
  PROVE  Entered(stack, stack')
<1>0. /\ Len(stack) \in Nat \ {0} /\ stack \in Seq(Frame)
      /\ Top = stack[Len(stack)] /\ Top \in Frame /\ Len(stack) \in DOMAIN stack
  BY TopIs DEF Spine, SpineOf
<1>1. PICK n \in Nat : n = Len(stack)
  BY <1>0
<1>2. PICK s \in Seq(Frame) : s = stack
  BY <1>0
<1> DEFINE q == Append(s[n].at, s[n].next)
           new == [at |-> q, next |-> 1]
           r == [s EXCEPT ![n].next = @ + 1]
<1>3. stack' = Append(r, new)
  BY <1>0, <1>1, <1>2 DEF Enter
<1>4. n \in 1 .. Len(s) /\ Len(s) = n /\ s[n] \in Frame
  BY <1>0, <1>1, <1>2
<1>5. q \in Seq(Nat)
  BY <1>4 DEF Frame
<1>6. new \in Frame
  <2> HIDE DEF q
  <2> QED BY <1>5 DEF Frame
<1>7. /\ r \in Seq(Frame) /\ Len(r) = n /\ \A j \in 1 .. n - 1 : r[j] = s[j]
      /\ r[n].at = s[n].at /\ r[n].next = s[n].next + 1
  BY <1>4 DEF Frame
<1>8. /\ Append(r, new) \in Seq(Frame) /\ Len(Append(r, new)) = n + 1
      /\ Append(r, new)[n + 1] = new /\ \A j \in 1 .. n : Append(r, new)[j] = r[j]
  <2> HIDE DEF r, new
  <2> QED BY <1>6, <1>7
<1> DEFINE t == Append(r, new)
<1>9. t[n + 1].at = q /\ t[n + 1].next = 1
  <2> HIDE DEF r, q
  <2> QED BY <1>8
<1>10. n \in 1 .. n /\ \A j \in 1 .. n - 1 : j \in 1 .. n
  BY <1>4
<1> HIDE DEF r, new
<1>11. Entered(s, t)
  BY <1>4, <1>7, <1>8, <1>9, <1>10 DEF Entered
<1> QED BY <1>2, <1>3, <1>11

LEMMA LeaveIs ==
  ASSUME Spine, stack # <<>>, Leave
  PROVE  Left(stack, stack')
<1>0. Len(stack) \in Nat \ {0} /\ stack \in Seq(Frame)
  BY TopIs DEF Spine, SpineOf
<1>1. PICK s \in Seq(Frame) : s = stack
  BY <1>0
<1>2. Len(s) - 1 \in 0 .. Len(s)
  BY <1>0, <1>1
<1>3. stack' = SubSeq(s, 1, Len(s) - 1)
  BY <1>1 DEF Leave, Front
<1>4. /\ SubSeq(s, 1, Len(s) - 1) \in Seq(Frame)
      /\ Len(SubSeq(s, 1, Len(s) - 1)) = Len(s) - 1
      /\ \A i \in 1 .. Len(s) - 1 : SubSeq(s, 1, Len(s) - 1)[i] = s[i]
  BY <1>2, Prefix
<1> QED BY <1>1, <1>3, <1>4 DEF Left

LEMMA LevelsGoDown ==
  ASSUME NEW j \in Nat \ {0}, NEW op \in LevelOps(j), NEW kid \in Below(op)
  PROVE  kid \in LevelOps(j + 1)
<1>1. j + 1 # 1 /\ (j + 1 = 2 <=> j = 1) /\ (j + 1 = 3 <=> j = 2)
  OBVIOUS
<1>2. CASE j = 1
  BY <1>1, <1>2 DEF LevelOps, Below
<1>3. CASE j = 2
  BY <1>1, <1>3 DEF LevelOps, Below
<1>4. CASE j # 1 /\ j # 2
  <2>1. op # "program" /\ op # "class"
    BY <1>4 DEF LevelOps, Expressions
  <2>2. Below(op) = Expressions
    BY <2>1 DEF Below
  <2> QED BY <1>1, <1>4, <2>2 DEF LevelOps
<1> QED BY <1>2, <1>3, <1>4

SpinesOf(root, s) == SpineOf(root, s) /\ LevelsOf(root, s)

LEMMA FrameIs ==
  ASSUME NEW root, NEW s, SpinesOf(root, s), NEW m \in DOMAIN s
  PROVE  /\ s \in Seq(Frame) /\ Len(s) \in Nat \ {0} /\ DOMAIN s = 1 .. Len(s)
         /\ m \in Nat \ {0} /\ m <= Len(s) /\ s[m] \in Frame
         /\ s[m].at \in Seq(Nat) /\ Len(s[m].at) = m - 1 /\ PositionIn(root, s[m].at)
         /\ \A i \in 1 .. m - 1 : s[m].at[i] = s[i].next - 1
         /\ s[m].next \in Nat \ {0}
         /\ NodeIn(root, s[m].at).op \in LevelOps(m)
<1>1. s \in Seq(Frame)
  BY DEF SpinesOf, SpineOf
<1>2. /\ Len(s) \in Nat \ {0} /\ DOMAIN s = 1 .. Len(s)
      /\ m \in Nat \ {0} /\ m <= Len(s) /\ s[m] \in Frame
  BY <1>1
<1>3. /\ Len(s[m].at) = m - 1 /\ PositionIn(root, s[m].at)
      /\ \A i \in 1 .. m - 1 : s[m].at[i] = s[i].next - 1
      /\ s[m].next \in 1 .. Len(NodeIn(root, s[m].at).kids) + 1
      /\ NodeIn(root, s[m].at).op \in LevelOps(m)
  BY DEF SpinesOf, SpineOf, LevelsOf
<1>4. s[m].at \in Seq(Nat) /\ s[m].next \in Nat
  BY <1>2 DEF Frame
<1>5. s[m].next # 0
  BY <1>3
<1> QED BY <1>1, <1>2, <1>3, <1>4, <1>5

LEMMA LastIsFrame ==
  ASSUME NEW root, NEW s, SpinesOf(root, s), s # <<>>
  PROVE  Len(s) \in DOMAIN s
BY DEF SpinesOf, SpineOf

LEMMA SpineEntered ==
  ASSUME NEW root \in Trees, NEW s, NEW t, SpinesOf(root, s), Entered(s, t),
         s[Len(s)].next <= Len(NodeIn(root, s[Len(s)].at).kids)
  PROVE  SpinesOf(root, t)
<1> DEFINE n == Len(s)
           top == s[n]
           e == NodeIn(root, top.at)
           q == Append(top.at, top.next)
<1>0. /\ n \in Nat \ {0} /\ DOMAIN s = 1 .. n /\ s \in Seq(Frame)
      /\ Len(t) = n + 1 /\ t \in Seq(Frame) /\ DOMAIN t = 1 .. n + 1
  BY DEF SpinesOf, SpineOf, Entered
<1>1. top \in Frame /\ n \in 1 .. n
  BY <1>0
<1>2. /\ PositionIn(root, top.at) /\ Len(top.at) = n - 1
      /\ \A i \in 1 .. n - 1 : top.at[i] = s[i].next - 1
      /\ top.next \in Nat \ {0} /\ e.op \in LevelOps(n)
  <2>1. n \in DOMAIN s
    BY <1>0
  <2> HIDE DEF n
  <2> QED BY <2>1, FrameIs
<1>3. e.kids \in Seq(NodesOf(root)) /\ Shaped(e)
  BY <1>2, NodeIs
<1>4. top.next \in DOMAIN e.kids /\ Len(e.kids) \in Nat
  <2>1. top.next <= Len(e.kids)
    OBVIOUS
  <2> HIDE DEF e, top
  <2> QED BY <1>2, <1>3, <2>1
<1>5. PositionIn(root, q) /\ NodeIn(root, q) = e.kids[top.next]
  BY <1>2, <1>4, KidIs
<1>6. NodeIn(root, q).op \in LevelOps(n + 1)
  BY <1>0, <1>2, <1>3, <1>4, <1>5, LevelsGoDown DEF Shaped
<1>7. NodeIn(root, q).kids \in Seq(NodesOf(root))
  BY <1>5, NodeIs
<1>8. Len(q) = n /\ \A i \in 1 .. n : q[i] = IF i = n THEN top.next ELSE top.at[i]
  <2>1. top.at \in Seq(Nat)
    BY <1>2 DEF PositionIn
  <2>2. n = Len(top.at) + 1 /\ n \in Nat
    <3> HIDE DEF n, top
    <3> QED BY <1>0, <1>2
  <2> HIDE DEF top, n
  <2> QED BY <1>2, <2>1, <2>2
<1> HIDE DEF n, e, q, top
<1>9. /\ \A j \in 1 .. n - 1 : t[j] = s[j]
      /\ t[n].at = top.at /\ t[n].next = top.next + 1
      /\ t[n + 1].at = q /\ t[n + 1].next = 1
  BY <1>0 DEF Entered, n, top, q
<1>10. \A j \in 1 .. n : t[j].at = s[j].at
  BY <1>0, <1>9 DEF top
<1>11. ASSUME NEW j \in 1 .. n + 1
       PROVE  /\ Len(t[j].at) = j - 1 /\ PositionIn(root, t[j].at)
              /\ \A i \in 1 .. j - 1 : t[j].at[i] = t[i].next - 1
              /\ t[j].next \in 1 .. Len(NodeIn(root, t[j].at).kids) + 1
              /\ NodeIn(root, t[j].at).op \in LevelOps(j)
  <2>1. CASE j \in 1 .. n
    <3>1. /\ Len(s[j].at) = j - 1 /\ PositionIn(root, s[j].at)
          /\ \A i \in 1 .. j - 1 : s[j].at[i] = s[i].next - 1
          /\ s[j].next \in 1 .. Len(NodeIn(root, s[j].at).kids) + 1
          /\ NodeIn(root, s[j].at).op \in LevelOps(j)
      BY <1>0, <2>1 DEF SpinesOf, SpineOf, LevelsOf
    <3>2. \A i \in 1 .. j - 1 : t[i] = s[i]
      BY <1>0, <1>9, <2>1
    <3>3. t[j].next \in 1 .. Len(NodeIn(root, t[j].at).kids) + 1
      <4>1. CASE j = n
        BY <1>4, <1>9, <1>10, <2>1, <4>1, <1>2 DEF e, top
      <4>2. CASE j # n
        <5>1. t[j] = s[j]
          BY <1>0, <1>9, <2>1, <4>2
        <5> QED BY <3>1, <5>1
      <4> QED BY <4>1, <4>2
    <3> QED BY <1>10, <2>1, <3>1, <3>2, <3>3
  <2>2. CASE j = n + 1
    <3>1. \A i \in 1 .. n : q[i] = t[i].next - 1
      <4> TAKE i \in 1 .. n
      <4>1. CASE i = n
        BY <1>2, <1>8, <1>9, <4>1
      <4>2. CASE i # n
        <5>1. i \in 1 .. n - 1
          BY <1>0, <4>2
        <5>2. q[i] = s[i].next - 1
          BY <1>2, <1>8, <4>2, <5>1
        <5> QED BY <1>9, <5>1, <5>2
      <4> QED BY <4>1, <4>2
    <3>2. j - 1 = n
      BY <1>0, <2>2
    <3>3. 1 \in 1 .. Len(NodeIn(root, q).kids) + 1
      BY <1>7
    <3> QED BY <1>5, <1>6, <1>8, <1>9, <2>2, <3>1, <3>2, <3>3
  <2> QED BY <1>0, <2>1, <2>2
<1> QED BY <1>0, <1>11 DEF SpinesOf, SpineOf, LevelsOf

LEMMA SpineLeft ==
  ASSUME NEW root, NEW s, NEW t, SpinesOf(root, s), Left(s, t)
  PROVE  SpinesOf(root, t)
<1>1. /\ Len(t) \in Nat /\ DOMAIN t = 1 .. Len(t) /\ t \in Seq(Frame)
      /\ \A j \in DOMAIN t : j \in DOMAIN s /\ t[j] = s[j] /\ \A i \in 1 .. j - 1 : t[i] = s[i]
  BY DEF SpinesOf, SpineOf, Left
<1> QED BY <1>1 DEF SpinesOf, SpineOf, LevelsOf

-----------------------------------------------------------------------------
(* What has been visited.                                                  *)
LEMMA PastBelow ==
  ASSUME NEW s, s \in Seq(Frame), NEW p \in Seq(Nat), NEW k, PastOf(s, p)
  PROVE  PastOf(s, Append(p, k))
<1>1. PICK m \in DOMAIN s :
        /\ m <= Len(p) /\ \A i \in 1 .. m - 1 : p[i] = s[i].next - 1
        /\ p[m] < IF m < Len(s) THEN s[m].next - 1 ELSE s[m].next
  BY DEF PastOf
<1>2. m \in Nat \ {0} /\ Len(p) \in Nat
  OBVIOUS
<1>3. m <= Len(Append(p, k)) /\ \A i \in 1 .. m : Append(p, k)[i] = p[i]
  <2>1. p \in Seq(Nat \cup {k})
    OBVIOUS
  <2> QED BY <1>1, <1>2, <2>1
<1>4. m \in 1 .. m /\ \A i \in 1 .. m - 1 : i \in 1 .. m
  BY <1>2
<1> HIDE DEF PastOf
<1> DEFINE q == Append(p, k)
<1> HIDE DEF q
<1>5. m <= Len(q) /\ \A i \in 1 .. m : q[i] = p[i]
  BY <1>3 DEF q
<1>6. /\ m <= Len(q) /\ \A i \in 1 .. m - 1 : q[i] = s[i].next - 1
      /\ q[m] < IF m < Len(s) THEN s[m].next - 1 ELSE s[m].next
  BY <1>1, <1>4, <1>5
<1>7. PastOf(s, q)
  BY <1>6 DEF PastOf
<1> QED BY <1>7 DEF q

LEMMA ActiveIsNotPast ==
  ASSUME NEW root, NEW s, SpinesOf(root, s), NEW j \in DOMAIN s
  PROVE  ~ PastOf(s, s[j].at)
<1>1. /\ s \in Seq(Frame) /\ Len(s) \in Nat /\ DOMAIN s = 1 .. Len(s) /\ Len(s[j].at) = j - 1
      /\ \A i \in 1 .. j - 1 : s[j].at[i] = s[i].next - 1
  BY DEF SpinesOf, SpineOf
<1> SUFFICES ASSUME NEW m \in DOMAIN s, m <= Len(s[j].at),
                    s[j].at[m] < IF m < Len(s) THEN s[m].next - 1 ELSE s[m].next
             PROVE  FALSE
  BY DEF PastOf
<1>2. m \in 1 .. j - 1 /\ m < Len(s)
  BY <1>1
<1>3. s[m].next \in Nat
  BY FrameIs
<1> QED BY <1>1, <1>2, <1>3

LEMMA ComingIsNotPast ==
  ASSUME NEW root, NEW s, SpinesOf(root, s), s # <<>>, NEW k \in Nat, s[Len(s)].next <= k
  PROVE  /\ ~ PastOf(s, Append(s[Len(s)].at, k))
         /\ \A j \in DOMAIN s : Append(s[Len(s)].at, k) # s[j].at
<1> DEFINE n == Len(s)
           q == Append(s[n].at, k)
<1>0. n \in DOMAIN s
  BY LastIsFrame
<1>1. s \in Seq(Frame) /\ n \in Nat \ {0} /\ DOMAIN s = 1 .. n /\ n \in DOMAIN s
  BY <1>0, FrameIs
<1>2. /\ s[n].at \in Seq(Nat) /\ Len(s[n].at) = n - 1
      /\ \A i \in 1 .. n - 1 : s[n].at[i] = s[i].next - 1
      /\ s[n].next \in Nat
  BY <1>0, FrameIs
<1>6. s[n].next <= k
  OBVIOUS
<1> HIDE DEF n
<1>3. Len(q) = n /\ q[n] = k /\ \A i \in 1 .. n - 1 : q[i] = s[i].next - 1
  BY <1>1, <1>2
<1> HIDE DEF q
<1>4. ~ PastOf(s, q)
  <2> SUFFICES ASSUME NEW m \in DOMAIN s, m <= Len(q),
                      q[m] < IF m < n THEN s[m].next - 1 ELSE s[m].next
               PROVE  FALSE
    BY DEF PastOf, n
  <2>1. s[m].next \in Nat
    BY FrameIs
  <2>2. CASE m = n
    BY <1>1, <1>3, <1>6, <2>1, <2>2
  <2>3. CASE m # n
    <3>1. m \in 1 .. n - 1 /\ m < n
      BY <1>1, <2>3
    <3> QED BY <1>3, <2>1, <3>1
  <2> QED BY <2>2, <2>3
<1>5. \A j \in DOMAIN s : Len(s[j].at) = j - 1
  BY DEF SpinesOf, SpineOf
<1>7. \A j \in DOMAIN s : q # s[j].at
  <2> TAKE j \in DOMAIN s
  <2>1. Len(s[j].at) # n
    BY <1>1, <1>5
  <2> QED BY <1>3, <2>1
<1> QED BY <1>4, <1>7 DEF q, n

LEMMA PastEntered ==
  ASSUME NEW root, NEW s, NEW t, SpinesOf(root, s), Entered(s, t), NEW p, PastOf(s, p)
  PROVE  PastOf(t, p)
<1>1. PICK m \in DOMAIN s :
        /\ m <= Len(p) /\ \A i \in 1 .. m - 1 : p[i] = s[i].next - 1
        /\ p[m] < IF m < Len(s) THEN s[m].next - 1 ELSE s[m].next
  BY DEF PastOf
<1>2. /\ Len(s) \in Nat \ {0} /\ DOMAIN s = 1 .. Len(s) /\ s \in Seq(Frame)
      /\ Len(t) = Len(s) + 1 /\ DOMAIN t = 1 .. Len(t) /\ m < Len(t) /\ m \in DOMAIN t
      /\ s[m].next \in Nat /\ m \in Nat
  <2>1. /\ Len(s) \in Nat \ {0} /\ DOMAIN s = 1 .. Len(s) /\ s \in Seq(Frame)
        /\ s[m].next \in Nat /\ m \in Nat \ {0} /\ m <= Len(s)
    BY FrameIs
  <2>2. Len(t) = Len(s) + 1 /\ t \in Seq(Frame)
    BY DEF Entered
  <2> QED BY <2>1, <2>2
<1>3. \A i \in 1 .. m - 1 : t[i] = s[i]
  BY <1>2 DEF Entered
<1>4. p[m] < t[m].next - 1
  <2>1. CASE m < Len(s)
    <3>1. m \in 1 .. Len(s) - 1
      BY <1>2, <2>1
    <3> QED BY <1>1, <2>1, <3>1 DEF Entered
  <2>2. CASE ~ (m < Len(s))
    <3>1. m = Len(s) /\ (s[m].next + 1) - 1 = s[m].next
      BY <1>2, <2>2
    <3> QED BY <1>1, <2>2, <3>1 DEF Entered
  <2> QED BY <2>1, <2>2
<1> QED BY <1>1, <1>2, <1>3, <1>4 DEF PastOf

LEMMA PastLeft ==
  ASSUME NEW root, NEW s, NEW t, SpinesOf(root, s), Left(s, t), t # <<>>
  PROVE  /\ PastOf(t, s[Len(s)].at)
         /\ \A p \in Seq(Nat) : PastOf(s, p) => PastOf(t, p)
<1> DEFINE n == Len(s)
           k == n - 1
<1>1. /\ n \in Nat \ {0, 1} /\ DOMAIN s = 1 .. n /\ s \in Seq(Frame)
      /\ Len(t) = k /\ DOMAIN t = 1 .. k /\ k \in DOMAIN t /\ ~ (k < k)
      /\ \A i \in 1 .. k : t[i] = s[i] /\ s[i].next \in Nat
  <2>0. s # <<>>
    BY DEF Left
  <2>1. n \in Nat \ {0} /\ DOMAIN s = 1 .. n /\ s \in Seq(Frame)
    BY <2>0, LastIsFrame, FrameIs
  <2>2. Len(t) = k /\ t \in Seq(Frame) /\ \A i \in 1 .. Len(t) : t[i] = s[i]
    BY DEF Left
  <2>3. n # 1
    BY <2>1, <2>2
  <2>4. \A i \in 1 .. k : i \in DOMAIN s
    BY <2>1
  <2>5. \A i \in 1 .. k : s[i].next \in Nat
    BY <2>4, FrameIs
  <2> HIDE DEF n
  <2> QED BY <2>1, <2>2, <2>3, <2>5
<1> HIDE DEF n
<1>2. ASSUME NEW p, k <= Len(p), \A i \in 1 .. k : p[i] = s[i].next - 1
      PROVE  PastOf(t, p)
  <2>1. \A i \in 1 .. k - 1 : i \in 1 .. k
    BY <1>1
  <2>2. p[k] < t[k].next
    BY <1>1, <1>2
  <2>3. \A i \in 1 .. k - 1 : p[i] = t[i].next - 1
    BY <1>1, <1>2, <2>1
  <2>4. /\ k <= Len(p) /\ \A i \in 1 .. k - 1 : p[i] = t[i].next - 1
        /\ p[k] < IF k < Len(t) THEN t[k].next - 1 ELSE t[k].next
    BY <1>1, <1>2, <2>2, <2>3
  <2> HIDE DEF k
  <2> QED BY <1>1, <2>4 DEF PastOf
<1>3. PastOf(t, s[n].at)
  <2>1. Len(s[n].at) = k /\ \A i \in 1 .. k : s[n].at[i] = s[i].next - 1
    BY <1>1 DEF SpinesOf, SpineOf
  <2>2. k <= k
    BY <1>1
  <2> QED BY <1>2, <2>1, <2>2
<1>4. ASSUME NEW p \in Seq(Nat), PastOf(s, p) PROVE PastOf(t, p)
  <2>1. PICK m \in DOMAIN s :
          /\ m <= Len(p) /\ \A i \in 1 .. m - 1 : p[i] = s[i].next - 1
          /\ p[m] < IF m < n THEN s[m].next - 1 ELSE s[m].next
    BY <1>4 DEF PastOf, n
  <2>2. CASE m = n
    <3>1. k <= Len(p)
      BY <1>1, <2>1, <2>2
    <3> QED BY <1>2, <2>1, <2>2, <3>1
  <2>3. CASE m \in 1 .. k
    <3>1. \A i \in 1 .. m - 1 : i \in 1 .. k
      BY <1>1, <2>3
    <3>2. \A i \in 1 .. m - 1 : p[i] = t[i].next - 1
      BY <1>1, <2>1, <3>1
    <3>3. p[m] < IF m < k THEN t[m].next - 1 ELSE t[m].next
      BY <1>1, <2>1, <2>3
    <3> QED BY <1>1, <2>1, <2>3, <3>2, <3>3 DEF PastOf
  <2>4. m = n \/ m \in 1 .. k
    BY <1>1
  <2> QED BY <2>2, <2>3, <2>4
<1> QED BY <1>3, <1>4 DEF n

-----------------------------------------------------------------------------
(* The scopes, and the frames that opened them.                            *)
Open(s) == {k \in DOMAIN s : InsideScope(s[k])}

Opening(o, s, sc) ==
  /\ o \in [DOMAIN sc -> Open(s)] /\ Range(o) = Open(s)
  /\ \A i, j \in DOMAIN sc : i < j => o[i] < o[j]
  /\ \A i \in DOMAIN sc : sc[i] = Bindings(s[o[i]].at)

Followed(s, sc) == (\E S : sc \in Seq(S)) /\ \E o : Opening(o, s, sc)

LEMMA ScopedIs ==
  Scoped <=> Followed(stack, scopes)
<1>1. ASSUME NEW o \in [DOMAIN scopes -> DOMAIN stack], Range(o) = Open(stack)
      PROVE  o \in [DOMAIN scopes -> Open(stack)]
  <2>1. DOMAIN o = DOMAIN scopes /\ \A i \in DOMAIN o : o[i] \in Range(o)
    BY DEF Range
  <2> QED BY <1>1, <2>1
<1>2. ASSUME NEW o \in [DOMAIN scopes -> Open(stack)]
      PROVE  o \in [DOMAIN scopes -> DOMAIN stack]
  BY DEF Open
<1>3. ASSUME Scoped PROVE Followed(stack, scopes)
  <2>1. PICK o \in [DOMAIN scopes -> DOMAIN stack] :
          /\ \A i, j \in DOMAIN scopes : i < j => o[i] < o[j]
          /\ Range(o) = Open(stack)
          /\ \A i \in DOMAIN scopes : scopes[i] = Bindings(stack[o[i]].at)
    BY <1>3 DEF Scoped, ScopesFollowTheTree, Open
  <2>2. o \in [DOMAIN scopes -> Open(stack)]
    BY <1>1, <2>1
  <2>3. Opening(o, stack, scopes)
    BY <2>1, <2>2 DEF Opening
  <2> QED BY <1>3, <2>3 DEF Followed, Scoped
<1>4. ASSUME Followed(stack, scopes) PROVE Scoped
  <2>1. PICK o : Opening(o, stack, scopes)
    BY <1>4 DEF Followed
  <2>2. o \in [DOMAIN scopes -> DOMAIN stack]
    BY <1>2, <2>1 DEF Opening
  <2>3. ScopesFollowTheTree
    BY <2>1, <2>2 DEF Opening, ScopesFollowTheTree, Open
  <2> QED BY <1>4, <2>3 DEF Followed, Scoped
<1> QED BY <1>3, <1>4

LEMMA FollowedKept ==
  ASSUME NEW s, NEW t, NEW sc, Followed(s, sc), Open(t) = Open(s),
         \A k \in Open(s) : t[k].at = s[k].at
  PROVE  Followed(t, sc)
<1>1. PICK o : Opening(o, s, sc)
  BY DEF Followed
<1>2. \A i \in DOMAIN sc : t[o[i]].at = s[o[i]].at
  BY <1>1 DEF Opening
<1>3. Opening(o, t, sc)
  BY <1>1, <1>2 DEF Opening
<1> QED BY <1>3 DEF Followed

LEMMA FollowedPushed ==
  ASSUME NEW s, NEW t, NEW sc, NEW b, NEW n \in Nat, Followed(s, sc),
         Open(t) = Open(s) \cup {n}, b = Bindings(t[n].at),
         \A k \in Open(s) : k < n /\ t[k].at = s[k].at
  PROVE  Followed(t, Append(sc, b))
<1>1. PICK o : Opening(o, s, sc)
  BY DEF Followed
<1>2. PICK S : sc \in Seq(S)
  BY DEF Followed
<1> DEFINE N == Len(sc)
           sd == Append(sc, b)
           new == [i \in 1 .. N + 1 |-> IF i <= N THEN o[i] ELSE n]
<1>3. N \in Nat /\ DOMAIN sc = 1 .. N
  BY <1>2
<1>4. /\ sd \in Seq(S \cup {b}) /\ DOMAIN sd = 1 .. N + 1 /\ sd[N + 1] = b
      /\ \A i \in 1 .. N : sd[i] = sc[i]
  BY <1>2
<1> HIDE DEF N, sd
<1>5. /\ o \in [1 .. N -> Open(s)] /\ Range(o) = Open(s)
      /\ \A i, j \in 1 .. N : i < j => o[i] < o[j]
      /\ \A i \in 1 .. N : sc[i] = Bindings(s[o[i]].at)
  BY <1>1, <1>3 DEF Opening
<1>6. /\ DOMAIN new = 1 .. N + 1 /\ new[N + 1] = n
      /\ \A i \in 1 .. N : new[i] = o[i] /\ o[i] \in Open(s) /\ i \in 1 .. N + 1
  BY <1>3, <1>5
<1>7. \A i \in 1 .. N + 1 : i \in 1 .. N \/ i = N + 1
  BY <1>3
<1> HIDE DEF new
<1>8. new \in [1 .. N + 1 -> Open(s) \cup {n}]
  <2>1. \A i \in 1 .. N + 1 : new[i] \in Open(s) \cup {n}
    BY <1>6, <1>7
  <2> QED BY <1>6, <2>1 DEF new
<1>9. Range(new) = Open(s) \cup {n}
  <2>1. N + 1 \in 1 .. N + 1
    BY <1>3
  <2>2. \A k \in Open(s) : \E i \in 1 .. N : new[i] = k
    <3>1. \A k \in Open(s) : \E i \in 1 .. N : o[i] = k
      BY <1>5 DEF Range
    <3> QED BY <1>6, <3>1
  <2>3. Open(s) \cup {n} \subseteq Range(new)
    BY <1>6, <2>1, <2>2 DEF Range
  <2>4. Range(new) \subseteq Open(s) \cup {n}
    BY <1>8 DEF Range
  <2> QED BY <2>3, <2>4
<1>10. ASSUME NEW i \in 1 .. N + 1, NEW j \in 1 .. N + 1, i < j PROVE new[i] < new[j]
  <2>1. i \in 1 .. N
    BY <1>3, <1>10
  <2>2. CASE j \in 1 .. N
    BY <1>5, <1>6, <1>10, <2>1, <2>2
  <2>3. CASE j = N + 1
    BY <1>6, <2>1, <2>3
  <2> QED BY <1>7, <2>2, <2>3
<1>11. ASSUME NEW i \in 1 .. N + 1 PROVE sd[i] = Bindings(t[new[i]].at)
  <2>1. CASE i \in 1 .. N
    <3>1. sd[i] = Bindings(s[o[i]].at) /\ t[o[i]].at = s[o[i]].at /\ new[i] = o[i]
      BY <1>4, <1>5, <1>6, <2>1
    <3> QED BY <3>1
  <2>2. CASE i = N + 1
    BY <1>4, <1>6, <2>2
  <2> QED BY <1>7, <2>1, <2>2
<1>12. Opening(new, t, sd)
  BY <1>4, <1>8, <1>9, <1>10, <1>11 DEF Opening
<1> QED BY <1>4, <1>12 DEF Followed, sd

LEMMA FollowedPopped ==
  ASSUME NEW s, NEW t, NEW sc, NEW n \in Nat, Followed(s, sc),
         n \in Open(s), Open(t) = Open(s) \ {n},
         \A k \in Open(s) : k \in Nat /\ k <= n,
         \A k \in Open(t) : t[k].at = s[k].at
  PROVE  Followed(t, Front(sc))
<1>1. PICK o : Opening(o, s, sc)
  BY DEF Followed
<1>2. PICK S : sc \in Seq(S)
  BY DEF Followed
<1> DEFINE N == Len(sc)
           sd == SubSeq(sc, 1, N - 1)
           new == [i \in 1 .. N - 1 |-> o[i]]
<1>3. N \in Nat /\ DOMAIN sc = 1 .. N
  BY <1>2
<1>4. /\ o \in [1 .. N -> Open(s)] /\ Range(o) = Open(s)
      /\ \A i, j \in 1 .. N : i < j => o[i] < o[j]
      /\ \A i \in 1 .. N : sc[i] = Bindings(s[o[i]].at)
  BY <1>1, <1>3 DEF Opening
<1>5. PICK l \in 1 .. N : o[l] = n
  BY <1>4 DEF Range
<1>6. N \in 1 .. N /\ N - 1 \in 0 .. N
  BY <1>3, <1>5
<1>7. o[N] = n
  <2> SUFFICES ASSUME l # N PROVE FALSE
    BY <1>5
  <2> HIDE DEF N
  <2>1. l < N
    BY <1>3, <1>5
  <2>2. n < o[N] /\ o[N] \in Open(s)
    BY <1>4, <1>5, <1>6, <2>1
  <2>3. o[N] \in Nat /\ o[N] <= n
    BY <2>2
  <2> QED BY <2>2, <2>3
<1>8. /\ sd \in Seq(S) /\ Len(sd) = N - 1
      /\ \A i \in 1 .. N - 1 : sd[i] = sc[i]
  BY <1>2, <1>6, Prefix
<1>9. DOMAIN sd = 1 .. N - 1
  <2> HIDE DEF sd
  <2> QED BY <1>8
<1>10. \A i \in 1 .. N - 1 : i \in 1 .. N /\ i < N
  BY <1>3
<1>11. \A i \in 1 .. N - 1 : o[i] \in Open(t)
  BY <1>4, <1>6, <1>7, <1>10
<1> HIDE DEF sd, N
<1>12. \A i \in 1 .. N : i = N \/ i \in 1 .. N - 1
  BY <1>3
<1>13. /\ DOMAIN new = 1 .. N - 1 /\ \A i \in 1 .. N - 1 : new[i] = o[i]
       /\ new \in [1 .. N - 1 -> Open(t)]
  BY <1>11
<1> HIDE DEF new
<1>14. Range(new) = Open(t)
  <2>1. \A k \in Open(t) : \E i \in 1 .. N - 1 : o[i] = k
    <3> TAKE k \in Open(t)
    <3>1. PICK i \in 1 .. N : o[i] = k
      BY <1>4 DEF Range
    <3>2. i # N
      BY <1>7, <3>1
    <3> QED BY <1>12, <3>1, <3>2
  <2>2. Open(t) \subseteq Range(new)
    BY <1>13, <2>1 DEF Range
  <2>3. Range(new) \subseteq Open(t)
    BY <1>13 DEF Range
  <2> QED BY <2>2, <2>3
<1>15. \A i, j \in 1 .. N - 1 : i < j => new[i] < new[j]
  BY <1>4, <1>10, <1>13
<1>16. \A i \in 1 .. N - 1 : sd[i] = Bindings(t[new[i]].at)
  <2> TAKE i \in 1 .. N - 1
  <2>1. sd[i] = Bindings(s[o[i]].at) /\ t[o[i]].at = s[o[i]].at /\ new[i] = o[i]
    BY <1>4, <1>8, <1>10, <1>11, <1>13
  <2> QED BY <2>1
<1>17. Opening(new, t, sd)
  BY <1>9, <1>13, <1>14, <1>15, <1>16 DEF Opening
<1>18. Front(sc) = sd
  BY DEF Front, sd, N
<1> QED BY <1>8, <1>17, <1>18 DEF Followed

LEMMA OpenEntered ==
  ASSUME tree \in Trees, NEW s, NEW t, SpinesOf(tree, s), Entered(s, t),
         s[Len(s)].next <= Len(NodeAt(s[Len(s)].at).kids)
  PROVE  /\ \A k \in Open(s) : k < Len(s) /\ t[k] = s[k]
         /\ Open(t) = IF InsideScope(t[Len(s)]) THEN Open(s) \cup {Len(s)} ELSE Open(s)
<1> DEFINE n == Len(s)
<1>0. s # <<>>
  BY DEF Entered
<1>1. n \in DOMAIN s /\ n \in Nat \ {0} /\ DOMAIN s = 1 .. n /\ s \in Seq(Frame)
  BY <1>0, LastIsFrame, FrameIs
<1>2. /\ Len(t) = n + 1 /\ DOMAIN t = 1 .. n + 1
      /\ \A j \in 1 .. n - 1 : t[j] = s[j]
  BY <1>1 DEF Entered
<1>3. s[n].next \in Nat /\ NodeAt(s[n].at).kids \in Seq(NodesOf(tree))
  <2> HIDE DEF n
  <2>1. s[n].next \in Nat /\ PositionIn(tree, s[n].at)
    BY <1>1, FrameIs
  <2> QED BY <2>1, NodeIs DEF NodeAt
<1>4. ~ InsideScope(s[n])
  <2>1. ~ (s[n].next > Len(NodeAt(s[n].at).kids))
    BY <1>3
  <2> QED BY <2>1 DEF InsideScope
<1>5. SpinesOf(tree, t)
  BY SpineEntered DEF NodeAt
<1>6. ~ InsideScope(t[n + 1])
  <2> DEFINE e == NodeAt(t[n + 1].at)
  <2>1. n + 1 \in DOMAIN t
    BY <1>1, <1>2
  <2>2. PositionIn(tree, t[n + 1].at)
    BY <1>5, <2>1, FrameIs
  <2>3. e.kids \in Seq(NodesOf(tree)) /\ Shaped(e)
    BY <2>2, NodeIs DEF NodeAt
  <2>4. t[n + 1].next = 1
    BY <1>2 DEF Entered
  <2> HIDE DEF e
  <2>5. e.op \in {"method", "let"} => Len(e.kids) >= 1
    <3>1. Len(e.kids) \in Counts(e.op)
      BY <2>3 DEF Shaped
    <3>2. e.op = "method" => Len(e.kids) = 1
      BY <3>1 DEF Counts
    <3>3. e.op = "let" => Len(e.kids) = 1 \/ Len(e.kids) = 2
      BY <3>1 DEF Counts
    <3>4. 1 >= 1 /\ 2 >= 1
      OBVIOUS
    <3> QED BY <3>2, <3>3, <3>4
  <2>6. Len(e.kids) \in Nat
    BY <2>3
  <2>7. ~ (e.op \in {"method", "let"} /\ t[n + 1].next > Len(e.kids))
    BY <2>4, <2>5, <2>6
  <2> QED BY <2>7 DEF InsideScope, e
<1> HIDE DEF n
<1>7. \A k \in Open(s) : k \in 1 .. n - 1 /\ k < n /\ t[k] = s[k]
  <2> TAKE k \in Open(s)
  <2>1. k \in 1 .. n /\ k # n
    BY <1>1, <1>4 DEF Open
  <2> QED BY <1>1, <1>2, <2>1
<1>8. \A k : k \in Open(t) <=> k \in Open(s) \/ (k = n /\ InsideScope(t[n]))
  <2> TAKE k
  <2>1. CASE k \in 1 .. n - 1
    <3>1. k \in DOMAIN s /\ k \in DOMAIN t /\ t[k] = s[k] /\ k # n
      BY <1>1, <1>2, <2>1
    <3> QED BY <3>1 DEF Open
  <2>2. CASE k = n
    <3>1. k \in DOMAIN t
      BY <1>1, <1>2, <2>2
    <3> QED BY <1>4, <2>2, <3>1 DEF Open
  <2>3. CASE k = n + 1
    BY <1>1, <1>6, <1>7, <2>3 DEF Open
  <2>4. CASE k \notin 1 .. n + 1
    <3>1. k \notin DOMAIN s /\ k \notin DOMAIN t /\ k # n
      BY <1>1, <1>2, <2>4
    <3> QED BY <3>1 DEF Open
  <2>5. k \in 1 .. n + 1 => k \in 1 .. n - 1 \/ k = n \/ k = n + 1
    BY <1>1
  <2> QED BY <2>1, <2>2, <2>3, <2>4, <2>5
<1>9. Open(t) = IF InsideScope(t[n]) THEN Open(s) \cup {n} ELSE Open(s)
  <2>1. ASSUME InsideScope(t[n]) PROVE Open(t) = Open(s) \cup {n}
    <3>1. \A k : k \in Open(t) <=> k \in Open(s) \/ k = n
      BY <1>8, <2>1, Zenon
    <3> DEFINE was == Open(s)
               are == Open(t)
    <3>2. \A k : k \in are <=> k \in was \/ k = n
      BY <3>1
    <3> HIDE DEF was, are
    <3>3. are = was \cup {n}
      BY <3>2
    <3> QED BY <3>3 DEF was, are
  <2>2. ASSUME ~ InsideScope(t[n]) PROVE Open(t) = Open(s)
    <3>1. \A k : k \in Open(t) <=> k \in Open(s)
      BY <1>8, <2>2, Zenon
    <3> DEFINE was == Open(s)
               are == Open(t)
    <3>2. \A k : k \in are <=> k \in was
      BY <3>1
    <3> HIDE DEF was, are
    <3>3. are = was
      BY <3>2
    <3> QED BY <3>3 DEF was, are
  <2> QED BY <2>1, <2>2, Zenon
<1> QED BY <1>7, <1>9 DEF n

LEMMA OpenLeft ==
  ASSUME NEW s, NEW t, SpinesOf(tree, s), Left(s, t)
  PROVE  /\ Open(t) = Open(s) \ {Len(s)}
         /\ \A k \in Open(s) : k \in Nat /\ k <= Len(s)
         /\ \A k \in Open(t) : t[k] = s[k]
<1> DEFINE n == Len(s)
<1>0. s # <<>>
  BY DEF Left
<1>1. n \in DOMAIN s /\ n \in Nat \ {0} /\ DOMAIN s = 1 .. n /\ s \in Seq(Frame)
  BY <1>0, LastIsFrame, FrameIs
<1>2. DOMAIN t = 1 .. n - 1 /\ \A j \in 1 .. n - 1 : t[j] = s[j]
  BY <1>1 DEF Left
<1> HIDE DEF n
<1>3. \A k : k \in 1 .. n - 1 <=> k \in 1 .. n /\ k # n
  BY <1>1
<1>4. \A k \in 1 .. n : k \in Nat /\ k <= n
  BY <1>1
<1>5. \A k : k \in Open(t) <=> k \in Open(s) /\ k # n
  BY <1>1, <1>2, <1>3 DEF Open
<1>6. Open(t) = Open(s) \ {n}
  BY <1>5
<1>7. \A k \in Open(t) : t[k] = s[k]
  BY <1>2 DEF Open
<1>8. \A k \in Open(s) : k \in Nat /\ k <= n
  BY <1>1, <1>4 DEF Open
<1> QED BY <1>6, <1>7, <1>8 DEF n

-----------------------------------------------------------------------------
(* What a step does not touch.                                             *)
LEMMA TreeStays ==
  ASSUME UNCHANGED <<tree, table>>
  PROVE  /\ \A p : NodeAt(p)' = NodeAt(p) /\ Bindings(p)' = Bindings(p)
         /\ \A p : ClassOf(p)' = ClassOf(p)
         /\ \A s : Open(s)' = Open(s)
<1>1. \A p : NodeAt(p)' = NodeAt(p) /\ ClassOf(p)' = ClassOf(p)
  BY DEF NodeAt, ClassOf
<1>2. \A p : Bindings(p)' = Bindings(p)
  BY <1>1 DEF Bindings
<1>3. ASSUME NEW s PROVE Open(s)' = Open(s)
  <2>1. Open(s) = {k \in DOMAIN s : /\ NodeAt(s[k].at).op \in {"method", "let"}
                                     /\ s[k].next > Len(NodeAt(s[k].at).kids)}
    BY DEF Open, InsideScope
  <2>2. Open(s)' = {k \in DOMAIN s : /\ NodeAt(s[k].at)'.op \in {"method", "let"}
                                      /\ s[k].next > Len(NodeAt(s[k].at)'.kids)}
    BY DEF Open, InsideScope
  <2>3. \A k : NodeAt(s[k].at)' = NodeAt(s[k].at)
    BY <1>1
  <2> QED BY <2>1, <2>2, <2>3
<1> QED BY <1>1, <1>2, <1>3

LEMMA FollowedStays ==
  ASSUME UNCHANGED <<tree, table>>, NEW t, NEW sd, t = stack', sd = scopes', Followed(t, sd)
  PROVE  Scoped'
<1>1. Followed(t, sd)'
  <2>1. PICK o : Opening(o, t, sd)
    BY DEF Followed
  <2>2. Open(t)' = Open(t) /\ \A p : Bindings(p)' = Bindings(p)
    BY TreeStays
  <2>3. \A i : Bindings(t[o[i]].at)' = Bindings(t[o[i]].at)
    BY <2>2
  <2>4. Opening(o, t, sd)'
    BY <2>1, <2>2, <2>3 DEF Opening
  <2>5. \E S : sd \in Seq(S)
    BY DEF Followed
  <2> QED BY <2>4, <2>5 DEF Followed
<1>2. Followed(stack, scopes)'
  BY <1>1
<1>3. (Scoped <=> Followed(stack, scopes))'
  BY ScopedIs, PTL
<1> QED BY <1>2, <1>3

(* A visitor's step enters a child of the node on top or leaves it.        *)
Walks == /\ stack # <<>> /\ UNCHANGED <<tree, table>>
         /\ (Enter /\ ~ Visited) \/ Leave
         /\ current' = IF Node.op = "class" THEN Node.name ELSE current

LEMMA SpineIs ==
  ASSUME Spine
  PROVE  SpinesOf(tree, stack)
BY DEF Spine, SpinesOf

LEMMA EnteredIs ==
  ASSUME Walked, stack # <<>>, Enter, ~ Visited
  PROVE  /\ Entered(stack, stack') /\ tree \in Trees /\ SpinesOf(tree, stack)
         /\ stack[Len(stack)].next <= Len(NodeAt(stack[Len(stack)].at).kids)
<1>1. Entered(stack, stack') /\ tree \in Trees /\ SpinesOf(tree, stack)
  BY EnterIs, SpineIs DEF Walked, OfATree
<1>2. Top = stack[Len(stack)] /\ Top.next \in 1 .. Kids + 1 /\ PositionIn(tree, Top.at)
  BY TopIs DEF Walked
<1>3. Kids \in Nat
  BY <1>1, <1>2, NodeIs DEF Kids, Node, NodeAt
<1>4. Top.next <= Kids
  BY <1>2, <1>3 DEF Visited
<1> QED BY <1>1, <1>2, <1>4 DEF Kids, Node

LEMMA ClassOnTop ==
  ASSUME Spine, stack # <<>>
  PROVE  Node.op = "class" <=> Len(stack) = 2
<1>1. PICK n \in Nat \ {0} : n = Len(stack) /\ Node.op \in LevelOps(n)
  BY TopIs
<1>2. CASE n = 2
  BY <1>1, <1>2 DEF LevelOps
<1>3. CASE n # 2
  BY <1>1, <1>3 DEF LevelOps, Expressions
<1> QED BY <1>2, <1>3

LEMMA WalkStays ==
  ASSUME Walked, Walks
  PROVE  Walked'
<1>1. PICK s : s = stack
  OBVIOUS
<1>2. PICK t : t = stack'
  OBVIOUS
<1>3. /\ tree' = tree /\ tree \in Trees /\ OfATree' /\ SpinesOf(tree, s) /\ s # <<>>
      /\ \A p : NodeAt(p)' = NodeAt(p)
  BY <1>1, SpineIs, TreeStays DEF Walked, Walks, OfATree
<1>4. /\ Len(s) \in Nat \ {0} /\ Top = s[Len(s)] /\ (Node.op = "class" <=> Len(s) = 2)
  BY <1>1, <1>3, TopIs, ClassOnTop DEF Walked
<1>5. Node = NodeAt(s[Len(s)].at)
  BY <1>4 DEF Node
<1>6. CASE Enter /\ ~ Visited
  <2>1. Entered(s, t) /\ s[Len(s)].next <= Len(NodeIn(tree, s[Len(s)].at).kids)
    BY <1>1, <1>2, <1>3, <1>6, EnteredIs DEF NodeAt
  <2>2. SpinesOf(tree, t)
    BY <1>3, <2>1, SpineEntered
  <2>3. Len(t) >= 3 => Len(s) >= 2 /\ t[2].at = s[2].at
    <3> SUFFICES ASSUME Len(t) >= 3 PROVE Len(s) >= 2 /\ t[2].at = s[2].at
      OBVIOUS
    <3>1. Len(s) >= 2
      BY <1>4, <2>1 DEF Entered
    <3>2. CASE Len(s) = 2
      BY <2>1, <3>2 DEF Entered
    <3>3. CASE Len(s) # 2
      <4>0. \A n \in Nat : n >= 2 /\ n # 2 => 2 \in 1 .. n - 1
        OBVIOUS
      <4>1. 2 \in 1 .. Len(s) - 1
        BY <1>4, <3>1, <3>3, <4>0
      <4> QED BY <2>1, <3>1, <4>1 DEF Entered
    <3> QED BY <3>1, <3>2, <3>3
  <2>4. Len(s) >= 2 => current' = NodeAt(s[2].at).name
    <3>1. CASE Len(s) = 2
      BY <1>4, <1>5, <3>1 DEF Walks
    <3>2. CASE Len(s) # 2
      <4>1. current' = current
        BY <1>4, <3>2 DEF Walks
      <4>0. \A n \in Nat : n >= 2 /\ n # 2 => n >= 3
        OBVIOUS
      <4>2. Len(s) >= 2 => Len(s) >= 3
        BY <1>4, <3>2, <4>0
      <4> QED BY <1>1, <4>1, <4>2 DEF Walked, InItsClass
    <3> QED BY <3>1, <3>2
  <2>5. Len(t) >= 3 => current' = NodeAt(t[2].at)'.name
    BY <1>3, <2>3, <2>4
  <2> QED BY <1>2, <1>3, <2>2, <2>5 DEF Walked, Spine, SpinesOf, InItsClass
<1>7. CASE Leave
  <2>1. Left(s, t)
    BY <1>1, <1>2, <1>3, <1>7, LeaveIs DEF Walked
  <2>2. SpinesOf(tree, t)
    BY <1>3, <2>1, SpineLeft
  <2>3. Len(t) >= 3 => current' = NodeAt(t[2].at)'.name
    <3> SUFFICES ASSUME Len(t) >= 3 PROVE current' = NodeAt(t[2].at)'.name
      OBVIOUS
    <3>1. Len(s) >= 3 /\ Len(s) # 2 /\ 2 \in 1 .. Len(t)
      BY <1>4, <2>1 DEF Left
    <3>2. current' = current /\ t[2] = s[2]
      BY <1>4, <2>1, <3>1 DEF Left, Walks
    <3>3. current = NodeAt(s[2].at).name
      BY <1>1, <3>1 DEF Walked, InItsClass
    <3> QED BY <1>3, <3>2, <3>3
  <2> QED BY <1>2, <1>3, <2>2, <2>3 DEF Walked, Spine, SpinesOf, InItsClass
<1> QED BY <1>6, <1>7 DEF Walks

(* The class whose members are visited.                                    *)
LEMMA CurrentIs ==
  ASSUME Walked, Len(stack) >= 3
  PROVE  current = ClassOf(Top.at) /\ current \in ClassName
<1>1. tree \in Trees /\ SpinesOf(tree, stack)
  BY SpineIs DEF Walked, OfATree
<1>2. PICK s : s = stack
  OBVIOUS
<1>3. s # <<>> /\ Len(s) \in DOMAIN s /\ Len(s) \in Nat \ {0}
  BY <1>1, <1>2, LastIsFrame, FrameIs
<1>4. DOMAIN s = 1 .. Len(s) /\ 1 \in DOMAIN s /\ 2 \in DOMAIN s /\ 1 \in 1 .. Len(s) - 1
  BY <1>1, <1>2, <1>3, FrameIs
<1>5. Top.at[1] = s[1].next - 1
  <2>1. s[Len(s)].at[1] = s[1].next - 1
    <3>1. SpinesOf(tree, s)
      BY <1>1, <1>2
    <3>2. \A i \in 1 .. Len(s) - 1 : s[Len(s)].at[i] = s[i].next - 1
      BY <1>3, <3>1, FrameIs
    <3> QED BY <1>4, <3>2
  <2>2. Top = s[Len(s)]
    BY <1>2, <1>3, TopIs DEF Walked
  <2> QED BY <2>1, <2>2
<1>6. /\ s[2].at \in Seq(Nat) /\ Len(s[2].at) = 1 /\ s[2].at[1] = s[1].next - 1
      /\ PositionIn(tree, s[2].at) /\ NodeIn(tree, s[2].at).op \in LevelOps(2)
  <2>1. 1 \in 1 .. 2 - 1 /\ 2 - 1 = 1
    OBVIOUS
  <2>2. SpinesOf(tree, s)
    BY <1>1, <1>2
  <2>3. /\ s[2].at \in Seq(Nat) /\ Len(s[2].at) = 2 - 1
        /\ \A i \in 1 .. 2 - 1 : s[2].at[i] = s[i].next - 1
        /\ PositionIn(tree, s[2].at) /\ NodeIn(tree, s[2].at).op \in LevelOps(2)
    BY <1>4, <2>2, FrameIs
  <2> QED BY <2>1, <2>3
<1> DEFINE k == s[1].next - 1
<1>7. s[2].at = Append(<<>>, k)
  <2>1. k \in Nat /\ s[2].at[1] = k
    BY <1>6
  <2> HIDE DEF k
  <2> DEFINE one == <<k>>
  <2>2. one \in Seq(Nat) /\ Len(one) = 1 /\ one[1] = k
    BY <2>1
  <2>3. \A i \in 1 .. 1 : i = 1
    OBVIOUS
  <2> HIDE DEF one
  <2>4. s[2].at = one
    BY <1>6, <2>1, <2>2, <2>3, SeqEqual
  <2> QED BY <2>4 DEF one
<1>8. k \in DOMAIN tree.kids
  <2>1. /\ 1 \in 1 .. Len(s[2].at)
        /\ s[2].at[1] \in DOMAIN NodeIn(tree, SubSeq(s[2].at, 1, 1 - 1)).kids
    BY <1>6 DEF PositionIn
  <2>2. SubSeq(s[2].at, 1, 1 - 1) = <<>>
    BY <1>6
  <2>3. NodeIn(tree, <<>>) = tree
    BY <1>1, RootIs
  <2> QED BY <1>6, <2>1, <2>2, <2>3
<1>9. NodeIn(tree, s[2].at) = tree.kids[k]
  <2> HIDE DEF k
  <2>1. PositionIn(tree, <<>>) /\ NodeIn(tree, <<>>) = tree
    BY <1>1, RootIs
  <2> QED BY <1>1, <1>7, <1>8, <2>1, KidIs
<1>10. current = NodeIn(tree, s[2].at).name
  BY <1>2 DEF Walked, InItsClass, NodeAt
<1>11. NodeIn(tree, s[2].at).name \in ClassName
  <2>1. Shaped(NodeIn(tree, s[2].at))
    BY <1>1, <1>6, NodeIs
  <2>2. NodeIn(tree, s[2].at).op = "class"
    BY <1>6 DEF LevelOps
  <2> QED BY <2>1, <2>2 DEF Shaped
<1> QED BY <1>5, <1>9, <1>10, <1>11 DEF ClassOf

(* Scopes are pushed where a frame comes inside, and popped where it ends.  *)
LEMMA ScopesEntering ==
  ASSUME Walked, Scoped, stack # <<>>, UNCHANGED <<tree, table>>, Enter, ~ Visited,
         IF Node.op \in {"method", "let"} /\ Top.next = Kids
         THEN scopes' = Append(scopes, Bindings(Top.at)) ELSE scopes' = scopes
  PROVE  Scoped'
<1>1. PICK s, t, n : s = stack /\ t = stack' /\ n = Len(s)
  OBVIOUS
<1>2. /\ tree \in Trees /\ SpinesOf(tree, s) /\ Entered(s, t)
      /\ s[n].next <= Len(NodeAt(s[n].at).kids)
  BY <1>1, EnteredIs
<1>3. /\ Top = s[n] /\ n \in Nat \ {0} /\ Top.next \in 1 .. Kids + 1
      /\ PositionIn(tree, Top.at)
  BY <1>1, TopIs DEF Walked
<1>4. t[n].at = Top.at /\ t[n].next = Top.next + 1 /\ Node = NodeAt(t[n].at)
  BY <1>1, <1>2, <1>3 DEF Entered, Node
<1>5. Kids \in Nat /\ Top.next \in Nat /\ Top.next <= Kids
  <2>1. Node.kids \in Seq(NodesOf(tree))
    BY <1>2, <1>3, NodeIs DEF Node, NodeAt
  <2>2. Kids \in Nat
    BY <2>1 DEF Kids
  <2> QED BY <1>3, <2>2 DEF Visited
<1>6. Top.next + 1 > Kids <=> Top.next = Kids
  BY <1>5
<1>7. InsideScope(t[n]) <=> Node.op \in {"method", "let"} /\ Top.next = Kids
  BY <1>4, <1>6 DEF InsideScope, Kids
<1>8. /\ \A k \in Open(s) : k < n /\ t[k].at = s[k].at
      /\ Open(t) = IF InsideScope(t[n]) THEN Open(s) \cup {n} ELSE Open(s)
  BY <1>1, <1>2, OpenEntered
<1>9. Followed(s, scopes)
  BY <1>1, ScopedIs
<1>10. PICK sc, sd : sc = scopes /\ sd = scopes'
  OBVIOUS
<1>11. CASE InsideScope(t[n])
  <2>1. sd = Append(sc, Bindings(t[n].at))
    BY <1>4, <1>7, <1>10, <1>11
  <2>2. Open(t) = Open(s) \cup {n}
    BY <1>8, <1>11
  <2>3. Followed(t, Append(sc, Bindings(t[n].at)))
    BY <1>3, <1>8, <1>9, <1>10, <2>2, FollowedPushed
  <2> QED BY <1>1, <1>10, <2>1, <2>3, FollowedStays
<1>12. CASE ~ InsideScope(t[n])
  <2>1. sd = sc
    BY <1>7, <1>10, <1>12
  <2>2. Open(t) = Open(s)
    BY <1>8, <1>12
  <2>3. Followed(t, sc)
    BY <1>8, <1>9, <1>10, <2>2, FollowedKept
  <2> QED BY <1>1, <1>10, <2>1, <2>3, FollowedStays
<1> QED BY <1>11, <1>12

LEMMA ScopesLeaving ==
  ASSUME Walked, Scoped, stack # <<>>, UNCHANGED <<tree, table>>, Leave,
         IF Node.op \in {"method", "let"}
         THEN Visited /\ scopes' = Front(scopes) ELSE scopes' = scopes
  PROVE  Scoped'
<1>1. PICK s, t, n : s = stack /\ t = stack' /\ n = Len(s)
  OBVIOUS
<1>2. SpinesOf(tree, s) /\ Left(s, t)
  BY <1>1, LeaveIs, SpineIs DEF Walked
<1>3. Top = s[n] /\ n \in Nat \ {0} /\ n \in DOMAIN s /\ Node = NodeAt(s[n].at)
  BY <1>1, TopIs DEF Walked, Node
<1>4. /\ Open(t) = Open(s) \ {n} /\ \A k \in Open(s) : k \in Nat /\ k <= n
      /\ \A k \in Open(t) : t[k].at = s[k].at
  BY <1>1, <1>2, OpenLeft
<1>5. n \in Open(s) <=> Node.op \in {"method", "let"} /\ Visited
  BY <1>3 DEF Open, InsideScope, Visited, Kids
<1>6. Followed(s, scopes)
  BY <1>1, ScopedIs
<1>7. PICK sc, sd : sc = scopes /\ sd = scopes'
  OBVIOUS
<1>8. CASE Node.op \in {"method", "let"}
  <2>1. sd = Front(sc) /\ n \in Open(s)
    BY <1>5, <1>7, <1>8
  <2>2. Followed(t, Front(sc))
    BY <1>3, <1>4, <1>6, <1>7, <2>1, FollowedPopped
  <2> QED BY <1>1, <1>7, <2>1, <2>2, FollowedStays
<1>9. CASE Node.op \notin {"method", "let"}
  <2>1. sd = sc /\ n \notin Open(s)
    BY <1>5, <1>7, <1>9
  <2>2. Open(t) = Open(s)
    BY <1>4, <2>1
  <2>3. Followed(t, sc)
    BY <1>4, <1>6, <1>7, <2>2, FollowedKept
  <2> QED BY <1>1, <1>7, <2>1, <2>3, FollowedStays
<1> QED BY <1>8, <1>9

-----------------------------------------------------------------------------
(* What every visit does to the stack, the class and the scopes.           *)
ScopesGo ==
  \/ /\ Enter /\ ~ Visited
     /\ IF Node.op \in {"method", "let"} /\ Top.next = Kids
        THEN scopes' = Append(scopes, Bindings(Top.at)) ELSE scopes' = scopes
  \/ /\ Leave
     /\ IF Node.op \in {"method", "let"}
        THEN Visited /\ scopes' = Front(scopes) ELSE scopes' = scopes

Goes == /\ stack # <<>> /\ UNCHANGED <<tree, table>> /\ ScopesGo
        /\ current' = IF Node.op = "class" THEN Node.name ELSE current

Ends == /\ stack # <<>> /\ Node.op \in Expressions \ {"let"} /\ Leave
        /\ UNCHANGED <<tree, table, current, scopes>>

LEMMA EndsGoes ==
  ASSUME Ends
  PROVE  Goes
BY DEF Ends, Goes, ScopesGo, Expressions

LEMMA NodeShape ==
  ASSUME Walked, stack # <<>>
  PROVE  /\ Shaped(Node) /\ Node.kids \in Seq(NodesOf(tree)) /\ Kids \in Nat
         /\ Kids \in Counts(Node.op) /\ Top.next \in Nat \ {0} /\ Top.next <= Kids + 1
<1>1. PositionIn(tree, Top.at) /\ Top.next \in 1 .. Kids + 1 /\ tree \in Trees
  BY TopIs DEF Walked, OfATree
<1>2. Shaped(Node) /\ Node.kids \in Seq(NodesOf(tree))
  BY <1>1, NodeIs DEF Node, NodeAt
<1>3. Kids \in Nat /\ Kids \in Counts(Node.op)
  BY <1>2 DEF Kids, Shaped
<1> QED BY <1>1, <1>2, <1>3

LEMMA DeepOnTop ==
  ASSUME Walked, stack # <<>>, Node.op \in Expressions \cup {"method"}
  PROVE  Len(stack) >= 3 /\ current = ClassOf(Top.at) /\ current \in ClassName
<1>1. PICK n \in Nat \ {0} : n = Len(stack) /\ Node.op \in LevelOps(n)
  BY TopIs DEF Walked
<1>2. n # 1 /\ n # 2
  BY <1>1 DEF LevelOps, Expressions
<1>3. n >= 3
  BY <1>2
<1> QED BY <1>1, <1>3, CurrentIs

LEMMA NextGoes ==
  ASSUME Walked, Next
  PROVE  Goes
<1>1. CASE VisitProgram
  BY <1>1 DEF VisitProgram, At, EnterOrLeave, Goes, ScopesGo
<1>2. CASE VisitClass
  BY <1>2 DEF VisitClass, At, EnterOrLeave, Goes, ScopesGo
<1>3. CASE VisitField
  BY <1>3 DEF VisitField, At, EnterOrLeave, Goes, ScopesGo
<1>4. CASE StartMethod
  <2>1. stack # <<>> /\ Node.op = "method" /\ Top.next = 1
    BY <1>4 DEF StartMethod, At, Arriving
  <2>2. Kids \in {1}
    BY <2>1, NodeShape DEF Counts
  <2>3. ~ Visited /\ Top.next = Kids
    BY <2>1, <2>2 DEF Visited
  <2>4. Bindings(Top.at) = MethodScope(Node, current)
    BY <2>1, DeepOnTop DEF Bindings, Node
  <2>5. /\ Enter /\ scopes' = Append(scopes, MethodScope(Node, current))
        /\ UNCHANGED <<tree, table, current>>
    BY <1>4 DEF StartMethod, PushScope
  <2> QED BY <2>1, <2>3, <2>4, <2>5 DEF Goes, ScopesGo
<1>5. CASE EndMethod
  BY <1>5 DEF EndMethod, At, PopScope, Goes, ScopesGo
<1>6. CASE VisitKid
  BY <1>6 DEF VisitKid, Plain, Goes, ScopesGo
<1>7. CASE VisitLiteral \/ VisitSelf \/ VisitNew \/ VisitVariable
  <2>1. Ends
    BY <1>7 DEF VisitLiteral, VisitSelf, VisitNew, VisitVariable, Finish, At, Ends, Expressions
  <2> QED BY <2>1, EndsGoes
<1>8. CASE EndBlock \/ EndIf \/ EndWhile \/ EndEqual
  <2>1. Ends
    BY <1>8 DEF EndBlock, EndIf, EndWhile, EndEqual, Finish, At, Ends, Expressions
  <2> QED BY <2>1, EndsGoes
<1>9. CASE EndUnary
  <2>1. stack # <<>> /\ Node.op \in {"not", "minus", "isnull"}
    BY <1>9 DEF EndUnary, UnaryOf
  <2>2. Ends
    BY <1>9, <2>1 DEF EndUnary, Finish, Ends, Expressions
  <2> QED BY <2>2, EndsGoes
<1>10. CASE EndBinary
  <2>1. stack # <<>> /\ Node.op \in {"arithmetic", "comparison", "and"}
    BY <1>10 DEF EndBinary, BinaryOf
  <2>2. Ends
    BY <1>10, <2>1 DEF EndBinary, Finish, Ends, Expressions
  <2> QED BY <2>2, EndsGoes
<1>11. CASE EndCall
  <2>1. Ends
    BY <1>11 DEF EndCall, Finish, At, Ends, Expressions
  <2> QED BY <2>1, EndsGoes
<1>12. CASE StartAssign
  <2>1. stack # <<>> /\ Node.op = "assign" /\ Top.next = 1
    BY <1>12 DEF StartAssign, At, Arriving
  <2>2. CASE Resolve(Node.name) = {}
    <3>1. Ends
      BY <1>12, <2>1, <2>2 DEF StartAssign, Finish, Ends, Expressions
    <3> QED BY <3>1, EndsGoes
  <2>3. CASE Resolve(Node.name) # {}
    <3>1. Kids \in {1}
      BY <2>1, NodeShape DEF Counts
    <3>2. ~ Visited
      BY <2>1, <3>1 DEF Visited
    <3>3. Enter /\ UNCHANGED <<tree, table, current, scopes>>
      BY <1>12, <2>3 DEF StartAssign
    <3> QED BY <2>1, <3>2, <3>3 DEF Goes, ScopesGo
  <2> QED BY <2>2, <2>3
<1>13. CASE EndAssign
  <2>1. Ends
    BY <1>13 DEF EndAssign, Finish, At, Ends, Expressions
  <2> QED BY <2>1, EndsGoes
<1>14. CASE StartLet
  <2>1. stack # <<>> /\ Node.op = "let" /\ Top.next = 1 /\ Kids = 2
    BY <1>14 DEF StartLet, At, Arriving
  <2>2. ~ Visited /\ Top.next # Kids
    BY <2>1 DEF Visited
  <2>3. Enter /\ UNCHANGED <<tree, table, current, scopes>>
    BY <1>14 DEF StartLet
  <2> QED BY <2>1, <2>2, <2>3 DEF Goes, ScopesGo
<1>15. CASE BindLet
  <2>1. stack # <<>> /\ Node.op = "let" /\ Top.next = Kids
    BY <1>15 DEF BindLet, At
  <2>2. ~ Visited
    BY <2>1, NodeShape DEF Visited
  <2>3. Bindings(Top.at) = LetScope(Node)
    BY <2>1 DEF Bindings, Node
  <2>4. /\ Enter /\ scopes' = Append(scopes, LetScope(Node))
        /\ UNCHANGED <<tree, table, current>>
    BY <1>15 DEF BindLet, PushScope
  <2> QED BY <2>1, <2>2, <2>3, <2>4 DEF Goes, ScopesGo
<1>16. CASE EndLet
  BY <1>16 DEF EndLet, At, PopScope, Goes, ScopesGo
<1> QED BY <1>1, <1>2, <1>3, <1>4, <1>5, <1>6, <1>7, <1>8, <1>9, <1>10, <1>11, <1>12,
           <1>13, <1>14, <1>15, <1>16 DEF Next

LEMMA InitWalked ==
  ASSUME Init
  PROVE  SInv
<1>1. /\ tree \in Trees /\ table = TableOfTree(tree) /\ scopes = <<>>
      /\ stack = <<[at |-> <<>>, next |-> 1]>>
  BY DEF Init
<1>2. /\ DOMAIN stack = {1} /\ Len(stack) = 1 /\ stack \in Seq(Frame)
      /\ stack[1].at = <<>> /\ stack[1].next = 1
  <2> DEFINE f == [at |-> <<>>, next |-> 1]
  <2>1. <<>> \in Seq(Nat)
    OBVIOUS
  <2>2. f \in Frame /\ f.at = <<>> /\ f.next = 1
    BY <2>1 DEF Frame
  <2> HIDE DEF f
  <2>3. stack = <<f>>
    BY <1>1 DEF f
  <2> QED BY <2>2, <2>3
<1>3. PositionIn(tree, <<>>) /\ NodeIn(tree, <<>>) = tree
  BY <1>1, RootIs
<1>4. tree.op = "program" /\ tree.kids \in Seq(NodesOf(tree))
  BY <1>1, TreesAssumption
<1>5. Spine
  <2>1. 1 \in 1 .. Len(tree.kids) + 1
    BY <1>4
  <2>2. Len(<<>>) = 1 - 1 /\ \A i \in 1 .. 1 - 1 : FALSE
    OBVIOUS
  <2>3. SpineOf(tree, stack)
    BY <1>2, <1>3, <2>1, <2>2 DEF SpineOf, NodeAt
  <2>4. LevelsOf(tree, stack)
    BY <1>2, <1>3, <1>4 DEF LevelsOf, LevelOps
  <2> QED BY <2>3, <2>4 DEF Spine
<1>6. InItsClass
  BY <1>2 DEF InItsClass
<1>7. Scoped
  <2>1. Open(stack) = {}
    BY <1>2, <1>3, <1>4 DEF Open, InsideScope, NodeAt
  <2>2. Opening(<<>>, stack, <<>>)
    BY <2>1 DEF Opening, Range
  <2>3. <<>> \in Seq({})
    OBVIOUS
  <2> QED BY <1>1, <2>2, <2>3, ScopedIs DEF Followed
<1> QED BY <1>1, <1>5, <1>6, <1>7 DEF SInv, Walked, OfATree

LEMMA GoesKeeps ==
  ASSUME SInv, Goes
  PROVE  SInv'
<1>1. Walks
  BY DEF Goes, ScopesGo, Walks
<1>2. Walked'
  BY <1>1, WalkStays DEF SInv
<1>3. Scoped'
  <2>1. CASE Enter /\ ~ Visited
    BY <2>1, ScopesEntering, ScopesLeaving DEF SInv, Goes, ScopesGo
  <2>2. CASE ~ (Enter /\ ~ Visited)
    BY <2>2, ScopesLeaving DEF SInv, Goes, ScopesGo
  <2> QED BY <2>1, <2>2
<1> QED BY <1>2, <1>3 DEF SInv

LEMMA SInvStays ==
  ASSUME SInv, [Next]_vars
  PROVE  SInv'
<1>1. CASE Next
  BY <1>1, NextGoes, GoesKeeps DEF SInv
<1>2. CASE UNCHANGED vars
  <2>1. PICK t, sd : t = stack' /\ sd = scopes'
    OBVIOUS
  <2>2. UNCHANGED <<tree, table>> /\ t = stack /\ sd = scopes /\ current' = current
    BY <1>2, <2>1 DEF vars
  <2>3. Scoped'
    BY <2>1, <2>2, ScopedIs, FollowedStays DEF SInv
  <2>4. \A p : NodeAt(p)' = NodeAt(p)
    BY <2>2, TreeStays
  <2>5. Walked'
    BY <2>1, <2>2, <2>4 DEF SInv, Walked, OfATree, Spine, InItsClass
  <2> QED BY <2>3, <2>5 DEF SInv
<1> QED BY <1>1, <1>2

(* types_visitor.cpp: the scopes that the visitor pushes and pops are, at  *)
(* every moment of the visit of any tree, those of the methods and the     *)
(* lets around the node that is visited, innermost last.                   *)
THEOREM ScopesAlwaysFollow == Spec => []ScopesFollowTheTree
<1>1. SInv => ScopesFollowTheTree
  BY DEF SInv, Scoped
<1> QED BY InitWalked, SInvStays, <1>1, PTL DEF Spec

-----------------------------------------------------------------------------
(* What the scopes resolve a name to is what it means where it stands.     *)
LEMMA WayDown ==
  ASSUME NEW root, NEW s, SpinesOf(root, s), NEW j \in DOMAIN s, NEW k \in 0 .. j - 1
  PROVE  k + 1 \in DOMAIN s /\ SubSeq(s[j].at, 1, k) = s[k + 1].at
<1>1. /\ DOMAIN s = 1 .. Len(s) /\ Len(s) \in Nat /\ j \in Nat \ {0} /\ j <= Len(s)
      /\ s[j].at \in Seq(Nat) /\ Len(s[j].at) = j - 1
      /\ \A i \in 1 .. j - 1 : s[j].at[i] = s[i].next - 1
  BY FrameIs
<1>2. k \in Nat /\ k \in 0 .. Len(s[j].at) /\ k + 1 \in DOMAIN s /\ (k + 1) - 1 = k
      /\ \A i \in 1 .. k : i \in 1 .. j - 1
  BY <1>1
<1>3. /\ s[k + 1].at \in Seq(Nat) /\ Len(s[k + 1].at) = (k + 1) - 1
      /\ \A i \in 1 .. (k + 1) - 1 : s[k + 1].at[i] = s[i].next - 1
  BY <1>2, FrameIs
<1>4. /\ SubSeq(s[j].at, 1, k) \in Seq(Nat) /\ Len(SubSeq(s[j].at, 1, k)) = k
      /\ \A i \in 1 .. k : SubSeq(s[j].at, 1, k)[i] = s[j].at[i]
  BY <1>1, <1>2, Prefix
<1>5. \A i \in 1 .. k : SubSeq(s[j].at, 1, k)[i] = s[k + 1].at[i]
  BY <1>1, <1>2, <1>3, <1>4
<1>6. Len(SubSeq(s[j].at, 1, k)) = Len(s[k + 1].at)
  BY <1>2, <1>3, <1>4
<1> DEFINE a == SubSeq(s[j].at, 1, k)
           b == s[k + 1].at
<1>7. /\ a \in Seq(Nat) /\ b \in Seq(Nat) /\ Len(a) = Len(b) /\ Len(a) = k
      /\ \A i \in 1 .. k : a[i] = b[i]
  BY <1>3, <1>4, <1>5, <1>6
<1> HIDE DEF a, b
<1>8. a = b
  BY <1>7, SeqEqual
<1> QED BY <1>2, <1>8 DEF a, b

LEMMA AroundIs ==
  ASSUME NEW root, NEW s, SpinesOf(root, s), NEW n, n \in DOMAIN s
  PROVE  /\ \A q \in Around(s[n].at) : \E j \in 2 .. n - 1 : q = s[j].at
         /\ \A j \in 2 .. n - 1 : s[j].at \in Around(s[n].at)
<1> DEFINE p == s[n].at
<1>1. n \in Nat \ {0} /\ Len(p) = n - 1
  BY FrameIs
<1>2. \A k \in 0 .. n - 1 : SubSeq(p, 1, k) = s[k + 1].at
  BY WayDown
<1> HIDE DEF p
<1>3. Around(p) = {SubSeq(p, 1, k) : k \in 1 .. n - 2}
  <2>1. 1 .. Len(p) - 1 = 1 .. n - 2
    BY <1>1
  <2> QED BY <2>1 DEF Around
<1>4. \A k \in 1 .. n - 2 : k \in 0 .. n - 1 /\ k + 1 \in 2 .. n - 1
  BY <1>1
<1>5. \A j \in 2 .. n - 1 : j - 1 \in 1 .. n - 2 /\ j - 1 \in 0 .. n - 1 /\ (j - 1) + 1 = j
  BY <1>1
<1>6. \A q \in Around(p) : \E j \in 2 .. n - 1 : q = s[j].at
  <2> TAKE q \in Around(p)
  <2>1. PICK k \in 1 .. n - 2 : q = SubSeq(p, 1, k)
    BY <1>3
  <2>2. q = s[k + 1].at /\ k + 1 \in 2 .. n - 1
    BY <1>2, <1>4, <2>1
  <2> QED BY <2>2
<1>7. \A j \in 2 .. n - 1 : s[j].at \in Around(p)
  <2> TAKE j \in 2 .. n - 1
  <2>1. s[(j - 1) + 1].at = SubSeq(p, 1, j - 1)
    BY <1>2, <1>5
  <2>2. s[j].at = SubSeq(p, 1, j - 1)
    BY <1>5, <2>1
  <2> QED BY <1>3, <1>5, <2>2
<1> QED BY <1>6, <1>7 DEF p

(* A frame below the top binds a name where the top stands if it is inside  *)
(* its scope.                                                              *)
LEMMA BindsIs ==
  ASSUME tree \in Trees, NEW s, SpinesOf(tree, s), NEW n \in DOMAIN s,
         NEW j \in 2 .. n - 1, NEW x \in FieldName
  PROVE  Binds(s[j].at, s[n].at, x) <=> j \in Open(s) /\ x \in DOMAIN Bindings(s[j].at)
<1> DEFINE e == NodeAt(s[j].at)
           p == s[n].at
           l == Len(e.kids)
<1>0. n \in Nat /\ j \in Nat /\ j \in 1 .. n - 1 /\ j \in DOMAIN s /\ x # "self"
  <2>1. n \in Nat \ {0} /\ n <= Len(s) /\ DOMAIN s = 1 .. Len(s) /\ Len(s) \in Nat
    BY FrameIs
  <2> QED BY <2>1, TypesAssumption
<1>1. /\ Len(s[j].at) + 1 = j /\ PositionIn(tree, s[j].at) /\ s[j].next \in Nat
  BY <1>0, FrameIs
<1>2. p[j] = s[j].next - 1 /\ PositionIn(tree, p) /\ Len(p) = n - 1
  BY <1>0, FrameIs
<1>3. e.kids \in Seq(NodesOf(tree)) /\ Shaped(e)
  BY <1>1, NodeIs DEF NodeAt
<1>4. p[j] \in DOMAIN e.kids
  <2>1. SubSeq(p, 1, j - 1) = s[j].at
    <3>1. j - 1 \in 0 .. n - 1 /\ (j - 1) + 1 = j
      BY <1>0
    <3> QED BY <3>1, WayDown
  <2>2. j \in 1 .. Len(p)
    BY <1>0, <1>2
  <2>3. p[j] \in DOMAIN NodeIn(tree, SubSeq(p, 1, j - 1)).kids
    BY <1>2, <2>2 DEF PositionIn
  <2> QED BY <2>1, <2>3 DEF NodeAt
<1> HIDE DEF e, p
<1>5. l \in Nat /\ l \in Counts(e.op) /\ p[j] \in 1 .. l
  BY <1>3, <1>4 DEF Shaped
<1> HIDE DEF l
<1>6. s[j].next > l <=> p[j] = l
  BY <1>1, <1>2, <1>5
<1>7. j \in Open(s) <=> e.op \in {"method", "let"} /\ p[j] = l
  BY <1>0, <1>6 DEF Open, InsideScope, e, l
<1>8. Binds(s[j].at, p, x) <=>
        \/ e.op = "method" /\ \E i \in DOMAIN e.formals : e.formals[i].name = x
        \/ e.op = "let" /\ e.name = x /\ p[j] = l
  BY <1>1 DEF Binds, e, l
<1>9. CASE e.op = "method"
  <2>1. l = 1 /\ p[j] = 1
    <3>1. l \in {1}
      BY <1>5, <1>9 DEF Counts
    <3> QED BY <1>5, <3>1
  <2>2. Bindings(s[j].at) = MethodScope(e, ClassOf(s[j].at))
    BY <1>9 DEF Bindings, e
  <2>3. DOMAIN Bindings(s[j].at) = {"self"} \cup {e.formals[i].name : i \in DOMAIN e.formals}
    BY <2>2 DEF MethodScope
  <2> QED BY <1>0, <1>7, <1>8, <1>9, <2>1, <2>3 DEF p
<1>10. CASE e.op = "let"
  <2>1. Bindings(s[j].at) = LetScope(e)
    BY <1>10 DEF Bindings, e
  <2>2. DOMAIN Bindings(s[j].at) = {e.name}
    BY <2>1 DEF LetScope
  <2> QED BY <1>7, <1>8, <1>10, <2>2 DEF p
<1>11. CASE e.op \notin {"method", "let"}
  BY <1>7, <1>8, <1>11 DEF p
<1> QED BY <1>9, <1>10, <1>11

LEMMA DeclaredIs ==
  ASSUME tree \in Trees, NEW q, PositionIn(tree, q), NEW x \in FieldName,
         NodeAt(q).op \in {"method", "let"}, x \in DOMAIN Bindings(q)
  PROVE  DeclaredBy(q, x) = Bindings(q)[x]
<1> DEFINE e == NodeAt(q)
<1>1. CASE e.op = "let"
  BY <1>1 DEF Bindings, LetScope, DeclaredBy
<1>2. CASE e.op = "method"
  <2> DEFINE f == e.formals
             T == {i \in DOMAIN f : f[i].name = x}
             Is(i) == f[i].name = x /\ \A j \in i + 1 .. Len(f) : f[j].name # x
  <2>1. f \in Seq(FormalNode)
    <3>1. Shaped(e)
      BY NodeIs DEF NodeAt
    <3> QED BY <1>2, <3>1 DEF Shaped
  <2>2. Bindings(q) = MethodScope(e, ClassOf(q))
    BY <1>2 DEF Bindings
  <2>3. x # "self"
    BY TypesAssumption
  <2>4. T # {} /\ HasMember(f, x)
    BY <2>2, <2>3 DEF MethodScope, HasMember
  <2>5. DeclaredBy(q, x) = f[Max(T)].type
    BY <1>2 DEF DeclaredBy
  <2>6. Bindings(q)[x] = f[LastNamed(f, x)].type
    BY <2>2, <2>4 DEF MethodScope
  <2> HIDE DEF f
  <2>7. T \in SUBSET Nat /\ \A i \in T : i <= Len(f)
    BY <2>1
  <2>8. PICK m \in T : \A u \in T : m >= u
    <3>1. Len(f) \in Nat
      BY <2>1
    <3> HIDE DEF T
    <3> QED BY <2>4, <2>7, <3>1, Greatest
  <2>9. \A i \in DOMAIN f : Is(i) <=> i = m
    <3>1. DOMAIN f = 1 .. Len(f) /\ Len(f) \in Nat
      BY <2>1
    <3>2. Is(m)
      BY <2>8, <3>1
    <3>3. ASSUME NEW i \in DOMAIN f, Is(i) PROVE i = m
      <4>1. i \in T
        BY <3>3
      <4>2. i <= m /\ m \in 1 .. Len(f) /\ i \in Nat
        BY <2>8, <3>1, <4>1
      <4>3. ~ (i < m)
        <5> SUFFICES ASSUME i < m PROVE FALSE
          OBVIOUS
        <5>1. m \in i + 1 .. Len(f)
          BY <3>1, <4>2
        <5> QED BY <2>8, <3>3, <5>1
      <4> QED BY <4>2, <4>3
    <3> QED BY <3>2, <3>3
  <2>10. m \in DOMAIN f
    BY <2>8
  <2>11. LastNamed(f, x) = CHOOSE i \in DOMAIN f : Is(i)
    BY DEF LastNamed
  <2>12. LastNamed(f, x) = m
    <3> HIDE DEF Is
    <3> QED BY <2>9, <2>10, <2>11
  <2>13. Max(T) = m
    <3>1. Max(T) = CHOOSE u \in T : \A y \in T : u >= y
      BY DEF Max
    <3>2. \A u \in T : (\A y \in T : u >= y) => u = m
      <4> TAKE u \in T
      <4> HAVE \A y \in T : u >= y
      <4>1. u \in Nat /\ m \in Nat /\ u >= m /\ m >= u
        BY <2>7, <2>8
      <4> QED BY <4>1
    <3> HIDE DEF T
    <3> QED BY <2>8, <3>1, <3>2
  <2> QED BY <2>5, <2>6, <2>12, <2>13
<1> QED BY <1>1, <1>2

LEMMA ResolveIsMeaning ==
  ASSUME SInv, stack # <<>>, Node.op \in {"variable", "assign"}
  PROVE  /\ Resolve(Node.name) = Meaning(Node.name, Top.at)
         /\ \A a, b \in Resolve(Node.name) : a = b
<1> DEFINE x == Node.name
           p == Top.at
           binders == {q \in Around(p) : Binds(q, p, x)}
<1>1. PICK s, n, sc : s = stack /\ n = Len(s) /\ sc = scopes
  OBVIOUS
<1>2. /\ tree \in Trees /\ table = TableOfTree(tree) /\ Walked /\ Scoped
      /\ SpinesOf(tree, s) /\ TreeTable(table)
  BY <1>1, SpineIs, TableIsTreeTable DEF SInv, Walked, OfATree
<1>3. /\ n \in Nat \ {0} /\ n \in DOMAIN s /\ DOMAIN s = 1 .. n /\ p = s[n].at
  BY <1>1, <1>2, TopIs DEF Walked
<1>4. x \in FieldName
  BY <1>2, NodeShape DEF Shaped
<1>5. current = ClassOf(p) /\ current \in ClassName
  BY <1>2, DeepOnTop DEF Expressions
<1>6. PICK o : Opening(o, s, sc)
  BY <1>1, <1>2, ScopedIs DEF Followed
<1>7. PICK S : sc \in Seq(S)
  BY <1>1, <1>2, ScopedIs DEF Followed
<1> DEFINE having == {i \in DOMAIN sc : x \in DOMAIN sc[i]}
<1>8. Lookup(x) = {sc[i][x] : i \in {k \in having : \A j \in having : k >= j}}
  BY <1>1 DEF Lookup
<1>9. Meaning(x, p) =
        IF binders # {}
        THEN {DeclaredBy(q, x) : q \in {b \in binders : \A d \in binders : Len(d) <= Len(b)}}
        ELSE FieldTypes(ClassOf(p), x)
  BY DEF Meaning, FieldTypes
<1>10. /\ {f.type : f \in LookupField(current, x)} = FieldTypes(current, x)
       /\ \A a, b \in FieldTypes(current, x) : a = b
  BY <1>2, <1>5, FieldsAreFound
<1>11. \A k \in Open(s) : k \in 2 .. n - 1
  <2> TAKE k \in Open(s)
  <2>1. k \in 1 .. n /\ NodeAt(s[k].at).op \in {"method", "let"}
    BY <1>3 DEF Open, InsideScope
  <2>2. k # n
    <3>1. NodeAt(s[n].at).op \in {"variable", "assign"}
      BY <1>3 DEF Node
    <3> QED BY <2>1, <3>1
  <2>3. k # 1
    <3>1. 1 \in DOMAIN s
      BY <1>3
    <3>2. NodeIn(tree, s[1].at).op \in LevelOps(1)
      BY <1>2, <3>1, FrameIs
    <3>3. NodeAt(s[1].at).op = "program"
      BY <3>2 DEF LevelOps, NodeAt
    <3> QED BY <2>1, <3>3
  <2> QED BY <1>3, <2>1, <2>2, <2>3
<1> HIDE DEF x, p
<1>12. \A j \in 2 .. n - 1 :
         Binds(s[j].at, p, x) <=> j \in Open(s) /\ x \in DOMAIN Bindings(s[j].at)
  BY <1>2, <1>3, <1>4, BindsIs
<1>13. /\ o \in [DOMAIN sc -> Open(s)] /\ Range(o) = Open(s)
       /\ \A i, j \in DOMAIN sc : i < j => o[i] < o[j]
       /\ \A i \in DOMAIN sc : sc[i] = Bindings(s[o[i]].at)
  BY <1>6 DEF Opening
<1>14. \A i \in having : /\ o[i] \in Open(s) /\ o[i] \in 2 .. n - 1
                         /\ s[o[i]].at \in binders
  <2> TAKE i \in having
  <2>1. o[i] \in Open(s) /\ x \in DOMAIN Bindings(s[o[i]].at)
    BY <1>13
  <2>2. o[i] \in 2 .. n - 1
    BY <1>11, <2>1
  <2>3. s[o[i]].at \in Around(p)
    BY <1>2, <1>3, <2>2, AroundIs
  <2> QED BY <1>12, <2>1, <2>2, <2>3
<1>15. \A q \in binders : \E i \in having : q = s[o[i]].at
  <2> TAKE q \in binders
  <2>1. PICK j \in 2 .. n - 1 : q = s[j].at
    BY <1>2, <1>3, AroundIs
  <2>2. j \in Open(s) /\ x \in DOMAIN Bindings(s[j].at)
    BY <1>12, <2>1
  <2>3. PICK i \in DOMAIN sc : o[i] = j
    BY <1>13, <2>2 DEF Range
  <2>4. i \in having
    BY <1>13, <2>2, <2>3
  <2> QED BY <2>1, <2>3, <2>4
<1>16. CASE having = {}
  <2>1. binders = {}
    BY <1>15, <1>16
  <2>2. Lookup(x) = {}
    BY <1>8, <1>16
  <2>3. Resolve(x) = FieldTypes(current, x)
    BY <1>10, <2>2 DEF Resolve
  <2>4. Meaning(x, p) = FieldTypes(ClassOf(p), x)
    BY <1>9, <2>1
  <2> QED BY <1>5, <1>10, <2>3, <2>4 DEF x, p
<1>17. CASE having # {}
  <2>1. DOMAIN sc = 1 .. Len(sc) /\ Len(sc) \in Nat
    BY <1>7
  <2>2. having \in SUBSET Nat /\ \A i \in having : i <= Len(sc)
    BY <2>1
  <2>3. PICK m \in having : \A u \in having : m >= u
    <3> HIDE DEF having
    <3> QED BY <1>17, <2>1, <2>2, Greatest
  <2>4. {k \in having : \A j \in having : k >= j} = {m}
    <3>1. \A k \in having : (\A j \in having : k >= j) => k = m
      <4> TAKE k \in having
      <4> HAVE \A j \in having : k >= j
      <4>1. k \in Nat /\ m \in Nat /\ k >= m /\ m >= k
        BY <2>2, <2>3
      <4> QED BY <4>1
    <3> HIDE DEF having
    <3> QED BY <2>3, <3>1
  <2>5. Lookup(x) = {sc[m][x]}
    BY <1>8, <2>4
  <2>6. Resolve(x) = {sc[m][x]}
    BY <2>5 DEF Resolve
  <2>7. \A i \in having : Len(s[o[i]].at) = o[i] - 1 /\ o[i] \in Nat
    <3> TAKE i \in having
    <3>1. o[i] \in DOMAIN s /\ o[i] \in Nat
      BY <1>3, <1>14
    <3> QED BY <1>2, <3>1, FrameIs
  <2>8. \A i \in having : i # m => o[i] < o[m]
    <3> TAKE i \in having
    <3> HAVE i # m
    <3>1. i \in Nat /\ m \in Nat /\ m >= i /\ i \in DOMAIN sc /\ m \in DOMAIN sc
      BY <2>2, <2>3
    <3>2. i < m
      BY <3>1
    <3> QED BY <1>13, <3>1, <3>2
  <2> DEFINE b == s[o[m]].at
  <2>9. b \in binders /\ \A d \in binders : Len(d) <= Len(b) /\ (Len(b) <= Len(d) => d = b)
    <3>1. b \in binders
      BY <1>14, <2>3
    <3>2. ASSUME NEW d \in binders
          PROVE  Len(d) <= Len(b) /\ (Len(b) <= Len(d) => d = b)
      <4>1. PICK i \in having : d = s[o[i]].at
        BY <1>15
      <4>2. /\ Len(d) = o[i] - 1 /\ o[i] \in Nat
            /\ Len(b) = o[m] - 1 /\ o[m] \in Nat
        BY <2>3, <2>7, <4>1
      <4>3. CASE i = m
        BY <4>1, <4>2, <4>3
      <4>4. CASE i # m
        <5>1. o[i] < o[m]
          BY <2>8, <4>4
        <5> HIDE DEF b
        <5> QED BY <4>2, <5>1
      <4> QED BY <4>3, <4>4
    <3> QED BY <3>1, <3>2
  <2> HIDE DEF b, binders
  <2>10. {c \in binders : \A d \in binders : Len(d) <= Len(c)} = {b}
    BY <2>9
  <2>11. Meaning(x, p) = {DeclaredBy(b, x)}
    BY <1>9, <2>9, <2>10
  <2>12. DeclaredBy(b, x) = sc[m][x]
    <3>1. o[m] \in Open(s) /\ x \in DOMAIN Bindings(b) /\ sc[m] = Bindings(b)
      BY <1>13, <1>14, <2>3 DEF b
    <3>2. o[m] \in DOMAIN s /\ NodeAt(b).op \in {"method", "let"}
      BY <3>1 DEF Open, InsideScope, b
    <3>3. PositionIn(tree, b)
      BY <1>2, <3>2, FrameIs DEF b
    <3>4. DeclaredBy(b, x) = Bindings(b)[x]
      BY <1>2, <1>4, <3>1, <3>2, <3>3, DeclaredIs
    <3> QED BY <3>1, <3>4
  <2> QED BY <2>6, <2>11, <2>12 DEF x, p
<1> QED BY <1>16, <1>17

-----------------------------------------------------------------------------
(* The rules say the same of a node as long as its children's types stay.   *)
LEMMA RulesStay ==
  ASSUME UNCHANGED <<tree, table>>
  PROVE  /\ \A c : Above(c)' = Above(c)
         /\ \A a, b : Fits(a, b)' <=> Fits(a, b)
         /\ \A S : Lowest(S)' = Lowest(S)
         /\ \A c, n : MethodsOf(c, n)' = MethodsOf(c, n)
         /\ \A n, p : Meaning(n, p)' = Meaning(n, p)
         /\ \A t : Exists(t)' <=> Exists(t)
<1>0. tree' = tree /\ table' = table
  OBVIOUS
<1>1. ASSUME NEW c PROVE Above(c)' = Above(c)
  BY <1>0 DEF Above
<1>2. ASSUME NEW a, NEW b PROVE Fits(a, b)' <=> Fits(a, b)
  BY <1>1 DEF Fits
<1>3. ASSUME NEW S PROVE Lowest(S)' = Lowest(S)
  BY <1>1 DEF Lowest
<1>4. ASSUME NEW c, NEW n PROVE MethodsOf(c, n)' = MethodsOf(c, n)
  BY <1>0, <1>1, <1>3 DEF MethodsOf
<1>5. ASSUME NEW q, NEW p, NEW n PROVE Binds(q, p, n)' <=> Binds(q, p, n)
  BY <1>0, TreeStays DEF Binds
<1>6. ASSUME NEW q, NEW n PROVE DeclaredBy(q, n)' = DeclaredBy(q, n)
  <2>1. PICK e : e = NodeAt(q) /\ e = NodeAt(q)'
    BY TreeStays
  <2>2. DeclaredBy(q, n)
          = IF e.op = "let" THEN e.type
            ELSE e.formals[Max({i \in DOMAIN e.formals : e.formals[i].name = n})].type
    BY <2>1 DEF DeclaredBy
  <2>3. DeclaredBy(q, n)'
          = IF e.op = "let" THEN e.type
            ELSE e.formals[Max({i \in DOMAIN e.formals : e.formals[i].name = n})].type
    BY <2>1 DEF DeclaredBy
  <2> QED BY <2>2, <2>3
<1>7. ASSUME NEW n, NEW p PROVE FieldTypes(ClassOf(p), n)' = FieldTypes(ClassOf(p), n)
  BY <1>0, <1>1, <1>3, TreeStays DEF FieldTypes
<1>8. ASSUME NEW n, NEW p PROVE Meaning(n, p)' = Meaning(n, p)
  BY <1>5, <1>6, <1>7 DEF Meaning, FieldTypes
<1>9. ASSUME NEW t PROVE Exists(t)' <=> Exists(t)
  BY <1>0 DEF Exists
<1> QED BY <1>1, <1>2, <1>3, <1>4, <1>8, <1>9

LEMMA DerivesStays ==
  ASSUME UNCHANGED <<tree, table>>, NEW p,
         \A i : TypeAt(Append(p, i))' = TypeAt(Append(p, i)), NEW t
  PROVE  Derives(p, t)' <=> Derives(p, t)
<1>1. NodeAt(p)' = NodeAt(p) /\ ClassOf(p)' = ClassOf(p) /\ table' = table
  BY TreeStays
<1> QED BY <1>1, RulesStay DEF Derives

-----------------------------------------------------------------------------
(* What was visited before, as the walk goes on.                           *)
LEMMA FaultedIs ==
  ASSUME NEW faults, Report(faults)
  PROVE  \A q : Faulted(q)' <=> Faulted(q) \/ (q = Top.at /\ faults # {})
<1>1. errors' = errors \cup {[what |-> f, at |-> Top.at] : f \in faults}
  BY DEF Report
<1> TAKE q
<1>2. ASSUME Faulted(q)' PROVE Faulted(q) \/ (q = Top.at /\ faults # {})
  <2>1. PICK fault \in errors' : fault.at = q
    BY <1>2 DEF Faulted
  <2>2. CASE fault \in errors
    BY <2>1, <2>2 DEF Faulted
  <2>3. CASE fault \notin errors
    <3>1. PICK f \in faults : fault = [what |-> f, at |-> Top.at]
      BY <1>1, <2>1, <2>3
    <3> QED BY <2>1, <3>1
  <2> QED BY <2>2, <2>3
<1>3. ASSUME Faulted(q) PROVE Faulted(q)'
  BY <1>1, <1>3 DEF Faulted
<1>4. ASSUME q = Top.at, faults # {} PROVE Faulted(q)'
  <2>1. PICK f : f \in faults
    BY <1>4
  <2> DEFINE fault == [what |-> f, at |-> Top.at]
  <2>2. fault \in errors' /\ fault.at = q
    BY <1>1, <1>4, <2>1
  <2> HIDE DEF fault
  <2> QED BY <2>2 DEF Faulted
<1> QED BY <1>2, <1>3, <1>4

LEMMA ConformsStays ==
  ASSUME UNCHANGED <<tree, table>>
  PROVE  \A a, b : Conforms(a, b)' <=> Conforms(a, b)
<1>1. ASSUME NEW a, NEW b PROVE IsSubtype(a, b)' <=> IsSubtype(a, b)
  BY DEF IsSubtype
<1> QED BY <1>1 DEF Conforms, IsCustom

LEMMA PastGoes ==
  ASSUME Walked, Goes
  PROVE  /\ \A q \in Seq(Nat) : Past(q) => stack' = <<>> \/ PastOf(stack', q)
         /\ Leave => stack' = <<>> \/ PastOf(stack', Top.at)
<1>1. PICK s, t : s = stack /\ t = stack'
  OBVIOUS
<1>2. SpinesOf(tree, s) /\ stack # <<>> /\ Spine
  BY <1>1, SpineIs DEF Walked, Goes
<1>3. \A q : Past(q) <=> PastOf(s, q)
  BY <1>1 DEF Past
<1>4. Top = s[Len(s)]
  BY <1>1, <1>2, TopIs
<1>5. ASSUME Leave
      PROVE  /\ \A q \in Seq(Nat) : PastOf(s, q) => t = <<>> \/ PastOf(t, q)
             /\ t = <<>> \/ PastOf(t, Top.at)
  <2>1. Left(s, t)
    BY <1>1, <1>2, <1>5, LeaveIs
  <2> QED BY <1>2, <1>4, <2>1, PastLeft
<1>6. ASSUME Enter /\ ~ Visited
      PROVE  \A q \in Seq(Nat) : PastOf(s, q) => PastOf(t, q)
  <2>1. Entered(s, t)
    BY <1>1, <1>2, <1>6, EnteredIs
  <2> QED BY <1>2, <2>1, PastEntered
<1>7. Leave \/ (Enter /\ ~ Visited)
  BY DEF Goes, ScopesGo
<1> QED BY <1>1, <1>3, <1>5, <1>6, <1>7

(* Nothing that was typed is on the stack, and nothing that was typed is   *)
(* the parent of the node on top.                                          *)
LEMMA TopIsNew ==
  ASSUME Walked, TypedBefore, stack # <<>>
  PROVE  /\ Top.at \notin DOMAIN types
         /\ \A q \in DOMAIN types : \A i : Append(q, i) # Top.at
         /\ \A i : Append(Top.at, i) # Top.at
<1>1. PICK s, n : s = stack /\ n = Len(s)
  OBVIOUS
<1>2. SpinesOf(tree, s) /\ n \in DOMAIN s /\ Top = s[n] /\ s \in Seq(Frame)
  <2>1. SpinesOf(tree, s) /\ Top = s[n]
    BY <1>1, SpineIs, TopIs DEF Walked
  <2> QED BY <1>1, <2>1, LastIsFrame DEF SpinesOf, SpineOf
<1>3. ~ PastOf(s, Top.at) /\ Top.at \in Seq(Nat)
  BY <1>2, ActiveIsNotPast, FrameIs
<1>4. \A q \in DOMAIN types : q \in Seq(Nat) /\ PastOf(s, q)
  BY <1>1 DEF TypedBefore, Past
<1>5. \A q \in DOMAIN types : \A i : PastOf(s, Append(q, i))
  BY <1>2, <1>4, PastBelow
<1>6. \A i : Append(Top.at, i) # Top.at
  <2> TAKE i
  <2> DEFINE p == Top.at
             q == Append(p, i)
  <2>1. p \in Seq(Nat \cup {i})
    BY <1>3
  <2> HIDE DEF p
  <2>2. Len(q) = Len(p) + 1 /\ Len(p) \in Nat
    BY <2>1
  <2>3. Len(q) # Len(p)
    BY <2>2
  <2>4. q # p
    <3> HIDE DEF q
    <3> QED BY <2>3
  <2> QED BY <2>4 DEF p
<1> QED BY <1>3, <1>4, <1>5, <1>6

(* Only a visit that ends sets a type, that of the node it leaves.         *)
Sets(p, t) == types' = [q \in DOMAIN types \cup {p} |-> IF q = p THEN t ELSE types[q]]

Settles(p, t, faults) ==
  /\ ~ Faulted(p) /\ faults = {} => Derives(p, t)
  /\ Faulted(p) \/ faults # {} => \A u \in Type : ~ Derives(p, u)

LEMMA BeforeStays ==
  ASSUME Walked, Goes, TypedBefore, ReportedBefore, NEW faults, Report(faults),
         UNCHANGED types \/ (Leave /\ \E t : Sets(Top.at, t))
  PROVE  TypedBefore' /\ ReportedBefore'
<1>1. PICK s, t, n, p : s = stack /\ t = stack' /\ n = Len(s) /\ p = Top.at
  OBVIOUS
<1>2. SpinesOf(tree, s) /\ s # <<>> /\ Spine
  BY <1>1, SpineIs DEF Walked, Goes
<1>3. /\ Top = s[n] /\ n \in DOMAIN s /\ n \in Nat \ {0} /\ DOMAIN s = 1 .. n
      /\ p = s[n].at /\ p \in Seq(Nat)
  <2>1. Top = s[n] /\ n \in DOMAIN s
    BY <1>1, <1>2, TopIs, LastIsFrame
  <2> QED BY <1>1, <1>2, <2>1, FrameIs
<1>4. /\ \A q \in Seq(Nat) : PastOf(s, q) => t = <<>> \/ PastOf(t, q)
      /\ Leave => t = <<>> \/ PastOf(t, p)
  BY <1>1, PastGoes DEF Past
<1>5. TypedBefore'
  <2>1. DOMAIN types' \subseteq DOMAIN types \/ (Leave /\ DOMAIN types' = DOMAIN types \cup {p})
    BY <1>1 DEF Sets
  <2>2. \A q \in DOMAIN types : q \in Seq(Nat) /\ PastOf(s, q)
    BY <1>1, <1>2 DEF TypedBefore, Past
  <2>3. \A q \in DOMAIN types' : q \in Seq(Nat) /\ (t # <<>> => PastOf(t, q))
    BY <1>3, <1>4, <2>1, <2>2
  <2> QED BY <1>1, <2>3 DEF TypedBefore, Past
<1>6. ReportedBefore'
  <2>1. \A j \in DOMAIN s : (j \in DOMAIN t /\ t[j].at = s[j].at) \/ (Leave /\ s[j].at = p)
    <3>1. CASE Leave
      <4>1. Left(s, t)
        BY <1>1, <1>2, <3>1, LeaveIs
      <4>2. DOMAIN t = 1 .. n - 1 /\ \A j \in 1 .. n - 1 : t[j] = s[j]
        BY <1>1, <4>1 DEF Left
      <4>3. \A j \in 1 .. n : j = n \/ j \in 1 .. n - 1
        BY <1>3
      <4> QED BY <1>3, <3>1, <4>2, <4>3
    <3>2. CASE Enter /\ ~ Visited
      <4>1. Entered(s, t)
        BY <1>1, <1>2, <3>2, EnteredIs
      <4>2. /\ DOMAIN t = 1 .. n + 1 /\ \A j \in 1 .. n - 1 : t[j] = s[j]
            /\ t[n].at = s[n].at
        BY <1>1, <4>1 DEF Entered
      <4>3. \A j \in 1 .. n : j \in 1 .. n + 1 /\ (j = n \/ j \in 1 .. n - 1)
        BY <1>3
      <4> QED BY <1>3, <4>2, <4>3
    <3> QED BY <3>1, <3>2 DEF Goes, ScopesGo
  <2>2. errors' = errors \cup {[what |-> f, at |-> p] : f \in faults}
    BY <1>1 DEF Report
  <2>3. ASSUME NEW q \in Seq(Nat), t # <<>>,
               PastOf(s, q) \/ \E j \in DOMAIN s : q = s[j].at
        PROVE  PastOf(t, q) \/ \E j \in DOMAIN t : q = t[j].at
    <3>1. CASE PastOf(s, q)
      BY <1>4, <2>3, <3>1
    <3>2. CASE \E j \in DOMAIN s : q = s[j].at
      <4>1. PICK j \in DOMAIN s : q = s[j].at
        BY <3>2
      <4> QED BY <1>4, <2>1, <2>3, <4>1
    <3> QED BY <2>3, <3>1, <3>2
  <2>4. \A fault \in errors : /\ fault.at \in Seq(Nat)
                              /\ PastOf(s, fault.at) \/ \E j \in DOMAIN s : fault.at = s[j].at
    <3>1. stack # <<>>
      BY <1>1, <1>2
    <3> TAKE fault \in errors
    <3>2. /\ fault.at \in Seq(Nat)
          /\ stack # <<>> => Past(fault.at) \/ \E j \in DOMAIN stack : fault.at = stack[j].at
      BY DEF ReportedBefore
    <3> QED BY <1>1, <3>1, <3>2 DEF Past
  <2>5. \A fault \in errors' : /\ fault.at \in Seq(Nat)
                               /\ PastOf(s, fault.at) \/ \E j \in DOMAIN s : fault.at = s[j].at
    <3> TAKE fault \in errors'
    <3>1. CASE fault \in errors
      BY <2>4, <3>1
    <3>2. CASE fault \notin errors
      <4>1. fault.at = p
        BY <2>2, <3>2
      <4> QED BY <1>3, <4>1
    <3> QED BY <3>1, <3>2
  <2>6. \A fault \in errors' :
          /\ fault.at \in Seq(Nat)
          /\ t # <<>> => PastOf(t, fault.at) \/ \E j \in DOMAIN t : fault.at = t[j].at
    BY <2>3, <2>5
  <2> QED BY <1>1, <2>6 DEF ReportedBefore, Past
<1> QED BY <1>5, <1>6

LEMMA RightStays ==
  ASSUME Walked, Goes, TypedBefore, TypedRightly, NEW faults, Report(faults),
         UNCHANGED types \/ \E t : Sets(Top.at, t) /\ Settles(Top.at, t, faults)
  PROVE  TypedRightly'
<1>1. PICK p, ty : p = Top.at /\ ty = types'
  OBVIOUS
<1>2. /\ p \notin DOMAIN types
      /\ \A q \in DOMAIN types \cup {p} : \A i : Append(q, i) # p
  BY <1>1, TopIsNew DEF Goes
<1>3. \A q : q # p => TypeAt(q)' = TypeAt(q)
  BY <1>1 DEF TypeAt, Sets
<1>4. UNCHANGED <<tree, table>>
  BY DEF Goes
<1>5. ASSUME NEW q \in DOMAIN types \cup {p}, NEW u PROVE Derives(q, u)' <=> Derives(q, u)
  <2>1. \A i : TypeAt(Append(q, i))' = TypeAt(Append(q, i))
    BY <1>2, <1>3
  <2> QED BY <1>4, <2>1, DerivesStays
<1>6. \A q : Faulted(q)' <=> Faulted(q) \/ (q = p /\ faults # {})
  BY <1>1, FaultedIs
<1>7. ASSUME NEW q \in DOMAIN ty, NEW v, v = ty[q]
      PROVE  /\ ~ Faulted(q)' => Derives(q, v)'
             /\ Faulted(q)' => \A u \in Type : ~ Derives(q, u)'
  <2>1. CASE q # p
    <3>1. q \in DOMAIN types /\ v = types[q] /\ (Faulted(q)' <=> Faulted(q))
      BY <1>1, <1>6, <1>7, <2>1 DEF Sets
    <3>2. /\ ~ Faulted(q) => Derives(q, v)
          /\ Faulted(q) => \A u \in Type : ~ Derives(q, u)
      BY <3>1 DEF TypedRightly
    <3> QED BY <1>5, <3>1, <3>2
  <2>2. CASE q = p
    <3>1. Settles(p, v, faults)
      BY <1>1, <1>2, <1>7, <2>2 DEF Sets
    <3>2. Faulted(q)' <=> Faulted(q) \/ faults # {}
      BY <1>6, <2>2
    <3> QED BY <1>5, <2>2, <3>1, <3>2 DEF Settles
  <2> QED BY <2>1, <2>2
<1> QED BY <1>1, <1>7 DEF TypedRightly

LEMMA LetFaultStays ==
  ASSUME UNCHANGED <<tree, table>>, NEW q, NEW k,
         k > 2 => TypeAt(Append(q, 1))' = TypeAt(Append(q, 1))
  PROVE  LetFault(q, k)' <=> LetFault(q, k)
<1>1. PICK e : e = NodeAt(q) /\ e = NodeAt(q)'
  BY TreeStays
<1>2. PICK a, b : a = TypeAt(Append(q, 1)) /\ b = TypeAt(Append(q, 1))'
  OBVIOUS
<1>3. LetFault(q, k) <=> \/ k > 1 /\ ~ Exists(e.type)
                         \/ k > Len(e.kids) /\ Len(e.kids) = 2 /\ ~ Conforms(a, e.type)
  BY <1>1, <1>2 DEF LetFault
<1>4. LetFault(q, k)' <=> \/ k > 1 /\ ~ Exists(e.type)'
                          \/ k > Len(e.kids) /\ Len(e.kids) = 2 /\ ~ Conforms(b, e.type)'
  BY <1>1, <1>2 DEF LetFault
<1>5. (Exists(e.type)' <=> Exists(e.type)) /\ (Conforms(b, e.type)' <=> Conforms(b, e.type))
  BY RulesStay, ConformsStays
<1>6. CASE k > 2
  <2>1. a = b
    BY <1>2, <1>6
  <2> QED BY <1>3, <1>4, <1>5, <2>1
<1>7. CASE ~ (k > 2)
  <2>1. ~ (k > Len(e.kids) /\ Len(e.kids) = 2)
    BY <1>7
  <2> QED BY <1>3, <1>4, <1>5, <2>1
<1> QED BY <1>6, <1>7

(* Of a node that comes next nothing has been reported.                    *)
LEMMA ComingIsFaultless ==
  ASSUME Walked, ReportedBefore, stack # <<>>
  PROVE  /\ ~ Faulted(Append(Top.at, Top.next))
         /\ Append(Top.at, Top.next) # Top.at
<1>1. PICK s, n : s = stack /\ n = Len(s)
  OBVIOUS
<1>2. SpinesOf(tree, s) /\ s # <<>> /\ Top = s[n] /\ n \in DOMAIN s
  BY <1>1, SpineIs, TopIs DEF Walked
<1>3. s[n].next \in Nat /\ s[n].next <= s[n].next
  <2>1. s[n].next \in Nat
    BY <1>2, FrameIs
  <2> QED BY <2>1
<1> DEFINE q == Append(Top.at, Top.next)
<1>4. ~ PastOf(s, q) /\ \A j \in DOMAIN s : q # s[j].at
  BY <1>1, <1>2, <1>3, ComingIsNotPast
<1> HIDE DEF q
<1>5. ~ Faulted(q)
  <2> SUFFICES ASSUME NEW fault \in errors, fault.at = q PROVE FALSE
    BY DEF Faulted
  <2>1. stack # <<>> => Past(fault.at) \/ \E j \in DOMAIN stack : fault.at = stack[j].at
    BY DEF ReportedBefore
  <2> QED BY <1>1, <1>4, <2>1 DEF Past
<1> QED BY <1>2, <1>4, <1>5 DEF q

LEMMA ReportsEntering ==
  ASSUME Walked, Goes, ReportedBefore, ReportsSoFar, Enter, ~ Visited, UNCHANGED types,
         NEW faults, Report(faults),
         Node.op \in Expressions \ {"let"} => faults = {},
         Node.op = "let" => (Faulted(Top.at) \/ faults # {} <=> LetFault(Top.at, Top.next + 1))
  PROVE  ReportsSoFar'
<1>1. PICK s, t, n, p : s = stack /\ t = stack' /\ n = Len(s) /\ p = Top.at
  OBVIOUS
<1>2. /\ SpinesOf(tree, s) /\ s # <<>> /\ Top = s[n] /\ n \in DOMAIN s /\ n \in Nat \ {0}
      /\ DOMAIN s = 1 .. n
  BY <1>1, SpineIs, TopIs DEF Walked, Goes
<1>3. /\ DOMAIN t = 1 .. n + 1 /\ \A j \in 1 .. n - 1 : t[j] = s[j]
      /\ t[n].at = p /\ t[n].next = Top.next + 1
      /\ t[n + 1].at = Append(p, Top.next) /\ t[n + 1].next = 1
  <2>1. Entered(s, t)
    BY <1>1, <1>2, EnteredIs
  <2> QED BY <1>1, <1>2, <2>1 DEF Entered
<1>4. \A q : Faulted(q)' <=> Faulted(q) \/ (q = p /\ faults # {})
  BY <1>1, FaultedIs
<1>5. UNCHANGED <<tree, table>> /\ \A q : NodeAt(q)' = NodeAt(q)
  BY TreeStays DEF Goes
<1>6. \A q : TypeAt(q)' = TypeAt(q)
  BY DEF TypeAt
<1>7. \A q, k : LetFault(q, k)' <=> LetFault(q, k)
  BY <1>5, <1>6, LetFaultStays
<1>8. ASSUME NEW j \in DOMAIN t, NEW q, NEW k, q = t[j].at, k = t[j].next
      PROVE  /\ NodeAt(q).op = "let" => (Faulted(q)' <=> LetFault(q, k))
             /\ NodeAt(q).op \in Expressions \ {"let"} => ~ Faulted(q)'
  <2>1. CASE j \in 1 .. n - 1
    <3>1. j \in DOMAIN s /\ j # n /\ q = s[j].at /\ k = s[j].next
      BY <1>2, <1>3, <1>8, <2>1
    <3>2. q # p
      <4>1. Len(q) = j - 1 /\ Len(p) = n - 1 /\ j \in Nat
        BY <1>1, <1>2, <3>1, FrameIs
      <4> QED BY <1>2, <3>1, <4>1
    <3>3. Faulted(q)' <=> Faulted(q)
      BY <1>4, <3>2
    <3> QED BY <1>1, <3>1, <3>3 DEF ReportsSoFar
  <2>2. CASE j = n
    <3>1. q = p /\ k = Top.next + 1 /\ NodeAt(q) = Node
      BY <1>1, <1>3, <1>8, <2>2 DEF Node
    <3>2. Faulted(q)' <=> Faulted(q) \/ faults # {}
      BY <1>4, <3>1
    <3>3. Node.op \in Expressions \ {"let"} => ~ Faulted(q)
      BY <1>1, <1>2, <3>1 DEF ReportsSoFar
    <3> QED BY <1>1, <3>1, <3>2, <3>3
  <2>3. CASE j = n + 1
    <3>1. q = Append(p, Top.next) /\ k = 1
      BY <1>3, <1>8, <2>3
    <3>2. ~ Faulted(q) /\ q # p
      BY <1>1, <1>2, <3>1, ComingIsFaultless
    <3>3. ~ LetFault(q, k)
      <4>1. ~ (1 > 1) /\ ~ (1 > 2)
        OBVIOUS
      <4> QED BY <3>1, <4>1 DEF LetFault
    <3> QED BY <1>4, <3>2, <3>3
  <2>4. j \in 1 .. n - 1 \/ j = n \/ j = n + 1
    BY <1>2, <1>3
  <2> QED BY <2>1, <2>2, <2>3, <2>4
<1>9. \A j \in DOMAIN t :
        /\ NodeAt(t[j].at)'.op = "let" => (Faulted(t[j].at)' <=> LetFault(t[j].at, t[j].next)')
        /\ NodeAt(t[j].at)'.op \in Expressions \ {"let"} => ~ Faulted(t[j].at)'
  BY <1>5, <1>7, <1>8
<1> QED BY <1>1, <1>9 DEF ReportsSoFar

LEMMA ReportsLeaving ==
  ASSUME Walked, Goes, ReportsSoFar, Leave, UNCHANGED types \/ \E v : Sets(Top.at, v),
         NEW faults, Report(faults)
  PROVE  ReportsSoFar'
<1>1. PICK s, t, n, p : s = stack /\ t = stack' /\ n = Len(s) /\ p = Top.at
  OBVIOUS
<1>2. /\ SpinesOf(tree, s) /\ s # <<>> /\ Top = s[n] /\ n \in DOMAIN s /\ n \in Nat \ {0}
      /\ DOMAIN s = 1 .. n
  BY <1>1, SpineIs, TopIs DEF Walked, Goes
<1>3. DOMAIN t = 1 .. n - 1 /\ \A j \in 1 .. n - 1 : t[j] = s[j]
  <2>1. Left(s, t)
    BY <1>1, <1>2, LeaveIs DEF Walked
  <2> QED BY <1>1, <1>2, <2>1 DEF Left
<1>4. \A q : Faulted(q)' <=> Faulted(q) \/ (q = p /\ faults # {})
  BY <1>1, FaultedIs
<1>5. UNCHANGED <<tree, table>> /\ \A q : NodeAt(q)' = NodeAt(q)
  BY TreeStays DEF Goes
<1>6. \A q : q # p => TypeAt(q)' = TypeAt(q)
  BY <1>1 DEF TypeAt, Sets
<1>7. ASSUME NEW j \in DOMAIN t, NEW q, NEW k, q = t[j].at, k = t[j].next
      PROVE  /\ Faulted(q)' <=> Faulted(q)
             /\ LetFault(q, k)' <=> LetFault(q, k)
             /\ j \in DOMAIN s /\ q = s[j].at /\ k = s[j].next
  <2>1. j \in DOMAIN s /\ j # n /\ q = s[j].at /\ k = s[j].next
    BY <1>2, <1>3, <1>7
  <2>2. /\ q \in Seq(Nat) /\ Len(q) = j - 1 /\ Len(p) = n - 1 /\ j \in Nat \ {0} /\ k \in Nat
        /\ \A i \in 1 .. n - 1 : p[i] = s[i].next - 1
    <3>1. q \in Seq(Nat) /\ Len(q) = j - 1 /\ j \in Nat \ {0} /\ k \in Nat
      BY <1>2, <2>1, FrameIs
    <3>2. p = s[n].at
      BY <1>1, <1>2
    <3>3. Len(p) = n - 1 /\ \A i \in 1 .. n - 1 : p[i] = s[i].next - 1
      BY <1>2, <3>2, FrameIs
    <3> QED BY <3>1, <3>3
  <2>3. q # p
    BY <1>2, <2>1, <2>2
  <2>4. k > 2 => Append(q, 1) # p
    <3> SUFFICES ASSUME k > 2, Append(q, 1) = p PROVE FALSE
      OBVIOUS
    <3>1. Len(Append(q, 1)) = (j - 1) + 1 /\ Append(q, 1)[(j - 1) + 1] = 1
      BY <2>2
    <3>2. j = n - 1 /\ (j - 1) + 1 = j /\ p[j] = 1
      BY <1>2, <2>2, <3>1
    <3>3. p[j] = k - 1
      BY <1>2, <2>1, <2>2, <3>2
    <3> QED BY <2>2, <3>2, <3>3
  <2> QED BY <1>4, <1>5, <1>6, <2>1, <2>3, <2>4, LetFaultStays
<1>8. ASSUME NEW j \in DOMAIN t
      PROVE  /\ NodeAt(t[j].at).op = "let" =>
                  (Faulted(t[j].at)' <=> LetFault(t[j].at, t[j].next)')
             /\ NodeAt(t[j].at).op \in Expressions \ {"let"} => ~ Faulted(t[j].at)'
  <2>1. /\ Faulted(t[j].at)' <=> Faulted(t[j].at)
        /\ LetFault(t[j].at, t[j].next)' <=> LetFault(t[j].at, t[j].next)
        /\ j \in DOMAIN s /\ t[j].at = s[j].at /\ t[j].next = s[j].next
    BY <1>7
  <2>2. /\ NodeAt(s[j].at).op = "let" => (Faulted(s[j].at) <=> LetFault(s[j].at, s[j].next))
        /\ NodeAt(s[j].at).op \in Expressions \ {"let"} => ~ Faulted(s[j].at)
    BY <1>1, <2>1 DEF ReportsSoFar
  <2> QED BY <2>1, <2>2
<1> QED BY <1>1, <1>5, <1>8 DEF ReportsSoFar

(* So it is with every step that enters a child, and with every step that  *)
(* leaves a node, if the type it sets is right.                            *)
LEMMA EnteringKeeps ==
  ASSUME Walked, RInv, Goes, Enter, ~ Visited, UNCHANGED types,
         NEW faults, Report(faults),
         Node.op \in Expressions \ {"let"} => faults = {},
         Node.op = "let" => (Faulted(Top.at) \/ faults # {} <=> LetFault(Top.at, Top.next + 1))
  PROVE  RInv'
BY BeforeStays, RightStays, ReportsEntering DEF RInv

LEMMA LeavingKeeps ==
  ASSUME Walked, RInv, Goes, Leave, NEW faults, Report(faults),
         UNCHANGED types \/ \E v : Sets(Top.at, v) /\ Settles(Top.at, v, faults)
  PROVE  RInv'
BY BeforeStays, RightStays, ReportsLeaving DEF RInv

-----------------------------------------------------------------------------
(* What the visit of the node on top knows of it.                          *)
LEMMA TopReports ==
  ASSUME Walked, ReportsSoFar, stack # <<>>
  PROVE  /\ Node.op = "let" => (Faulted(Top.at) <=> LetFault(Top.at, Top.next))
         /\ Node.op \in Expressions \ {"let"} => ~ Faulted(Top.at)
<1>1. Top = stack[Len(stack)] /\ Len(stack) \in DOMAIN stack /\ Node = NodeAt(Top.at)
  BY TopIs DEF Walked, Node
<1> QED BY <1>1 DEF ReportsSoFar

LEMMA NothingReported ==
  ASSUME UNCHANGED errors
  PROVE  Report({})
BY DEF Report

LEMMA EndsRightly ==
  ASSUME Walked, RInv, stack # <<>>, Node.op \in Expressions \ {"let"},
         NEW faults, NEW t, Finish(faults, t),
         faults = {} => Derives(Top.at, t),
         faults # {} => \A u \in Type : ~ Derives(Top.at, u)
  PROVE  RInv'
<1>1. ~ Faulted(Top.at)
  BY TopReports DEF RInv
<1>2. Settles(Top.at, t, faults)
  BY <1>1 DEF Settles
<1>3. Report(faults) /\ Sets(Top.at, t) /\ Leave /\ UNCHANGED <<tree, table, current, scopes>>
  BY DEF Finish, SetType, Sets
<1>4. Goes
  BY <1>3, EndsGoes DEF Ends
<1> QED BY <1>2, <1>3, <1>4, LeavingKeeps

(* Where the rules want one of the types that are no classes.              *)
LEMMA ConformsToBasic ==
  ASSUME NEW t, NEW basic \in {Int32, Bool}
  PROVE  Conforms(t, basic) <=> t = basic
<1>1. basic \notin ClassName /\ basic # Undefined
  BY TypesAssumption
<1> QED BY <1>1 DEF Conforms, IsCustom

-----------------------------------------------------------------------------
(* The visits that only go on, or report what is declared.                 *)
LEMMA VisitsGoOn ==
  ASSUME SInv, RInv,
         VisitProgram \/ VisitClass \/ VisitField \/ StartMethod \/ EndMethod \/ VisitKid
  PROVE  RInv'
<1>1. Walked /\ Goes /\ stack # <<>>
  <2>1. Next
    BY DEF Next
  <2>2. Walked
    BY DEF SInv
  <2> QED BY <2>1, <2>2, NextGoes DEF Goes
<1>2. CASE VisitProgram \/ VisitClass
  <2>1. /\ Node.op \in {"program", "class"} /\ Report({}) /\ UNCHANGED types
        /\ (Enter /\ ~ Visited) \/ Leave
    BY <1>2, NothingReported DEF VisitProgram, VisitClass, At, EnterOrLeave
  <2>2. Node.op \notin Expressions
    BY <2>1 DEF Expressions
  <2> QED BY <1>1, <2>1, <2>2, EnteringKeeps, LeavingKeeps DEF Expressions
<1>3. CASE VisitField
  <2>1. PICK faults : Report(faults)
    BY <1>3 DEF VisitField
  <2>2. Node.op = "field" /\ UNCHANGED types /\ ((Enter /\ ~ Visited) \/ Leave)
    BY <1>3 DEF VisitField, At, EnterOrLeave
  <2>3. Node.op \notin Expressions
    BY <2>2 DEF Expressions
  <2> QED BY <1>1, <2>1, <2>2, <2>3, EnteringKeeps, LeavingKeeps DEF Expressions
<1>4. CASE StartMethod
  <2>1. PICK faults : Report(faults)
    BY <1>4 DEF StartMethod
  <2>2. Node.op = "method" /\ Enter /\ UNCHANGED types /\ Top.next = 1
    BY <1>4 DEF StartMethod, At, Arriving
  <2>3. Node.op \notin Expressions
    BY <2>2 DEF Expressions
  <2>4. Kids \in {1}
    BY <1>1, <2>2, NodeShape DEF Counts
  <2>5. ~ Visited
    BY <2>2, <2>4 DEF Visited
  <2> QED BY <1>1, <2>1, <2>2, <2>3, <2>5, EnteringKeeps DEF Expressions
<1>5. CASE EndMethod
  <2>1. PICK faults : Report(faults)
    BY <1>5 DEF EndMethod
  <2>2. Leave /\ UNCHANGED types
    BY <1>5 DEF EndMethod
  <2> QED BY <1>1, <2>1, <2>2, LeavingKeeps
<1>6. CASE VisitKid
  <2>1. Enter /\ ~ Visited /\ Report({}) /\ UNCHANGED types /\ Node.op # "let"
    BY <1>6, NothingReported DEF VisitKid, Plain
  <2> QED BY <1>1, <2>1, EnteringKeeps
<1> QED BY <1>2, <1>3, <1>4, <1>5, <1>6

(* The visits of the expressions without children.                         *)
LEMMA LeavesEndRightly ==
  ASSUME SInv, RInv, VisitLiteral \/ VisitSelf \/ VisitNew \/ VisitVariable
  PROVE  RInv'
<1>0. PICK e : e = NodeAt(Top.at) /\ e = Node
  BY DEF Node
<1>1. Walked /\ stack # <<>>
  BY DEF SInv, VisitLiteral, VisitSelf, VisitNew, VisitVariable, At
<1>2. CASE VisitLiteral
  <2>1. Finish({}, e.type) /\ e.op = "literal"
    BY <1>0, <1>2 DEF VisitLiteral, At
  <2>2. Derives(Top.at, e.type)
    BY <1>0, <2>1 DEF Derives
  <2> QED BY <1>0, <1>1, <2>1, <2>2, EndsRightly DEF Expressions
<1>3. CASE VisitSelf
  <2>1. Finish({}, current) /\ e.op = "self"
    BY <1>0, <1>3 DEF VisitSelf, At
  <2>2. current = ClassOf(Top.at)
    BY <1>0, <1>1, <2>1, DeepOnTop DEF Expressions
  <2>3. Derives(Top.at, current)
    BY <1>0, <2>1, <2>2 DEF Derives
  <2> QED BY <1>0, <1>1, <2>1, <2>3, EndsRightly DEF Expressions
<1>4. CASE VisitNew
  <2>1. e.op = "new"
    BY <1>0, <1>4 DEF VisitNew, At
  <2>2. \A u : Derives(Top.at, u) <=> u = e.type /\ u \in DOMAIN table
    BY <1>0, <2>1 DEF Derives
  <2>3. CASE e.type \in DOMAIN table
    <3>1. Finish({}, e.type) /\ Derives(Top.at, e.type)
      BY <1>0, <1>4, <2>2, <2>3 DEF VisitNew
    <3> QED BY <1>0, <1>1, <2>1, <3>1, EndsRightly DEF Expressions
  <2>4. CASE e.type \notin DOMAIN table
    <3>1. Finish({"unknown class"}, Object) /\ \A u \in Type : ~ Derives(Top.at, u)
      BY <1>0, <1>4, <2>2, <2>4 DEF VisitNew
    <3> QED BY <1>0, <1>1, <2>1, <3>1, EndsRightly DEF Expressions
  <2> QED BY <2>3, <2>4
<1>5. CASE VisitVariable
  <2>1. e.op = "variable"
    BY <1>0, <1>5 DEF VisitVariable, At
  <2>2. \A u : Derives(Top.at, u) <=> u \in Meaning(e.name, Top.at)
    BY <1>0, <2>1 DEF Derives
  <2>3. Resolve(e.name) = Meaning(e.name, Top.at)
    BY <1>0, <1>1, <2>1, ResolveIsMeaning
  <2>4. CASE Resolve(e.name) = {} /\ Finish({"undefined identifier"}, Object)
    <3>1. \A u \in Type : ~ Derives(Top.at, u)
      BY <2>2, <2>3, <2>4
    <3> QED BY <1>0, <1>1, <2>1, <2>4, <3>1, EndsRightly DEF Expressions
  <2>5. CASE \E t \in Resolve(e.name) : Finish({}, t)
    <3>1. PICK t \in Resolve(e.name) : Finish({}, t)
      BY <2>5
    <3>2. Derives(Top.at, t)
      BY <2>2, <2>3
    <3> QED BY <1>0, <1>1, <2>1, <3>1, <3>2, EndsRightly DEF Expressions
  <2> QED BY <1>0, <1>5, <2>4, <2>5 DEF VisitVariable
<1> QED BY <1>2, <1>3, <1>4, <1>5

(* What an expression's end finds is what the rules say of its children.   *)
LEMMA EndsOnKids ==
  ASSUME SInv, RInv, EndBlock \/ EndWhile \/ EndUnary \/ EndBinary \/ EndEqual
  PROVE  RInv'
<1>0. PICK e : e = NodeAt(Top.at) /\ e = Node
  BY DEF Node
<1>1. Walked /\ stack # <<>> /\ TreeTable(table)
  BY TableIsTreeTable
     DEF SInv, Walked, OfATree, EndBlock, EndWhile, EndUnary, EndBinary, EndEqual, At
<1>2. PICK k1, k2 : k1 = Kid(1) /\ k2 = Kid(2)
  OBVIOUS
<1>3. k1 = TypeAt(Append(Top.at, 1)) /\ k2 = TypeAt(Append(Top.at, 2)) /\ Kids = Len(e.kids)
  BY <1>0, <1>2 DEF Kid, Kids
<1>4. \A basic \in {Int32, Bool} : \A t : Conforms(t, basic) <=> t = basic
  BY ConformsToBasic
<1>5. CASE EndBlock
  <2>1. e.op = "block" /\ Finish({}, IF Kids = 0 THEN Unit ELSE Kid(Kids))
    BY <1>0, <1>5 DEF EndBlock, At
  <2>2. Derives(Top.at, IF Kids = 0 THEN Unit ELSE Kid(Kids))
    BY <1>0, <1>3, <2>1 DEF Derives, Kid
  <2> QED BY <1>0, <1>1, <2>1, <2>2, EndsRightly DEF Expressions
<1>6. CASE EndWhile
  <2>1. e.op = "while" /\ Finish(If(~ Conforms(k1, Bool), "condition"), Unit)
    BY <1>0, <1>2, <1>6 DEF EndWhile, At
  <2>2. \A u : Derives(Top.at, u) <=> u = Unit /\ Conforms(k1, Bool)
    BY <1>0, <1>3, <1>4, <2>1 DEF Derives
  <2>3. If(~ Conforms(k1, Bool), "condition") = {} <=> Conforms(k1, Bool)
    BY DEF If
  <2> QED BY <1>0, <1>1, <2>1, <2>2, <2>3, EndsRightly DEF Expressions
<1>7. CASE EndUnary
  <2>1. e.op \in {"not", "minus", "isnull"} /\ e.op \in Expressions \ {"let"}
    BY <1>0, <1>7 DEF EndUnary, UnaryOf, Expressions
  <2> DEFINE from == UnaryOf[e.op][1]
             to == UnaryOf[e.op][2]
  <2>2. IF Conforms(k1, from) THEN Finish({}, to) ELSE Finish({"operand"}, Object)
    BY <1>0, <1>2, <1>7 DEF EndUnary
  <2>3. /\ e.op = "not" => from = Bool /\ to = Bool
        /\ e.op = "minus" => from = Int32 /\ to = Int32
        /\ e.op = "isnull" => from = Object /\ to = Bool
    BY DEF UnaryOf
  <2> HIDE DEF from, to
  <2>4. Conforms(k1, Object) <=> Fits(k1, Object)
    BY <1>1, ConformsIsFits
  <2>5. \A u : Derives(Top.at, u) <=> u = to /\ Conforms(k1, from)
    <3>1. CASE e.op = "not"
      BY <1>0, <1>3, <1>4, <2>3, <3>1 DEF Derives
    <3>2. CASE e.op = "minus"
      BY <1>0, <1>3, <1>4, <2>3, <3>2 DEF Derives
    <3>3. CASE e.op = "isnull"
      BY <1>0, <1>3, <2>3, <2>4, <3>3 DEF Derives
    <3> QED BY <2>1, <3>1, <3>2, <3>3
  <2>6. CASE Conforms(k1, from)
    <3>1. Finish({}, to) /\ Derives(Top.at, to)
      BY <2>2, <2>5, <2>6
    <3> QED BY <1>0, <1>1, <2>1, <3>1, EndsRightly
  <2>7. CASE ~ Conforms(k1, from)
    <3>1. Finish({"operand"}, Object) /\ \A u \in Type : ~ Derives(Top.at, u)
      BY <2>2, <2>5, <2>7
    <3> QED BY <1>0, <1>1, <2>1, <3>1, EndsRightly
  <2> QED BY <2>6, <2>7
<1>8. CASE EndBinary
  <2>1. e.op \in {"arithmetic", "comparison", "and"} /\ e.op \in Expressions \ {"let"}
    BY <1>0, <1>8 DEF EndBinary, BinaryOf, Expressions
  <2> DEFINE from == BinaryOf[e.op][1]
             to == BinaryOf[e.op][2]
  <2>2. IF Conforms(k1, from) /\ Conforms(k2, from)
        THEN Finish({}, to) ELSE Finish({"operand"}, Object)
    <3>1. IF \A k \in 1 .. 2 : Conforms(Kid(k), from)
          THEN Finish({}, to) ELSE Finish({"operand"}, Object)
      BY <1>0, <1>8 DEF EndBinary
    <3>2. (\A k \in 1 .. 2 : Conforms(Kid(k), from)) <=> Conforms(k1, from) /\ Conforms(k2, from)
      <4>1. \A k : k \in 1 .. 2 <=> k = 1 \/ k = 2
        OBVIOUS
      <4> HIDE DEF from
      <4> QED BY <1>2, <4>1
    <3> QED BY <3>1, <3>2
  <2>3. /\ e.op = "arithmetic" => from = Int32 /\ to = Int32
        /\ e.op = "comparison" => from = Int32 /\ to = Bool
        /\ e.op = "and" => from = Bool /\ to = Bool
    BY DEF BinaryOf
  <2> HIDE DEF from, to
  <2>4. \A u : Derives(Top.at, u) <=> u = to /\ Conforms(k1, from) /\ Conforms(k2, from)
    <3>1. CASE e.op \in {"arithmetic", "comparison"}
      BY <1>0, <1>3, <1>4, <2>3, <3>1 DEF Derives
    <3>2. CASE e.op = "and"
      BY <1>0, <1>3, <1>4, <2>3, <3>2 DEF Derives
    <3> QED BY <2>1, <3>1, <3>2
  <2>5. CASE Conforms(k1, from) /\ Conforms(k2, from)
    <3>1. Finish({}, to) /\ Derives(Top.at, to)
      BY <2>2, <2>4, <2>5
    <3> QED BY <1>0, <1>1, <2>1, <3>1, EndsRightly
  <2>6. CASE ~ (Conforms(k1, from) /\ Conforms(k2, from))
    <3>1. Finish({"operand"}, Object) /\ \A u \in Type : ~ Derives(Top.at, u)
      BY <2>2, <2>4, <2>6
    <3> QED BY <1>0, <1>1, <2>1, <3>1, EndsRightly
  <2> QED BY <2>5, <2>6
<1>9. CASE EndEqual
  <2>1. e.op = "equal"
    BY <1>0, <1>9 DEF EndEqual, At
  <2> DEFINE alike == k1 = k2 \/ (IsCustom(k1) /\ IsCustom(k2))
  <2>2. IF alike THEN Finish({}, Bool) ELSE Finish({"operand"}, Object)
    BY <1>2, <1>9 DEF EndEqual
  <2>3. \A u : Derives(Top.at, u) <=> u = Bool /\ alike
    BY <1>0, <1>3, <2>1 DEF Derives, IsCustom
  <2> HIDE DEF alike
  <2>4. CASE alike
    <3>1. Finish({}, Bool) /\ Derives(Top.at, Bool)
      BY <2>2, <2>3, <2>4
    <3> QED BY <1>0, <1>1, <2>1, <3>1, EndsRightly DEF Expressions
  <2>5. CASE ~ alike
    <3>1. Finish({"operand"}, Object) /\ \A u \in Type : ~ Derives(Top.at, u)
      BY <2>2, <2>3, <2>5
    <3> QED BY <1>0, <1>1, <2>1, <3>1, EndsRightly DEF Expressions
  <2> QED BY <2>4, <2>5
<1> QED BY <1>5, <1>6, <1>7, <1>8, <1>9

(* The branches of an if: what they are joined to is what the rules say.   *)
LEMMA EndsOfIf ==
  ASSUME SInv, RInv, EndIf
  PROVE  RInv'
<1>0. PICK e : e = NodeAt(Top.at) /\ e = Node
  BY DEF Node
<1>1. Walked /\ stack # <<>> /\ e.op = "if" /\ TreeTable(table)
  BY <1>0, TableIsTreeTable DEF SInv, Walked, OfATree, EndIf, At
<1>2. Kids \in {2, 3} /\ Kids = Len(e.kids)
  BY <1>0, <1>1, NodeShape DEF Counts, Kids
<1> DEFINE a == Kid(2)
           b == IF Kids = 3 THEN Kid(3) ELSE Unit
           joined == Branches(a, b)
           faults == If(~ Conforms(Kid(1), Bool), "condition") \cup If(joined = {}, "branches")
           t == IF joined = {} THEN Object ELSE CHOOSE x \in joined : TRUE
<1>3. Finish(faults, t)
  BY DEF EndIf
<1>4. PICK k1, k2, k3 : /\ k1 = TypeAt(Append(Top.at, 1)) /\ k2 = TypeAt(Append(Top.at, 2))
                        /\ k3 = TypeAt(Append(Top.at, 3))
  OBVIOUS
<1>5. Kid(1) = k1 /\ a = k2 /\ b = IF Kids = 3 THEN k3 ELSE Unit
  BY <1>4 DEF Kid
<1> HIDE DEF a, b, joined, faults, t
<1>6. Conforms(Kid(1), Bool) <=> k1 = Bool
  BY <1>5, ConformsToBasic
<1>7. \A u : u \in joined <=>
        IF Unit \in {a, b} THEN u = Unit
        ELSE IF ~ {a, b} \subseteq ClassName THEN u = a /\ u = b
        ELSE IF {a, b} \subseteq DOMAIN table THEN u \in Lowest(Above(a) \cap Above(b))
        ELSE u = Object
  <2>1. CASE Unit \in {a, b}
    BY <2>1 DEF joined, Branches
  <2>2. CASE Unit \notin {a, b} /\ ~ {a, b} \subseteq ClassName
    BY <2>2 DEF joined, Branches, IsCustom
  <2>3. CASE Unit \notin {a, b} /\ {a, b} \subseteq ClassName
    <3>1. joined = {CommonAncestor(a, b)}
      BY <2>3 DEF joined, Branches, IsCustom
    <3>2. CASE {a, b} \subseteq DOMAIN table
      BY <1>1, <2>3, <3>1, <3>2, CommonIsLowest
    <3>3. CASE ~ {a, b} \subseteq DOMAIN table
      BY <2>3, <3>1, <3>3 DEF CommonAncestor
    <3> QED BY <3>2, <3>3
  <2> QED BY <2>1, <2>2, <2>3
<1>8. \A u : Derives(Top.at, u) <=> k1 = Bool /\ u \in joined
  <2>1. ASSUME NEW u PROVE Derives(Top.at, u) <=>
          /\ k1 = Bool
          /\ IF Kids = 2 \/ Unit \in {k2, TypeAt(Append(Top.at, Kids))} THEN u = Unit
             ELSE IF ~ {k2, k3} \subseteq ClassName THEN u = k2 /\ u = k3
             ELSE IF {k2, k3} \subseteq DOMAIN table
                  THEN u \in Lowest(Above(k2) \cap Above(k3)) ELSE u = Object
    BY <1>0, <1>1, <1>2, <1>4 DEF Derives
  <2>2. CASE Kids = 2
    <3>1. b = Unit
      BY <1>5, <2>2
    <3> QED BY <1>7, <2>1, <2>2, <3>1
  <2>3. CASE Kids = 3
    <3>1. b = k3 /\ a = k2 /\ TypeAt(Append(Top.at, Kids)) = k3 /\ Kids # 2
      BY <1>4, <1>5, <2>3
    <3> QED BY <1>7, <2>1, <3>1
  <2> QED BY <1>2, <2>2, <2>3
<1>9. faults = {} <=> k1 = Bool /\ joined # {}
  BY <1>6 DEF faults, If
<1>10. faults = {} => Derives(Top.at, t)
  <2> SUFFICES ASSUME faults = {} PROVE Derives(Top.at, t)
    OBVIOUS
  <2>1. t \in joined
    BY <1>9 DEF t
  <2> QED BY <1>8, <1>9, <2>1
<1>11. faults # {} => \A u \in Type : ~ Derives(Top.at, u)
  BY <1>8, <1>9
<1> QED BY <1>0, <1>1, <1>3, <1>10, <1>11, EndsRightly DEF Expressions

(* A call: the method is that of the lowest superclass that has one, and   *)
(* its faults are those of its arguments.                                  *)
LEMMA EndsOfCall ==
  ASSUME SInv, RInv, EndCall
  PROVE  RInv'
<1>0. PICK e : e = NodeAt(Top.at) /\ e = Node
  BY DEF Node
<1>1. Walked /\ stack # <<>> /\ e.op = "call" /\ TreeTable(table)
  BY <1>0, TableIsTreeTable DEF SInv, Walked, OfATree, EndCall, At
<1>2. Kids = Len(e.kids) /\ \A i : Kid(i) = TypeAt(Append(Top.at, i))
  BY <1>0 DEF Kids, Kid
<1>3. \A x, y : Conforms(x, y) <=> Fits(x, y)
  BY <1>1, ConformsIsFits
<1>4. PICK c : c = Kid(1)
  OBVIOUS
<1> DEFINE Taken(m) == /\ Len(m.formals) = Kids - 1
                       /\ \A i \in DOMAIN m.formals : Fits(Kid(i + 1), m.formals[i])
           known == IF IsCustom(c) THEN MethodsOf(c, e.name) ELSE {}
<1>5. \A u : Derives(Top.at, u) <=> \E m \in known : u = m.ret /\ Taken(m)
  BY <1>0, <1>1, <1>2, <1>4 DEF Derives
<1>6. \A m : ArgumentFaults(m) = {} <=> Taken(m)
  BY <1>3 DEF ArgumentFaults, If
<1>7. IsCustom(c) => LookupMethod(c, e.name) = known /\ \A x, y \in known : x = y
  BY <1>1, MethodsAreFound DEF IsCustom
<1>8. CASE known = {}
  <2>1. Finish({"no class"}, Object) \/ Finish({"no method"}, Object)
    BY <1>0, <1>4, <1>7, <1>8 DEF EndCall
  <2>2. \A u \in Type : ~ Derives(Top.at, u)
    BY <1>5, <1>8
  <2> QED BY <1>0, <1>1, <2>1, <2>2, EndsRightly DEF Expressions
<1>9. CASE known # {}
  <2> HIDE DEF Taken, known
  <2>1. IsCustom(c)
    BY <1>9 DEF known
  <2>2. PICK m \in known : Finish(ArgumentFaults(m), m.ret)
    BY <1>0, <1>4, <1>7, <1>9, <2>1 DEF EndCall
  <2>3. \A u : Derives(Top.at, u) <=> u = m.ret /\ Taken(m)
    BY <1>5, <1>7, <2>1, <2>2
  <2>4. ArgumentFaults(m) = {} => Derives(Top.at, m.ret)
    BY <1>6, <2>3
  <2>5. ArgumentFaults(m) # {} => \A u \in Type : ~ Derives(Top.at, u)
    BY <1>6, <2>3
  <2> QED BY <1>0, <1>1, <2>2, <2>4, <2>5, EndsRightly DEF Expressions
<1> QED BY <1>8, <1>9

(* An assignment: the value fits what the identifier stands for.           *)
LEMMA AssignsRightly ==
  ASSUME SInv, RInv, StartAssign \/ EndAssign
  PROVE  RInv'
<1>0. PICK e : e = NodeAt(Top.at) /\ e = Node
  BY DEF Node
<1>1. Walked /\ stack # <<>> /\ e.op = "assign" /\ TreeTable(table)
  BY <1>0, TableIsTreeTable DEF SInv, Walked, OfATree, StartAssign, EndAssign, At
<1>2. PICK means : means = Resolve(e.name)
  OBVIOUS
<1>3. means = Meaning(e.name, Top.at) /\ \A a, b \in means : a = b
  BY <1>0, <1>1, <1>2, ResolveIsMeaning
<1>4. PICK k : k = Kid(1) /\ k = TypeAt(Append(Top.at, 1))
  BY DEF Kid
<1>5. \A u : Derives(Top.at, u) <=> u = k /\ \E d \in means : Conforms(u, d)
  BY <1>0, <1>1, <1>3, <1>4, ConformsIsFits DEF Derives
<1>6. CASE StartAssign
  <2>1. CASE means = {}
    <3>1. Finish({"undefined identifier"}, Object) /\ \A u \in Type : ~ Derives(Top.at, u)
      BY <1>0, <1>2, <1>5, <1>6, <2>1 DEF StartAssign
    <3> QED BY <1>0, <1>1, <3>1, EndsRightly DEF Expressions
  <2>2. CASE means # {}
    <3>1. Enter /\ UNCHANGED <<types, errors>> /\ Top.next = 1
      BY <1>0, <1>2, <1>6, <2>2 DEF StartAssign, Arriving
    <3>2. Kids \in {1}
      BY <1>0, <1>1, NodeShape DEF Counts
    <3>3. ~ Visited
      BY <3>1, <3>2 DEF Visited
    <3>4. Goes
      <4>1. Next
        BY <1>6 DEF Next
      <4> QED BY <1>1, <4>1, NextGoes
    <3>5. Report({})
      BY <3>1, NothingReported
    <3> QED BY <1>0, <1>1, <3>1, <3>3, <3>4, <3>5, EnteringKeeps
  <2> QED BY <2>1, <2>2
<1>7. CASE EndAssign
  <2>1. PICK d \in means : Finish(If(~ Conforms(k, d), "value"), k)
    BY <1>0, <1>2, <1>4, <1>7 DEF EndAssign
  <2>2. \A u : Derives(Top.at, u) <=> u = k /\ Conforms(u, d)
    BY <1>3, <1>5, <2>1
  <2>3. If(~ Conforms(k, d), "value") = {} <=> Conforms(k, d)
    BY DEF If
  <2> QED BY <1>0, <1>1, <2>1, <2>2, <2>3, EndsRightly DEF Expressions
<1> QED BY <1>6, <1>7

(* A let: what is wrong with it is reported before its body is visited.    *)
LEMMA LetsRightly ==
  ASSUME SInv, RInv, StartLet \/ BindLet \/ EndLet
  PROVE  RInv'
<1>0. PICK e : e = NodeAt(Top.at) /\ e = Node
  BY DEF Node
<1>1. Walked /\ stack # <<>> /\ e.op = "let" /\ TreeTable(table)
  BY <1>0, TableIsTreeTable DEF SInv, Walked, OfATree, StartLet, BindLet, EndLet, At
<1>2. Kids \in {1, 2} /\ Kids = Len(e.kids)
  BY <1>0, <1>1, NodeShape DEF Counts, Kids
<1>3. PICK k : k = Kid(1) /\ k = TypeAt(Append(Top.at, 1))
  BY DEF Kid
<1>4. Faulted(Top.at) <=> LetFault(Top.at, Top.next)
  BY <1>0, <1>1, TopReports DEF RInv
<1> DEFINE exists == Exists(e.type)
           fits == Conforms(k, e.type)
<1>5. PICK n \in Nat \ {0}, m \in {1, 2} : n = Top.next /\ m = Kids
  BY <1>1, <1>2, NodeShape
<1>6. \A i : LetFault(Top.at, i) <=> (i > 1 /\ ~ exists) \/ (i > m /\ m = 2 /\ ~ fits)
  BY <1>0, <1>2, <1>3, <1>5 DEF LetFault
<1>7. /\ (Visited <=> n > m)
      /\ (Faulted(Top.at) <=> (n > 1 /\ ~ exists) \/ (n > m /\ m = 2 /\ ~ fits))
      /\ (LetFault(Top.at, Top.next + 1) <=>
            (n + 1 > 1 /\ ~ exists) \/ (n + 1 > m /\ m = 2 /\ ~ fits))
  BY <1>4, <1>5, <1>6 DEF Visited
<1> HIDE DEF exists, fits
<1>8. Goes
  <2>1. Next
    BY DEF Next
  <2> QED BY <1>1, <2>1, NextGoes
<1>9. CASE StartLet
  <2>1. PICK faults : faults = If(~ exists, "undefined type")
    OBVIOUS
  <2>2. n = 1 /\ m = 2 /\ Enter /\ UNCHANGED types /\ Report(faults)
    BY <1>0, <1>5, <1>9, <2>1 DEF StartLet, Arriving, exists
  <2>3. faults # {} <=> ~ exists
    BY <2>1 DEF If
  <2>4. ~ Visited /\ (Faulted(Top.at) \/ faults # {} <=> LetFault(Top.at, Top.next + 1))
    BY <1>7, <2>2, <2>3
  <2> QED BY <1>0, <1>1, <1>8, <2>2, <2>4, EnteringKeeps
<1>10. CASE BindLet
  <2>1. PICK faults : faults = IF m = 1 THEN If(~ exists, "undefined type")
                               ELSE If(~ fits, "initializer")
    OBVIOUS
  <2>2. n = m /\ Enter /\ UNCHANGED types /\ Report(faults)
    BY <1>0, <1>3, <1>5, <1>10, <2>1 DEF BindLet, exists, fits
  <2>3. faults # {} <=> IF m = 1 THEN ~ exists ELSE ~ fits
    BY <2>1 DEF If
  <2>4. ~ Visited
    BY <1>7, <2>2
  <2>5. Faulted(Top.at) \/ faults # {} <=> LetFault(Top.at, Top.next + 1)
    <3>1. CASE m = 1
      BY <1>7, <2>2, <2>3, <3>1
    <3>2. CASE m = 2
      BY <1>7, <2>2, <2>3, <3>2
    <3> QED BY <3>1, <3>2
  <2> QED BY <1>0, <1>1, <1>8, <2>2, <2>4, <2>5, EnteringKeeps
<1>11. CASE EndLet
  <2>1. Sets(Top.at, Kid(Kids)) /\ Leave /\ Report({}) /\ Visited
    BY <1>11, NothingReported DEF EndLet, SetType, Sets
  <2>2. Faulted(Top.at) <=> ~ exists \/ (m = 2 /\ ~ fits)
    BY <1>5, <1>7, <2>1
  <2>3. \A u : Derives(Top.at, u) <=> u = Kid(Kids) /\ exists /\ (m = 2 => fits)
    BY <1>0, <1>1, <1>2, <1>3, <1>5, ConformsIsFits DEF Derives, Kid, exists, fits
  <2>4. Settles(Top.at, Kid(Kids), {})
    BY <2>2, <2>3 DEF Settles
  <2> QED BY <1>1, <1>8, <2>1, <2>4, LeavingKeeps
<1> QED BY <1>9, <1>10, <1>11

LEMMA RInvStays ==
  ASSUME SInv, RInv, [Next]_vars
  PROVE  RInv'
<1>1. CASE Next
  <2>1. CASE VisitProgram \/ VisitClass \/ VisitField \/ StartMethod \/ EndMethod \/ VisitKid
    BY <2>1, VisitsGoOn
  <2>2. CASE VisitLiteral \/ VisitSelf \/ VisitNew \/ VisitVariable
    BY <2>2, LeavesEndRightly
  <2>3. CASE EndBlock \/ EndWhile \/ EndUnary \/ EndBinary \/ EndEqual
    BY <2>3, EndsOnKids
  <2>4. CASE EndIf \/ EndCall
    BY <2>4, EndsOfIf, EndsOfCall
  <2>5. CASE StartAssign \/ EndAssign
    BY <2>5, AssignsRightly
  <2>6. CASE StartLet \/ BindLet \/ EndLet
    BY <2>6, LetsRightly
  <2> QED BY <1>1, <2>1, <2>2, <2>3, <2>4, <2>5, <2>6 DEF Next
<1>2. CASE UNCHANGED vars
  <2>1. UNCHANGED <<tree, table, stack, current, scopes, types, errors>>
    BY <1>2 DEF vars
  <2>2. \A q : NodeAt(q)' = NodeAt(q) /\ TypeAt(q)' = TypeAt(q)
    BY <2>1, TreeStays DEF TypeAt
  <2>3. \A q : Faulted(q)' <=> Faulted(q)
    BY <2>1 DEF Faulted
  <2>4. \A q, t : Derives(q, t)' <=> Derives(q, t)
    BY <2>1, <2>2, DerivesStays
  <2>5. \A q, k : LetFault(q, k)' <=> LetFault(q, k)
    BY <2>1, <2>2, LetFaultStays
  <2>6. TypedBefore' /\ ReportedBefore'
    BY <2>1 DEF RInv, TypedBefore, ReportedBefore, Past, PastOf
  <2>7. ReportsSoFar'
    <3>1. PICK s : s = stack /\ s = stack'
      BY <2>1
    <3>2. \A j \in DOMAIN s :
            /\ NodeAt(s[j].at)'.op = "let" => (Faulted(s[j].at)' <=> LetFault(s[j].at, s[j].next)')
            /\ NodeAt(s[j].at)'.op \in Expressions \ {"let"} => ~ Faulted(s[j].at)'
      BY <2>2, <2>3, <2>5, <3>1 DEF RInv, ReportsSoFar
    <3> QED BY <3>1, <3>2 DEF ReportsSoFar
  <2>8. TypedRightly'
    <3>1. PICK ty : ty = types /\ ty = types'
      BY <2>1
    <3>2. \A q \in DOMAIN ty : /\ ~ Faulted(q)' => Derives(q, ty[q])'
                               /\ Faulted(q)' => \A t \in Type : ~ Derives(q, t)'
      BY <2>3, <2>4, <3>1 DEF RInv, TypedRightly
    <3> QED BY <3>1, <3>2 DEF TypedRightly
  <2> QED BY <2>6, <2>7, <2>8 DEF RInv
<1> QED BY <1>1, <1>2

LEMMA InitRight ==
  ASSUME Init
  PROVE  RInv
<1>1. types = <<>> /\ errors = {} /\ DOMAIN types = {}
  BY DEF Init
<1>2. stack = <<[at |-> <<>>, next |-> 1]>>
  BY DEF Init
<1>3. \A q : ~ Faulted(q)
  BY <1>1 DEF Faulted
<1>4. ReportsSoFar
  <2>2. Walked
    BY InitWalked DEF SInv
  <2>3. \A j \in DOMAIN stack : j = 1
    BY <1>2
  <2>4. \A j \in DOMAIN stack : NodeIn(tree, stack[j].at).op \in LevelOps(j)
    BY <2>2 DEF Walked, Spine, LevelsOf
  <2>5. \A j \in DOMAIN stack : NodeAt(stack[j].at).op \in {"program"}
    BY <2>3, <2>4 DEF LevelOps, NodeAt
  <2>6. \A j \in DOMAIN stack : NodeAt(stack[j].at).op \notin Expressions
    BY <2>5 DEF Expressions
  <2> QED BY <1>3, <2>5, <2>6 DEF ReportsSoFar, Expressions
<1> QED BY <1>1, <1>4 DEF RInv, TypedBefore, ReportedBefore, TypedRightly

-----------------------------------------------------------------------------
(* types_visitor.cpp: when the visit of any tree has ended, every node     *)
(* that was typed and of which nothing was reported has a type that the    *)
(* typing rules give it.  Identifiers are those of the text around them,   *)
(* methods and fields those of the lowest superclass that has them.        *)
THEOREM SilenceIsAlwaysSound == Spec => []SilenceIsSound
<1>1. SInv /\ RInv => SilenceIsSound
  BY DEF RInv, TypedRightly, SilenceIsSound
<1> QED BY InitWalked, InitRight, SInvStays, RInvStays, <1>1, PTL DEF Spec

(* types_visitor.cpp: and to a node that something was reported of the     *)
(* rules give no type.                                                     *)
THEOREM ErrorsAreAlwaysTrue == Spec => []ErrorsAreTrue
<1>1. SInv /\ RInv => ErrorsAreTrue
  BY DEF RInv, TypedRightly, ErrorsAreTrue
<1> QED BY InitWalked, InitRight, SInvStays, RInvStays, <1>1, PTL DEF Spec

-----------------------------------------------------------------------------
(* What the class table says comes from the tree: the fields and methods   *)
(* of a class are among those the parser gives its node.                   *)
LEMMA AddedAreMembers ==
  ASSUME NEW S, NEW members \in Seq(S)
  PROVE  AddMembers(members) \in Seq(S)
<1> DEFINE n == Len(members)
           V == Seq(S)
           Turn(g, k) == IF k = 0 THEN <<>> ELSE AddMember(g[k - 1], members[k])
           added == CHOOSE g : g = [k \in 0 .. n |-> Turn(g, k)]
           step == [k \in 1 .. n |-> [v \in V |-> AddMember(v, members[k])]]
<1>1. n \in Nat /\ <<>> \in V /\ \A k \in 1 .. n : members[k] \in S
  OBVIOUS
<1>2. ASSUME NEW k \in 1 .. n, NEW v \in V PROVE AddMember(v, members[k]) \in V
  BY <1>1 DEF AddMember
<1> HIDE DEF V, n
<1>3. step \in [1 .. n -> [V -> V]]
  BY <1>2
<1>4. \A k \in 1 .. n : \A v \in V : step[k][v] = AddMember(v, members[k])
  OBVIOUS
<1> HIDE DEF step
<1>5. PICK g \in [0 .. n -> V] : Follows(g, <<>>, step, n)
  BY <1>1, <1>3, LoopExists
<1>6. g[0] = <<>> /\ \A k \in 1 .. n : g[k] = AddMember(g[k - 1], members[k])
  BY <1>1, <1>4, <1>5 DEF Follows
<1>7. g = [k \in 0 .. n |-> Turn(g, k)]
  BY <1>1, <1>5, <1>6
<1>8. added = [k \in 0 .. n |-> Turn(added, k)]
  <2> HIDE DEF Turn
  <2> QED BY <1>7
<1>9. Together(added, g, n)
  <2> HIDE DEF added
  <2>1. \A k \in 0 .. n : added[k] = Turn(added, k)
    BY <1>8
  <2> QED BY <1>1, <1>6, <2>1 DEF Together
<1> HIDE DEF added
<1>10. added[n] = g[n] /\ g[n] \in V
  BY <1>1, <1>5, <1>9, LoopIsOne
<1>11. AddMembers(members) = added[n]
  BY DEF AddMembers, added, n
<1> QED BY <1>10, <1>11 DEF V

LEMMA KeptAreKids ==
  ASSUME NEW S, NEW c, c.kids \in Seq(S), NEW op
  PROVE  Members(c, op) \in Seq({k \in S : k.op = op})
<1> DEFINE kids == c.kids
           n == Len(kids)
           V == Seq({k \in S : k.op = op})
           Keep(v, m) == IF m.op = op THEN Append(v, m) ELSE v
           Turn(g, k) == IF k = 0 THEN <<>> ELSE IF kids[k].op = op THEN Append(g[k - 1], kids[k]) ELSE g[k - 1]
           kept == CHOOSE g : g = [k \in 0 .. n |-> Turn(g, k)]
           step == [k \in 1 .. n |-> [v \in V |-> Keep(v, kids[k])]]
<1>1. n \in Nat /\ <<>> \in V /\ \A k \in 1 .. n : kids[k] \in S
  OBVIOUS
<1>11. Members(c, op) = kept[n]
  BY DEF Members
<1> HIDE DEF n, kids
<1>2. ASSUME NEW k \in 1 .. n, NEW v \in V PROVE Keep(v, kids[k]) \in V
  BY <1>1
<1> HIDE DEF V
<1>3. step \in [1 .. n -> [V -> V]]
  <2> HIDE DEF Keep
  <2> QED BY <1>2
<1>4. \A k \in 1 .. n : \A v \in V : step[k][v] = Keep(v, kids[k])
  OBVIOUS
<1> HIDE DEF step
<1>5. PICK g \in [0 .. n -> V] : Follows(g, <<>>, step, n)
  BY <1>1, <1>3, LoopExists
<1>6. g[0] = <<>> /\ \A k \in 1 .. n : g[k] = Keep(g[k - 1], kids[k])
  <2> HIDE DEF Keep
  <2> QED BY <1>1, <1>4, <1>5 DEF Follows
<1>7. g = [k \in 0 .. n |-> Turn(g, k)]
  <2>1. ASSUME NEW k \in 0 .. n PROVE g[k] = Turn(g, k)
    <3>1. k = 0 \/ k \in 1 .. n
      BY <1>1
    <3> QED BY <1>1, <1>6, <3>1
  <2> HIDE DEF Turn
  <2> QED BY <1>5, <2>1
<1>8. kept = [k \in 0 .. n |-> Turn(kept, k)]
  <2> HIDE DEF Turn
  <2> QED BY <1>7
<1>9. Together(kept, g, n)
  <2> HIDE DEF kept
  <2>1. \A k \in 0 .. n : kept[k] = Turn(kept, k)
    BY <1>8
  <2> QED BY <1>1, <1>6, <2>1 DEF Together
<1> HIDE DEF kept
<1>10. kept[n] = g[n] /\ g[n] \in V
  BY <1>1, <1>5, <1>9, LoopIsOne
<1> QED BY <1>10, <1>11 DEF V


(* The types that the members of the classes of a tree are declared with.  *)
WrittenIn(root, t) ==
  \E i \in DOMAIN root.kids : \E j \in DOMAIN root.kids[i].kids : t = root.kids[i].kids[j].type

LEMMA EachIsOne ==
  ASSUME NEW S, NEW s \in Seq(S)
  PROVE  s \in Seq({s[i] : i \in DOMAIN s})
<1> DEFINE T == {s[i] : i \in DOMAIN s}
<1>1. DOMAIN s = 1 .. Len(s) /\ Len(s) \in Nat /\ s = [i \in 1 .. Len(s) |-> s[i]]
  OBVIOUS
<1>2. \A i \in 1 .. Len(s) : s[i] \in T
  BY <1>1
<1> HIDE DEF T
<1>3. [i \in 1 .. Len(s) |-> s[i]] \in Seq(T)
  BY <1>1, <1>2
<1> QED BY <1>1, <1>3 DEF T

LEMMA MappedIs ==
  ASSUME NEW S, NEW s \in Seq(S), NEW f
  PROVE  [i \in DOMAIN s |-> f[s[i]]] \in Seq({f[x] : x \in S})
<1> DEFINE T == {f[x] : x \in S}
           n == Len(s)
<1>1. DOMAIN s = 1 .. n /\ n \in Nat /\ \A i \in 1 .. n : s[i] \in S
  OBVIOUS
<1>2. \A i \in 1 .. n : f[s[i]] \in T
  BY <1>1
<1> HIDE DEF T, n
<1>3. [i \in 1 .. n |-> f[s[i]]] \in Seq(T)
  BY <1>1, <1>2
<1> QED BY <1>1, <1>3 DEF T

LEMMA MembersAreWritten ==
  ASSUME NEW c, NEW S, c.kids \in Seq(S), NEW n
  PROVE  LET info == InfoOfNode(c) IN
         /\ HasMember(info.fields, n) =>
              \E j \in DOMAIN c.kids : GetMember(info.fields, n).type = c.kids[j].type
         /\ HasMember(info.methods, n) =>
              \E j \in DOMAIN c.kids : GetMember(info.methods, n).ret = c.kids[j].type
<1> DEFINE K == {c.kids[j] : j \in DOMAIN c.kids}
           asField == [k \in K |-> [name |-> k.name, type |-> k.type]]
           asMethod == [k \in K |-> Signature(k)]
           fields == Members(c, "field")
           methods == Members(c, "method")
           F == [i \in DOMAIN fields |-> [name |-> fields[i].name, type |-> fields[i].type]]
           M == [i \in DOMAIN methods |-> Signature(methods[i])]
<1>1. c.kids \in Seq(K)
  BY EachIsOne
<1>2. \A x \in K : \E j \in DOMAIN c.kids : x = c.kids[j]
  OBVIOUS
<1>3. InfoOfNode(c).fields = AddMembers(F) /\ InfoOfNode(c).methods = AddMembers(M)
  BY DEF InfoOfNode, InfoOf
<1> HIDE DEF K, fields, methods
<1>4. fields \in Seq({k \in K : k.op = "field"}) /\ methods \in Seq({k \in K : k.op = "method"})
  BY <1>1, KeptAreKids DEF fields, methods
<1>5. /\ \A i \in DOMAIN fields : fields[i] \in K
      /\ \A i \in DOMAIN methods : methods[i] \in K
  BY <1>4
<1>6. fields \in Seq(K) /\ methods \in Seq(K)
  <2>1. \A s : s \in Seq({k \in K : k.op = "field"}) => s \in Seq(K)
    OBVIOUS
  <2>2. \A s : s \in Seq({k \in K : k.op = "method"}) => s \in Seq(K)
    OBVIOUS
  <2> QED BY <1>4, <2>1, <2>2
<1>7. F = [i \in DOMAIN fields |-> asField[fields[i]]]
  BY <1>5
<1>8. M = [i \in DOMAIN methods |-> asMethod[methods[i]]]
  BY <1>5
<1> DEFINE FS == {asField[k] : k \in K}
           MS == {asMethod[k] : k \in K}
<1>9. \A f \in FS : \E x \in K : f.type = x.type
  OBVIOUS
<1>10. \A m \in MS : \E x \in K : m.ret = x.type
  BY DEF Signature
<1> HIDE DEF F, M, asField, asMethod
<1>11. F \in Seq(FS) /\ M \in Seq(MS)
  BY <1>6, <1>7, <1>8, MappedIs
<1> HIDE DEF FS, MS
<1>12. AddMembers(F) \in Seq(FS) /\ AddMembers(M) \in Seq(MS)
  BY <1>11, AddedAreMembers
<1>13. /\ HasMember(AddMembers(F), n) => GetMember(AddMembers(F), n) \in FS
       /\ HasMember(AddMembers(M), n) => GetMember(AddMembers(M), n) \in MS
  BY <1>12, GetMemberIs
<1> QED BY <1>2, <1>3, <1>9, <1>10, <1>13

LEMMA TableIsWritten ==
  ASSUME NEW t \in Trees, NEW tab, tab = TableOfTree(t), NEW c \in DOMAIN tab, NEW n
  PROVE  /\ HasMember(tab[c].fields, n) => WrittenIn(t, GetMember(tab[c].fields, n).type)
         /\ HasMember(tab[c].methods, n) =>
              LET u == GetMember(tab[c].methods, n).ret IN
              WrittenIn(t, u) \/ u \in {Object, Int32, Bool, String}
<1>1. CASE c = Object
  <2>1. tab[c].fields = <<>> /\ tab[c].methods = Builtins
    BY <1>1 DEF TableOfTree, ObjectInfo
  <2>2. ~ HasMember(<<>>, n)
    BY DEF HasMember
  <2>3. Builtins \in Seq({Builtins[i] : i \in DOMAIN Builtins})
    BY NamesAssumption, EachIsOne
  <2>4. HasMember(Builtins, n) => GetMember(Builtins, n) \in {Builtins[i] : i \in DOMAIN Builtins}
    BY <2>3, GetMemberIs
  <2> QED BY <2>1, <2>2, <2>4, TypesAssumption
<1>2. CASE c # Object
  <2> DEFINE k == GetMember(t.kids, c)
             K == {t.kids[i] : i \in DOMAIN t.kids}
  <2>1. c \in {t.kids[i].name : i \in DOMAIN t.kids} /\ tab[c] = InfoOfNode(k)
    BY <1>2 DEF TableOfTree
  <2>2. t.kids \in Seq(NodesOf(t))
    BY TreesAssumption
  <2>3. HasMember(t.kids, c)
    BY <2>1 DEF HasMember
  <2>4. t.kids \in Seq(K)
    BY <2>2, EachIsOne
  <2> HIDE DEF K
  <2>5. k \in K
    BY <2>3, <2>4, GetMemberIs
  <2> HIDE DEF k
  <2>6. PICK i \in DOMAIN t.kids : k = t.kids[i]
    BY <2>5 DEF K
  <2>7. k.kids \in Seq(NodesOf(t))
    <3>1. t.kids[i] \in NodesOf(t)
      BY <2>2, <2>6
    <3> QED BY <2>6, <3>1, TreesAssumption
  <2>8. /\ HasMember(tab[c].fields, n) =>
             \E j \in DOMAIN k.kids : GetMember(tab[c].fields, n).type = k.kids[j].type
        /\ HasMember(tab[c].methods, n) =>
             \E j \in DOMAIN k.kids : GetMember(tab[c].methods, n).ret = k.kids[j].type
    BY <2>1, <2>7, MembersAreWritten
  <2> QED BY <2>6, <2>8 DEF WrittenIn
<1> QED BY <1>1, <1>2

-----------------------------------------------------------------------------
(* A position that has been visited after a step was visited before it, or *)
(* is that of the node that was left.                                      *)
LEMMA PositionIs ==
  ASSUME NEW root \in Trees, NEW q, PositionIn(root, q), NEW k \in 1 .. Len(q)
  PROVE  /\ q \in Seq(Nat) /\ q[k] \in Nat \ {0}
         /\ q[k] <= Len(NodeIn(root, SubSeq(q, 1, k - 1)).kids)
         /\ Len(NodeIn(root, SubSeq(q, 1, k - 1)).kids) \in Nat
<1> DEFINE r == SubSeq(q, 1, k - 1)
           kids == NodeIn(root, r).kids
<1>1. q \in Seq(Nat) /\ k - 1 \in 0 .. Len(q) /\ q[k] \in DOMAIN kids
  BY DEF PositionIn
<1>2. PositionIn(root, r)
  BY <1>1, PrefixIsPosition
<1> HIDE DEF r
<1>3. kids \in Seq(NodesOf(root))
  BY <1>2, NodeIs
<1> HIDE DEF kids
<1>4. DOMAIN kids = 1 .. Len(kids) /\ Len(kids) \in Nat
  BY <1>3
<1> QED BY <1>1, <1>4 DEF kids, r

LEMMA PastEnteredBack ==
  ASSUME NEW root \in Trees, NEW s, NEW t, SpinesOf(root, s), Entered(s, t),
         NEW q, PositionIn(root, q), PastOf(t, q)
  PROVE  PastOf(s, q)
<1>1. PICK m \in DOMAIN t :
        /\ m <= Len(q) /\ \A i \in 1 .. m - 1 : q[i] = t[i].next - 1
        /\ q[m] < IF m < Len(t) THEN t[m].next - 1 ELSE t[m].next
  BY DEF PastOf
<1>2. PICK n : n = Len(s)
  OBVIOUS
<1>3. /\ n \in Nat \ {0} /\ DOMAIN s = 1 .. n /\ Len(t) = n + 1 /\ DOMAIN t = 1 .. n + 1
      /\ \A j \in 1 .. n - 1 : t[j] = s[j]
      /\ t[n].next = s[n].next + 1 /\ t[n + 1].next = 1 /\ n \in DOMAIN s
      /\ s[n].next \in Nat
  <2>1. s # <<>> /\ t \in Seq(Frame)
    BY DEF Entered
  <2>2. n \in DOMAIN s
    BY <1>2, <2>1, LastIsFrame
  <2>3. n \in Nat \ {0} /\ DOMAIN s = 1 .. n /\ s[n].next \in Nat
    BY <1>2, <2>2, FrameIs
  <2>4. /\ Len(t) = n + 1 /\ \A j \in 1 .. n - 1 : t[j] = s[j]
        /\ t[n].next = s[n].next + 1 /\ t[Len(t)].next = 1
    BY <1>2 DEF Entered
  <2> QED BY <2>1, <2>2, <2>3, <2>4
<1>4. q \in Seq(Nat) /\ Len(q) \in Nat
  BY DEF PositionIn
<1>5. m # n + 1
  <2> SUFFICES ASSUME m = n + 1 PROVE FALSE
    OBVIOUS
  <2>1. m \in 1 .. Len(q)
    BY <1>1, <1>3, <1>4
  <2>2. q[m] \in Nat \ {0}
    BY <2>1, PositionIs
  <2>3. q[m] < 1
    BY <1>1, <1>3
  <2> QED BY <2>2, <2>3
<1>6. m \in 1 .. n /\ m < n + 1 /\ q[m] < t[m].next - 1
  BY <1>1, <1>3, <1>5
<1>7. \A i \in 1 .. m - 1 : q[i] = s[i].next - 1
  BY <1>1, <1>3, <1>6
<1>8. q[m] < IF m < n THEN s[m].next - 1 ELSE s[m].next
  <2>1. CASE m < n
    <3>1. t[m] = s[m]
      BY <1>3, <1>6, <2>1
    <3> QED BY <1>6, <2>1, <3>1
  <2>2. CASE ~ (m < n)
    <3>1. m = n /\ (s[n].next + 1) - 1 = s[n].next
      BY <1>3, <1>6, <2>2
    <3> QED BY <1>3, <1>6, <2>2, <3>1
  <2> QED BY <2>1, <2>2
<1> QED BY <1>1, <1>2, <1>3, <1>6, <1>7, <1>8 DEF PastOf

LEMMA PastLeftBack ==
  ASSUME NEW root \in Trees, NEW s, NEW t, SpinesOf(root, s), Left(s, t),
         NEW q, PositionIn(root, q), t = <<>> \/ PastOf(t, q),
         Len(q) < Len(s) \/ Len(NodeIn(root, s[Len(s)].at).kids) < s[Len(s)].next
  PROVE  PastOf(s, q) \/ q = s[Len(s)].at
<1> DEFINE k == Len(s) - 1
<1>1. PICK n : n = Len(s)
  OBVIOUS
<1>2. /\ n \in Nat \ {0} /\ DOMAIN s = 1 .. n /\ Len(t) = n - 1 /\ DOMAIN t = 1 .. n - 1
      /\ \A j \in 1 .. n - 1 : t[j] = s[j] /\ s[j].next \in Nat
      /\ n \in DOMAIN s
  <2>1. s # <<>> /\ t \in Seq(Frame)
    BY DEF Left
  <2>2. n \in DOMAIN s
    BY <1>1, <2>1, LastIsFrame
  <2>3. n \in Nat \ {0} /\ DOMAIN s = 1 .. n
    BY <1>1, <2>2, FrameIs
  <2>4. \A j \in DOMAIN s : s[j].next \in Nat
    BY FrameIs
  <2>5. Len(t) = n - 1 /\ \A j \in 1 .. Len(t) : t[j] = s[j]
    BY <1>1 DEF Left
  <2> QED BY <2>1, <2>2, <2>3, <2>4, <2>5
<1>3. q \in Seq(Nat) /\ Len(q) \in Nat
  BY DEF PositionIn
<1>4. PICK p : p = s[n].at
  OBVIOUS
<1>5. /\ p \in Seq(Nat) /\ Len(p) = n - 1 /\ \A i \in 1 .. n - 1 : p[i] = s[i].next - 1
  <2>1. n \in DOMAIN s
    BY <1>2
  <2>2. /\ s[n].at \in Seq(Nat) /\ Len(s[n].at) = n - 1
        /\ \A i \in 1 .. n - 1 : s[n].at[i] = s[i].next - 1
    BY <2>1, FrameIs
  <2> QED BY <1>4, <2>2
<1>6. ASSUME n - 1 <= Len(q), \A i \in 1 .. n - 1 : q[i] = s[i].next - 1
      PROVE  PastOf(s, q) \/ q = p
  <2>1. CASE Len(q) = n - 1
    BY <1>3, <1>5, <1>6, <2>1, SeqEqual
  <2>2. CASE Len(q) # n - 1
    <3>1. n \in 1 .. Len(q) /\ n - 1 \in 0 .. Len(q)
      BY <1>2, <1>3, <1>6, <2>2
    <3>2. SubSeq(q, 1, n - 1) = p
      <4>1. /\ SubSeq(q, 1, n - 1) \in Seq(Nat) /\ Len(SubSeq(q, 1, n - 1)) = n - 1
            /\ \A i \in 1 .. n - 1 : SubSeq(q, 1, n - 1)[i] = q[i]
        BY <1>3, <3>1, Prefix
      <4>2. \A i \in 1 .. n - 1 : SubSeq(q, 1, n - 1)[i] = p[i]
        BY <1>5, <1>6, <4>1
      <4> QED BY <1>5, <4>1, <4>2, SeqEqual
    <3>3. PICK l \in Nat : l = Len(NodeIn(root, p).kids) /\ q[n] <= l /\ q[n] \in Nat
      BY <3>1, <3>2, PositionIs
    <3>4. l < s[n].next /\ s[n].next \in Nat
      <4>1. s[n].next \in Nat
        BY <1>2, FrameIs
      <4>2. ~ (Len(q) < Len(s))
        BY <1>1, <1>2, <1>3, <3>1
      <4> QED BY <1>1, <1>4, <3>3, <4>1, <4>2
    <3>5. q[n] < s[n].next
      BY <3>3, <3>4
    <3>6. PastOf(s, q)
      <4>1. n <= Len(q) /\ ~ (n < n)
        BY <1>2, <3>1
      <4> QED BY <1>1, <1>2, <1>6, <3>5, <4>1 DEF PastOf
    <3> QED BY <3>6
  <2> QED BY <2>1, <2>2
<1>7. CASE t = <<>>
  <2>1. n = 1
    BY <1>2, <1>7
  <2> QED BY <1>1, <1>3, <1>4, <1>6, <2>1
<1>8. CASE PastOf(t, q)
  <2>1. PICK m \in DOMAIN t :
          /\ m <= Len(q) /\ \A i \in 1 .. m - 1 : q[i] = t[i].next - 1
          /\ q[m] < IF m < Len(t) THEN t[m].next - 1 ELSE t[m].next
    BY <1>8 DEF PastOf
  <2>2. m \in 1 .. n - 1 /\ m < n /\ m \in DOMAIN s /\ t[m] = s[m] /\ m \in Nat
    BY <1>2, <2>1
  <2>3. \A i \in 1 .. m - 1 : q[i] = s[i].next - 1
    BY <1>2, <2>1, <2>2
  <2>4. CASE q[m] < s[m].next - 1
    BY <1>1, <2>1, <2>2, <2>3, <2>4 DEF PastOf
  <2>5. CASE ~ (q[m] < s[m].next - 1)
    <3>1. q[m] \in Nat
      BY <1>3, <2>1, <2>2
    <3>2. s[m].next \in Nat
      BY <1>2, <2>2
    <3>3. m = n - 1
      <4>1. ~ (m < n - 1)
        BY <1>2, <2>1, <2>2, <2>5
      <4> QED BY <1>2, <2>2, <4>1
    <3>4. q[m] < s[m].next
      BY <1>2, <2>1, <2>2, <3>3
    <3>5. q[m] = s[m].next - 1
      BY <2>5, <3>1, <3>2, <3>4
    <3>6. \A i \in 1 .. n - 1 : i = m \/ i \in 1 .. m - 1
      BY <1>2, <3>3
    <3>7. \A i \in 1 .. n - 1 : q[i] = s[i].next - 1
      BY <2>3, <3>5, <3>6
    <3> QED BY <1>1, <1>4, <1>6, <2>1, <3>3, <3>7
  <2> QED BY <2>4, <2>5
<1> QED BY <1>7, <1>8

LEMMA KidIsPast ==
  ASSUME NEW root, NEW s, SpinesOf(root, s), s # <<>>, NEW k \in Nat, k < s[Len(s)].next
  PROVE  PastOf(s, Append(s[Len(s)].at, k))
<1>1. PICK n : n = Len(s)
  OBVIOUS
<1>2. n \in DOMAIN s
  BY <1>1, LastIsFrame
<1>3. /\ n \in Nat \ {0} /\ s[n].at \in Seq(Nat) /\ Len(s[n].at) = n - 1
      /\ \A i \in 1 .. n - 1 : s[n].at[i] = s[i].next - 1
  BY <1>2, FrameIs
<1> DEFINE q == Append(s[n].at, k)
<1>4. Len(q) = n /\ q[n] = k /\ \A i \in 1 .. n - 1 : q[i] = s[i].next - 1
  BY <1>3
<1> HIDE DEF q
<1>5. n <= Len(q) /\ ~ (n < n)
  BY <1>3, <1>4
<1>6. PastOf(s, q)
  BY <1>1, <1>2, <1>4, <1>5 DEF PastOf
<1> QED BY <1>1, <1>6 DEF q

-----------------------------------------------------------------------------
(* While nothing has been reported, all that was visited is typed, and     *)
(* with types that exist or that a member is declared with: only when the  *)
(* visit has ended have the members all been looked at.                    *)
Known(t) == t # Undefined /\ (Exists(t) \/ WrittenIn(tree, t))

Over(path) == stack = <<>> \/ Past(path)

AtPositions == \A path \in DOMAIN types : PositionIn(tree, path) /\ Len(path) >= 3

Complete ==
  \A path : PositionIn(tree, path) /\ Len(path) >= 3 /\ Over(path) => path \in DOMAIN types

AllKnown == \A path \in DOMAIN types : Known(types[path])

Declared(e) == \A t \in Mentioned(e) : Exists(t)

MembersSeen ==
  \A j \in DOMAIN stack : LET e == NodeAt(stack[j].at) IN
    e.op \in {"field", "method"} /\ stack[j].next > 1 => Declared(e)

MemberFits(path) == LET e == NodeAt(path) IN
  Declared(e) /\ (e.op = "method" => Fits(TypeAt(Append(path, 1)), e.type))

MembersDone ==
  \A path : PositionIn(tree, path) /\ Len(path) = 2 /\ Over(path) => MemberFits(path)

Sound == AtPositions /\ Complete /\ AllKnown /\ MembersSeen /\ MembersDone

AInv == errors = {} /\ WellParsed => Sound

LEMMA KnownIs ==
  ASSUME TreeTable(table), NEW t,
         t \in DOMAIN table \/ t \in {Object, Int32, Bool, String, Unit}
  PROVE  Known(t) /\ Exists(t)
<1>1. Object \in DOMAIN table /\ DOMAIN table \subseteq ClassName
  BY NamesAssumption DEF TreeTable, Lineage
<1>2. t # Undefined /\ (t \in ClassName => t \in DOMAIN table)
  BY <1>1, TypesAssumption
<1> QED BY <1>2 DEF Known, Exists, IsCustom

LEMMA WrittenIsKnown ==
  ASSUME tree \in Trees, WellParsed, NEW t, WrittenIn(tree, t)
  PROVE  Known(t)
<1>1. PICK i \in DOMAIN tree.kids :
        \E j \in DOMAIN tree.kids[i].kids : t = tree.kids[i].kids[j].type
  BY DEF WrittenIn
<1>2. PICK j \in DOMAIN tree.kids[i].kids : t = tree.kids[i].kids[j].type
  BY <1>1
<1>3. tree.kids \in Seq(NodesOf(tree))
  BY TreesAssumption
<1>4. tree.kids[i] \in NodesOf(tree)
  BY <1>3
<1>5. tree.kids[i].kids \in Seq(NodesOf(tree))
  BY <1>4, TreesAssumption
<1>6. tree.kids[i].kids[j] \in NodesOf(tree)
  BY <1>5
<1>7. t # Undefined
  BY <1>2, <1>6 DEF WellParsed, Mentioned
<1> QED BY <1>7 DEF Known

LEMMA ClassIsThere ==
  ASSUME Walked, stack # <<>>, Node.op \in Expressions
  PROVE  Len(Top.at) >= 3 /\ PositionIn(tree, Top.at) /\ ClassOf(Top.at) \in DOMAIN table
<1>1. PICK n, p : n = Len(stack) /\ p = Top.at
  OBVIOUS
<1>2. n \in Nat \ {0} /\ Node.op \in LevelOps(n) /\ PositionIn(tree, p) /\ Len(p) = n - 1
  BY <1>1, TopIs DEF Walked
<1>3. n # 1 /\ n # 2 /\ n # 3
  BY <1>2 DEF LevelOps, Expressions
<1>4. Len(p) >= 3 /\ 1 \in 1 .. Len(p) /\ p \in Seq(Nat) /\ 1 - 1 = 0
  BY <1>2, <1>3 DEF PositionIn
<1>5. SubSeq(p, 1, 0) = <<>>
  BY <1>4
<1>6. tree \in Trees /\ table = TableOfTree(tree)
  BY DEF Walked, OfATree
<1>7. p[1] \in DOMAIN NodeIn(tree, SubSeq(p, 1, 0)).kids
  BY <1>2, <1>4 DEF PositionIn
<1>8. p[1] \in DOMAIN tree.kids
  BY <1>5, <1>6, <1>7, RootIs
<1>9. ClassOf(p) \in DOMAIN table
  BY <1>6, <1>8 DEF ClassOf, TableOfTree
<1> QED BY <1>1, <1>2, <1>4, <1>9

LEMMA KidsAreKnown ==
  ASSUME Walked, stack # <<>>, Node.op \in Expressions, Visited, Sound, NEW k \in 1 .. Kids
  PROVE  Append(Top.at, k) \in DOMAIN types /\ Known(Kid(k))
<1>1. PICK s, n, p : s = stack /\ n = Len(s) /\ p = Top.at
  OBVIOUS
<1>2. /\ SpinesOf(tree, s) /\ s # <<>> /\ Top = s[n] /\ tree \in Trees
      /\ PositionIn(tree, p) /\ Len(p) >= 3
  BY <1>1, SpineIs, TopIs, ClassIsThere DEF Walked, OfATree
<1>3. Kids \in Nat /\ Top.next \in Nat /\ Node.kids \in Seq(NodesOf(tree))
  BY NodeShape
<1>4. k \in Nat /\ k < Top.next /\ k \in DOMAIN Node.kids
  BY <1>3 DEF Visited, Kids
<1>5. PastOf(s, Append(p, k))
  BY <1>1, <1>2, <1>4, KidIsPast
<1>6. PositionIn(tree, Append(p, k))
  BY <1>1, <1>2, <1>4, KidIs DEF Node, NodeAt
<1>7. Len(Append(p, k)) >= 3
  <2>1. p \in Seq(Nat)
    BY <1>2 DEF PositionIn
  <2>2. Len(Append(p, k)) = Len(p) + 1 /\ Len(p) \in Nat
    BY <1>4, <2>1
  <2> QED BY <1>2, <2>2
<1>8. Append(p, k) \in DOMAIN types
  BY <1>1, <1>5, <1>6, <1>7 DEF Sound, Complete, Over, Past
<1>9. Kid(k) = types[Append(p, k)]
  BY <1>1, <1>8 DEF Kid, TypeAt
<1> QED BY <1>1, <1>8, <1>9 DEF Sound, AllKnown

(* What an identifier stands for is declared in the text around it, or by  *)
(* a field of a class of the tree.                                         *)
LEMMA BinderIsMentioned ==
  ASSUME tree \in Trees, NEW q, PositionIn(tree, q), NEW p, NEW x, Binds(q, p, x)
  PROVE  DeclaredBy(q, x) \in Mentioned(NodeAt(q))
<1> DEFINE e == NodeAt(q)
<1>1. CASE e.op = "let"
  BY <1>1 DEF DeclaredBy, Mentioned
<1>2. CASE e.op # "let"
  <2> DEFINE f == e.formals
             T == {i \in DOMAIN f : f[i].name = x}
  <2>1. e.op = "method" /\ T # {}
    BY <1>2 DEF Binds
  <2>2. f \in Seq(FormalNode)
    <3>1. Shaped(e)
      BY NodeIs DEF NodeAt
    <3> QED BY <2>1, <3>1 DEF Shaped
  <2>3. DeclaredBy(q, x) = f[Max(T)].type
    BY <1>2 DEF DeclaredBy
  <2>4. \A i \in DOMAIN f : f[i].type \in Mentioned(e)
    BY DEF Mentioned
  <2> HIDE DEF f
  <2>5. T \in SUBSET Nat /\ (\A i \in T : i <= Len(f)) /\ Len(f) \in Nat
    BY <2>2
  <2>6. T \subseteq DOMAIN f
    OBVIOUS
  <2>7. Max(T) \in T
    <3> HIDE DEF T
    <3>1. \E m \in T : \A u \in T : m >= u
      BY <2>1, <2>5, Greatest
    <3> QED BY <3>1 DEF Max
  <2> QED BY <2>3, <2>4, <2>6, <2>7
<1> QED BY <1>1, <1>2

LEMMA MeaningIsKnown ==
  ASSUME SInv, RInv, errors = {}, WellParsed, Sound, stack # <<>>,
         Node.op \in Expressions, NEW x, NEW v \in Meaning(x, Top.at)
  PROVE  Known(v)
<1>1. PICK s, n, p : s = stack /\ n = Len(s) /\ p = Top.at
  OBVIOUS
<1>2. /\ SpinesOf(tree, s) /\ n \in DOMAIN s /\ Top = s[n] /\ tree \in Trees
      /\ table = TableOfTree(tree) /\ Walked
  <2>1. SpinesOf(tree, s) /\ Top = s[n] /\ tree \in Trees /\ table = TableOfTree(tree)
    BY <1>1, SpineIs, TopIs DEF SInv, Walked, OfATree
  <2> QED BY <1>1, <2>1, LastIsFrame DEF SInv
<1>3. p = s[n].at
  BY <1>1, <1>2
<1> DEFINE binders == {q \in Around(p) : Binds(q, p, x)}
           owners == {c \in Above(ClassOf(p)) \cap DOMAIN table : HasMember(table[c].fields, x)}
<1>4. CASE binders # {}
  <2>1. PICK q \in binders : v = DeclaredBy(q, x)
    BY <1>1, <1>4 DEF Meaning
  <2>2. Binds(q, p, x) /\ q \in Around(p)
    BY <2>1
  <2>3. PICK j \in 2 .. n - 1 : q = s[j].at
    <3>1. q \in Around(s[n].at)
      BY <1>3, <2>2
    <3> QED BY <1>2, <3>1, AroundIs
  <2>4. n \in Nat /\ DOMAIN s = 1 .. n /\ Len(p) = n - 1 /\ p[j] = s[j].next - 1 /\ PositionIn(tree, p)
    <3>1. /\ Len(s) \in Nat /\ DOMAIN s = 1 .. Len(s) /\ n \in Nat /\ Len(s[n].at) = n - 1
          /\ PositionIn(tree, s[n].at)
          /\ \A i \in 1 .. n - 1 : s[n].at[i] = s[i].next - 1
      BY <1>2, FrameIs
    <3>2. j \in 1 .. n - 1
      BY <3>1
    <3> QED BY <1>1, <1>3, <3>1, <3>2
  <2>5. j \in DOMAIN s /\ j \in 1 .. Len(p)
    BY <2>4
  <2>6. PositionIn(tree, q) /\ s[j].next \in Nat
    BY <1>2, <2>3, <2>5, FrameIs
  <2>7. p[j] \in Nat \ {0}
    BY <1>2, <2>4, <2>5, PositionIs
  <2>8. s[j].next > 1
    BY <2>4, <2>6, <2>7
  <2>9. v \in Mentioned(NodeAt(q))
    BY <1>2, <2>1, <2>2, <2>6, BinderIsMentioned
  <2>10. NodeAt(q) \in NodesOf(tree)
    BY <1>2, <2>6, NodeIs DEF NodeAt
  <2>11. v # Undefined
    BY <2>9, <2>10 DEF WellParsed
  <2>12. Exists(v)
    <3>1. CASE NodeAt(q).op = "method"
      <4>1. Declared(NodeAt(q))
        BY <1>1, <2>3, <2>5, <2>8, <3>1 DEF Sound, MembersSeen
      <4> QED BY <2>9, <4>1 DEF Declared
    <3>2. CASE NodeAt(q).op # "method"
      <4>1. NodeAt(q).op = "let" /\ v = NodeAt(q).type
        BY <2>1, <2>2, <3>2 DEF Binds, DeclaredBy
      <4>2. ~ Faulted(q)
        BY DEF Faulted
      <4>3. ~ LetFault(q, s[j].next)
        BY <1>1, <2>3, <2>5, <4>1, <4>2 DEF RInv, ReportsSoFar
      <4> QED BY <2>8, <4>1, <4>3 DEF LetFault
    <3> QED BY <3>1, <3>2
  <2> QED BY <2>11, <2>12 DEF Known
<1>5. CASE binders = {}
  <2>1. PICK c \in Lowest(owners) : v = GetMember(table[c].fields, x).type
    BY <1>1, <1>5 DEF Meaning
  <2>2. c \in DOMAIN table /\ HasMember(table[c].fields, x)
    BY <2>1 DEF Lowest
  <2>3. WrittenIn(tree, v)
    BY <1>2, <2>1, <2>2, TableIsWritten
  <2> QED BY <1>2, <2>3, WrittenIsKnown
<1> QED BY <1>4, <1>5

(* What the rules give a node whose children are typed, and with types     *)
(* that are known, is known.                                               *)
LEMMA DerivesKnown ==
  ASSUME SInv, RInv, errors = {}, WellParsed, Sound, stack # <<>>,
         Node.op \in Expressions, Visited, NEW t, Derives(Top.at, t)
  PROVE  Known(t)
<1>0. PICK e : e = NodeAt(Top.at) /\ e = Node
  BY DEF Node
<1>1. /\ Walked /\ TreeTable(table) /\ tree \in Trees /\ table = TableOfTree(tree)
      /\ ClassOf(Top.at) \in DOMAIN table
  BY TableIsTreeTable, ClassIsThere DEF SInv, Walked, OfATree
<1>2. Shaped(e) /\ Kids \in Nat /\ Kids \in Counts(e.op) /\ Kids = Len(e.kids)
  BY <1>0, <1>1, NodeShape DEF Kids
<1>3. /\ \A k \in 1 .. Kids : Known(Kid(k))
      /\ \A k : Kid(k) = TypeAt(Append(Top.at, k))
  BY <1>1, KidsAreKnown DEF Kid
<1>4. \A u : u \in DOMAIN table \/ u \in {Object, Int32, Bool, String, Unit} => Known(u)
  BY <1>1, KnownIs
<1>5. \A x : \A u \in Meaning(x, Top.at) : Known(u)
  <2> TAKE x
  <2> TAKE u \in Meaning(x, Top.at)
  <2> QED BY MeaningIsKnown
<1>6. CASE e.op = "literal"
  <2>1. t = e.type /\ e.type \in {Int32, Bool, String, Unit}
    BY <1>0, <1>2, <1>6 DEF Derives, Shaped
  <2> QED BY <1>4, <2>1
<1>7. CASE e.op \in {"self", "new"}
  <2>1. t \in DOMAIN table
    BY <1>0, <1>1, <1>7 DEF Derives
  <2> QED BY <1>4, <2>1
<1>8. CASE e.op = "variable"
  <2>1. t \in Meaning(e.name, Top.at)
    BY <1>0, <1>8 DEF Derives
  <2> QED BY <1>5, <2>1
<1>9. CASE e.op = "assign"
  <2>1. t = Kid(1)
    BY <1>0, <1>3, <1>9 DEF Derives
  <2>2. Kids \in {1}
    BY <1>2, <1>9 DEF Counts
  <2> QED BY <1>3, <2>1, <2>2
<1>10. CASE e.op = "block"
  <2>1. t = IF Kids = 0 THEN Unit ELSE Kid(Kids)
    BY <1>0, <1>2, <1>3, <1>10 DEF Derives
  <2>2. CASE Kids = 0
    BY <1>4, <2>1, <2>2
  <2>3. CASE Kids # 0
    <3>1. Kids \in 1 .. Kids
      BY <1>2, <2>3
    <3> QED BY <1>3, <2>1, <2>3, <3>1
  <2> QED BY <2>2, <2>3
<1>11. CASE e.op = "let"
  <2>1. t = Kid(Kids)
    BY <1>0, <1>2, <1>3, <1>11 DEF Derives
  <2>2. Kids \in {1, 2}
    BY <1>2, <1>11 DEF Counts
  <2>3. Kids \in 1 .. Kids
    BY <2>2
  <2> QED BY <1>3, <2>1, <2>3
<1>12. CASE e.op \in {"while", "not", "minus", "isnull", "arithmetic", "comparison", "and", "equal"}
  <2>1. t \in {Unit, Bool, Int32}
    <3>1. CASE e.op \in {"while", "not", "minus", "isnull"}
      BY <1>0, <3>1 DEF Derives
    <3>2. CASE e.op \in {"arithmetic", "comparison", "and", "equal"}
      BY <1>0, <3>2 DEF Derives
    <3> QED BY <1>12, <3>1, <3>2
  <2> QED BY <1>4, <2>1
<1>13. CASE e.op = "if"
  <2>1. Kids \in {2, 3}
    BY <1>2, <1>13 DEF Counts
  <2>2. PICK a, b : a = TypeAt(Append(Top.at, 2)) /\ b = TypeAt(Append(Top.at, 3))
    OBVIOUS
  <2>3. \/ t = Unit
        \/ t = a
        \/ {a, b} \subseteq DOMAIN table /\ t \in Lowest(Above(a) \cap Above(b))
        \/ t = Object
    BY <1>0, <1>13, <2>2 DEF Derives
  <2>4. CASE t = a
    <3>1. 2 \in 1 .. Kids
      BY <2>1
    <3> QED BY <1>3, <2>2, <2>4, <3>1
  <2>5. CASE {a, b} \subseteq DOMAIN table /\ t \in Lowest(Above(a) \cap Above(b))
    <3>1. Lineage(table) /\ a \in DOMAIN table /\ a \in ClassName /\ t \in Above(a)
      BY <1>1, <2>5 DEF TreeTable, Lineage, Lowest
    <3>2. t \in Range(Ancestry(table, a))
      BY <1>1, <3>1, AboveIs
    <3>3. t \in DOMAIN table
      BY <3>1, <3>2, WaysGoOn
    <3> QED BY <1>4, <3>3
  <2> QED BY <1>4, <2>3, <2>4, <2>5
<1>14. CASE e.op = "call"
  <2>1. PICK c : c = TypeAt(Append(Top.at, 1))
    OBVIOUS
  <2>2. PICK m \in IF IsCustom(c) THEN MethodsOf(c, e.name) ELSE {} : t = m.ret
    BY <1>0, <1>14, <2>1 DEF Derives
  <2>3. PICK n : n = e.name /\ m \in MethodsOf(c, n)
    BY <2>2
  <2>4. PICK k \in DOMAIN table : HasMember(table[k].methods, n) /\ m = GetMember(table[k].methods, n)
    BY <2>3 DEF MethodsOf, Lowest
  <2>5. WrittenIn(tree, t) \/ t \in {Object, Int32, Bool, String}
    BY <1>1, <2>2, <2>4, TableIsWritten
  <2> QED BY <1>1, <1>4, <2>5, WrittenIsKnown
<1>15. e.op \in Expressions
  BY <1>0
<1> QED BY <1>6, <1>7, <1>8, <1>9, <1>10, <1>11, <1>12, <1>13, <1>14, <1>15 DEF Expressions

-----------------------------------------------------------------------------
(* A step that reports nothing: it enters a child and sets no type, or it  *)
(* leaves a node all of whose children are visited, and an expression gets *)
(* its type.  A member whose visit starts is declared with types that      *)
(* exist, and a method whose visit ends was given a body that fits.        *)
EntersCalmly ==
  /\ Enter /\ ~ Visited /\ UNCHANGED types
  /\ Node.op \in {"field", "method"} /\ Arriving => Declared(Node)

LeavesCalmly ==
  /\ Leave /\ Visited
  /\ Node.op \in Expressions => \E v : Sets(Top.at, v)
  /\ Node.op \notin Expressions => UNCHANGED types
  /\ Node.op \in {"field", "method"} /\ Arriving => Declared(Node)
  /\ Node.op = "method" => Kid(1) = Undefined \/ Conforms(Kid(1), Node.type)

Calm == /\ stack # <<>> /\ errors = {} /\ errors' = {} /\ UNCHANGED <<tree, table>>
        /\ EntersCalmly \/ LeavesCalmly

LEMMA NothingFound ==
  ASSUME NEW faults, Report(faults), errors' = {}
  PROVE  errors = {} /\ faults = {}
<1> SUFFICES ASSUME NEW f \in faults PROVE FALSE
  BY DEF Report
<1>1. [what |-> f, at |-> Top.at] \in errors'
  BY DEF Report
<1> QED BY <1>1

LEMMA FieldIsDeclared ==
  ASSUME Walked, stack # <<>>, Node.op = "field", Exists(Node.type)
  PROVE  Declared(Node)
<1>1. Node.formals = <<>>
  BY NodeShape DEF Shaped
<1>2. Mentioned(Node) = {Node.type}
  BY <1>1 DEF Mentioned
<1> QED BY <1>2 DEF Declared

LEMMA EndsCalmly ==
  ASSUME Walked, stack # <<>>, NEW faults, NEW t, Finish(faults, t), errors' = {},
         Node.op \in Expressions, Visited
  PROVE  Calm
<1>1. /\ Report(faults) /\ Sets(Top.at, t) /\ Leave /\ UNCHANGED <<tree, table>>
  BY DEF Finish, SetType, Sets
<1>2. errors = {}
  BY <1>1, NothingFound
<1>3. Node.op \notin {"field", "method"} /\ Node.op # "method"
  BY DEF Expressions
<1> QED BY <1>1, <1>2, <1>3 DEF Calm, LeavesCalmly

LEMMA MembersCalm ==
  ASSUME Walked, errors' = {},
         VisitProgram \/ VisitClass \/ VisitField \/ StartMethod \/ EndMethod \/ VisitKid
  PROVE  Calm
<1>1. CASE VisitProgram \/ VisitClass \/ VisitKid
  <2>1. /\ stack # <<>> /\ UNCHANGED <<tree, table, types, errors>>
        /\ (Visited /\ Leave /\ Node.op \notin Expressions) \/ (~ Visited /\ Enter)
        /\ Node.op \notin {"field", "method"} /\ Node.op # "method"
    BY <1>1 DEF VisitProgram, VisitClass, VisitKid, At, EnterOrLeave, Plain, Expressions
  <2> QED BY <2>1 DEF Calm, EntersCalmly, LeavesCalmly
<1>2. CASE VisitField
  <2>1. /\ stack # <<>> /\ UNCHANGED <<tree, table, types>> /\ Node.op = "field"
        /\ IF Visited THEN Leave ELSE Enter
        /\ Report(If(Arriving /\ ~ Exists(Node.type), "undefined type"))
    BY <1>2 DEF VisitField, At, EnterOrLeave
  <2>2. errors = {} /\ If(Arriving /\ ~ Exists(Node.type), "undefined type") = {}
    BY <2>1, NothingFound
  <2>3. Arriving => Exists(Node.type)
    BY <2>2 DEF If
  <2>4. Arriving => Declared(Node)
    BY <2>1, <2>3, FieldIsDeclared
  <2>5. Node.op \notin Expressions /\ Node.op # "method"
    BY <2>1 DEF Expressions
  <2> QED BY <2>1, <2>2, <2>4, <2>5 DEF Calm, EntersCalmly, LeavesCalmly
<1>3. CASE StartMethod
  <2> DEFINE wrong == \/ ~ Exists(Node.type)
                      \/ \E i \in DOMAIN Node.formals : ~ Exists(Node.formals[i].type)
  <2>1. /\ stack # <<>> /\ UNCHANGED <<tree, table, types>> /\ Node.op = "method"
        /\ Enter /\ Arriving /\ Report(If(wrong, "undefined type"))
    BY <1>3 DEF StartMethod, At
  <2> HIDE DEF wrong
  <2>2. errors = {} /\ If(wrong, "undefined type") = {}
    BY <2>1, NothingFound
  <2>3. ~ wrong
    BY <2>2 DEF If
  <2>4. Declared(Node)
    BY <2>3 DEF wrong, Declared, Mentioned
  <2>5. Kids \in {1}
    BY <2>1, NodeShape DEF Counts
  <2>6. Top.next = 1
    BY <2>1 DEF Arriving
  <2>7. ~ Visited
    BY <2>5, <2>6 DEF Visited
  <2> QED BY <2>1, <2>2, <2>4, <2>7 DEF Calm, EntersCalmly
<1>4. CASE EndMethod
  <2> DEFINE wrong == Kid(1) # Undefined /\ ~ Conforms(Kid(1), Node.type)
  <2>1. /\ stack # <<>> /\ UNCHANGED <<tree, table, types>> /\ Node.op = "method"
        /\ Leave /\ Visited /\ Report(If(wrong, "result"))
    BY <1>4 DEF EndMethod, At
  <2> HIDE DEF wrong
  <2>2. errors = {} /\ If(wrong, "result") = {}
    BY <2>1, NothingFound
  <2>3. ~ wrong
    BY <2>2 DEF If
  <2>4. Kid(1) = Undefined \/ Conforms(Kid(1), Node.type)
    BY <2>3 DEF wrong
  <2>5. Kids \in {1}
    BY <2>1, NodeShape DEF Counts
  <2>6. ~ Arriving /\ Node.op \notin Expressions
    BY <2>1, <2>5 DEF Visited, Arriving, Expressions
  <2> QED BY <2>1, <2>2, <2>4, <2>6 DEF Calm, LeavesCalmly
<1> QED BY <1>1, <1>2, <1>3, <1>4

LEMMA CalmIs ==
  ASSUME Walked, Next, errors' = {}
  PROVE  Calm
<1>1. CASE VisitProgram \/ VisitClass \/ VisitField \/ StartMethod \/ EndMethod \/ VisitKid
  BY <1>1, MembersCalm
<1>2. CASE VisitLiteral \/ VisitSelf \/ VisitNew \/ VisitVariable
  <2>1. /\ stack # <<>> /\ Node.op \in {"literal", "self", "new", "variable"}
        /\ \E faults, t : Finish(faults, t)
    BY <1>2 DEF VisitLiteral, VisitSelf, VisitNew, VisitVariable, At
  <2>2. Kids \in {0} /\ Top.next \in Nat \ {0}
    BY <2>1, NodeShape DEF Counts
  <2>3. Visited
    BY <2>2 DEF Visited
  <2> QED BY <2>1, <2>3, EndsCalmly DEF Expressions
<1>3. CASE EndBlock \/ EndIf \/ EndWhile \/ EndUnary \/ EndBinary \/ EndEqual
  <2>1. /\ stack # <<>> /\ Visited
        /\ Node.op \in {"block", "if", "while", "not", "minus", "isnull",
                        "arithmetic", "comparison", "and", "equal"}
        /\ \E faults, t : Finish(faults, t)
    BY <1>3 DEF EndBlock, EndIf, EndWhile, EndUnary, EndBinary, EndEqual, UnaryOf, BinaryOf, At
  <2> QED BY <2>1, EndsCalmly DEF Expressions
<1>4. CASE EndCall
  <2>1. /\ stack # <<>> /\ Visited /\ Node.op = "call" /\ \E faults, t : Finish(faults, t)
    BY <1>4 DEF EndCall, At
  <2> QED BY <2>1, EndsCalmly DEF Expressions
<1>5. CASE StartAssign
  <2>1. stack # <<>> /\ Node.op = "assign" /\ Top.next = 1
    BY <1>5 DEF StartAssign, At, Arriving
  <2>2. CASE Resolve(Node.name) = {}
    <3>1. Report({"undefined identifier"})
      BY <1>5, <2>2 DEF StartAssign, Finish
    <3> QED BY <3>1, NothingFound
  <2>3. CASE Resolve(Node.name) # {}
    <3>1. Enter /\ UNCHANGED <<tree, table, types, errors>>
      BY <1>5, <2>3 DEF StartAssign
    <3>2. Kids \in {1}
      BY <2>1, NodeShape DEF Counts
    <3>3. ~ Visited /\ Node.op \notin {"field", "method"}
      BY <2>1, <3>2 DEF Visited
    <3> QED BY <2>1, <3>1, <3>3 DEF Calm, EntersCalmly
  <2> QED BY <2>2, <2>3
<1>6. CASE EndAssign
  <2>1. /\ stack # <<>> /\ Visited /\ Node.op = "assign" /\ \E faults, t : Finish(faults, t)
    BY <1>6 DEF EndAssign, At
  <2> QED BY <2>1, EndsCalmly DEF Expressions
<1>7. CASE StartLet \/ BindLet
  <2>1. /\ stack # <<>> /\ Node.op = "let" /\ Enter /\ UNCHANGED <<tree, table, types>>
        /\ \E faults : Report(faults)
        /\ (Top.next = 1 /\ Kids = 2) \/ Top.next = Kids
    BY <1>7 DEF StartLet, BindLet, At, Arriving
  <2>2. errors = {}
    BY <2>1, NothingFound
  <2>3. Kids \in Nat
    BY <2>1, NodeShape
  <2>4. ~ Visited /\ Node.op \notin {"field", "method"}
    BY <2>1, <2>3 DEF Visited
  <2> QED BY <2>1, <2>2, <2>4 DEF Calm, EntersCalmly
<1>8. CASE EndLet
  <2>1. /\ stack # <<>> /\ Node.op = "let" /\ Leave /\ UNCHANGED <<tree, table, errors>>
        /\ Visited /\ Sets(Top.at, Kid(Kids))
    BY <1>8 DEF EndLet, At, SetType, Sets
  <2>2. Node.op \in Expressions /\ Node.op \notin {"field", "method"} /\ Node.op # "method"
    BY <2>1 DEF Expressions
  <2> QED BY <2>1, <2>2 DEF Calm, LeavesCalmly
<1> QED BY <1>1, <1>2, <1>3, <1>4, <1>5, <1>6, <1>7, <1>8 DEF Next

(* What such a step does to what was visited and typed.                    *)
LEMMA TypesGo ==
  ASSUME Walked, TypedBefore, Calm
  PROVE  /\ \A q \in DOMAIN types : q \in DOMAIN types' /\ types'[q] = types[q]
         /\ \A q \in DOMAIN types' :
              q \in DOMAIN types \/ (LeavesCalmly /\ Node.op \in Expressions /\ q = Top.at)
         /\ LeavesCalmly /\ Node.op \in Expressions => Top.at \in DOMAIN types'
<1>1. stack # <<>> /\ Top.at \notin DOMAIN types
  BY TopIsNew DEF Calm
<1>2. CASE UNCHANGED types
  <2>1. ASSUME LeavesCalmly, Node.op \in Expressions PROVE Top.at \in DOMAIN types'
    <3>1. PICK v : Sets(Top.at, v)
      BY <2>1 DEF LeavesCalmly
    <3> QED BY <3>1 DEF Sets
  <2> QED BY <1>2, <2>1
<1>3. CASE ~ UNCHANGED types
  <2>1. LeavesCalmly /\ Node.op \in Expressions
    BY <1>3 DEF Calm, EntersCalmly, LeavesCalmly
  <2>2. PICK v : Sets(Top.at, v)
    BY <2>1 DEF LeavesCalmly
  <2> QED BY <1>1, <2>1, <2>2 DEF Sets
<1> QED BY <1>2, <1>3

LEMMA OverBack ==
  ASSUME Walked, Calm, NEW q, PositionIn(tree, q), Over(q)'
  PROVE  Over(q) \/ (LeavesCalmly /\ q = Top.at)
<1>1. PICK s, t, n : s = stack /\ t = stack' /\ n = Len(s)
  OBVIOUS
<1>2. s # <<>> /\ SpinesOf(tree, s) /\ Top = s[n] /\ tree \in Trees
  BY <1>1, SpineIs, TopIs DEF Calm, Walked, OfATree
<1>3. t = <<>> \/ PastOf(t, q)
  BY <1>1 DEF Over, Past
<1>4. CASE EntersCalmly
  <2>1. Entered(s, t)
    BY <1>1, <1>2, <1>4, EnteredIs DEF EntersCalmly
  <2>2. t # <<>>
    <3>1. n \in DOMAIN s
      BY <1>1, <1>2, LastIsFrame
    <3>2. n \in Nat
      BY <1>2, <3>1, FrameIs
    <3>3. Len(t) = n + 1
      BY <1>1, <2>1 DEF Entered
    <3>4. Len(t) # 0
      BY <3>2, <3>3
    <3> QED BY <3>4
  <2>3. PastOf(s, q)
    BY <1>2, <1>3, <2>1, <2>2, PastEnteredBack
  <2> QED BY <1>1, <2>3 DEF Over, Past
<1>5. CASE LeavesCalmly
  <2>1. Left(s, t)
    BY <1>1, <1>2, <1>5, LeaveIs DEF LeavesCalmly, Walked
  <2>2. Len(NodeIn(tree, s[Len(s)].at).kids) < s[Len(s)].next
    <3>1. Top.next \in Nat /\ Kids \in Nat /\ Top.next > Kids
      BY <1>1, <1>2, <1>5, NodeShape DEF LeavesCalmly, Visited
    <3>2. Kids < Top.next
      BY <3>1
    <3> QED BY <1>1, <1>2, <3>2 DEF Kids, Node, NodeAt
  <2>3. PastOf(s, q) \/ q = s[Len(s)].at
    BY <1>2, <1>3, <2>1, <2>2, PastLeftBack
  <2> QED BY <1>1, <1>2, <1>5, <2>3 DEF Over, Past
<1> QED BY <1>4, <1>5 DEF Calm

LEMMA KnownStays ==
  ASSUME UNCHANGED <<tree, table>>
  PROVE  /\ \A t : Known(t)' <=> Known(t)
         /\ \A e : Declared(e)' <=> Declared(e)
<1>1. \A t : Exists(t)' <=> Exists(t)
  BY RulesStay
<1>2. \A t : WrittenIn(tree, t)' <=> WrittenIn(tree, t)
  BY DEF WrittenIn
<1> QED BY <1>1, <1>2 DEF Known, Declared, Mentioned

LEMMA PositionsStay ==
  ASSUME Walked, TypedBefore, Calm, AtPositions, Complete
  PROVE  AtPositions' /\ Complete'
<1>1. stack # <<>> /\ tree' = tree
  BY DEF Calm
<1>2. ASSUME NEW q \in DOMAIN types' PROVE PositionIn(tree, q) /\ Len(q) >= 3
  <2>1. CASE q \in DOMAIN types
    BY <2>1 DEF AtPositions
  <2>2. CASE Node.op \in Expressions /\ q = Top.at
    BY <1>1, <2>2, ClassIsThere
  <2> QED BY <2>1, <2>2, TypesGo
<1>3. ASSUME NEW q, PositionIn(tree, q), Len(q) >= 3, Over(q)' PROVE q \in DOMAIN types'
  <2>1. CASE Over(q)
    <3>1. q \in DOMAIN types
      BY <1>3, <2>1 DEF Complete
    <3> QED BY <3>1, TypesGo
  <2>2. CASE LeavesCalmly /\ q = Top.at
    <3>1. PICK n : n = Len(stack) /\ n \in Nat /\ Len(Top.at) = n - 1
      BY <1>1, TopIs DEF Walked
    <3>2. n - 1 >= 3
      BY <1>3, <2>2, <3>1
    <3>3. n # 1 /\ n # 2 /\ n # 3
      BY <3>1, <3>2
    <3>4. Node.op \in LevelOps(n)
      BY <1>1, <3>1, TopIs DEF Walked
    <3>5. Node.op \in Expressions
      BY <3>3, <3>4 DEF LevelOps
    <3> QED BY <2>2, <3>5, TypesGo
  <2> QED BY <1>3, <2>1, <2>2, OverBack
<1> QED BY <1>1, <1>2, <1>3 DEF AtPositions, Complete

LEMMA TypesStayKnown ==
  ASSUME SInv, RInv, RInv', WellParsed, Sound, Calm
  PROVE  AllKnown'
<1>1. stack # <<>> /\ UNCHANGED <<tree, table>> /\ Walked /\ TypedBefore /\ errors = {} /\ errors' = {}
  BY DEF Calm, SInv, RInv
<1>2. ASSUME NEW q \in DOMAIN types' PROVE Known(types'[q])
  <2>1. CASE q \in DOMAIN types
    <3>1. Known(types[q])
      BY <2>1 DEF Sound, AllKnown
    <3>2. types'[q] = types[q]
      BY <1>1, <2>1, TypesGo
    <3> QED BY <3>1, <3>2
  <2>2. CASE LeavesCalmly /\ Node.op \in Expressions /\ q = Top.at
    <3>1. PICK v : Sets(q, v)
      BY <2>2 DEF LeavesCalmly
    <3>2. types'[q] = v
      BY <3>1 DEF Sets
    <3>3. \A i : Append(q, i) # q
      BY <1>1, <2>2, TopIsNew
    <3>4. \A i : TypeAt(Append(q, i))' = TypeAt(Append(q, i))
      BY <3>1, <3>3 DEF Sets, TypeAt
    <3>5. Derives(q, v)'
      <4>1. ~ Faulted(q)'
        BY <1>1 DEF Faulted
      <4>2. Derives(q, types[q])'
        BY <1>2, <4>1 DEF RInv, TypedRightly
      <4> QED BY <3>2, <4>2
    <3>6. Derives(q, v)
      BY <1>1, <3>4, <3>5, DerivesStays
    <3>7. Visited /\ Derives(Top.at, v)
      BY <2>2, <3>6 DEF LeavesCalmly
    <3>8. Known(v)
      BY <1>1, <2>2, <3>7, DerivesKnown
    <3> QED BY <3>2, <3>8
  <2> QED BY <1>1, <2>1, <2>2, TypesGo
<1>3. \A t : Known(t)' <=> Known(t)
  BY <1>1, KnownStays
<1> QED BY <1>2, <1>3 DEF AllKnown

(* A member is looked at when its visit starts, and a method's result when *)
(* its visit ends.                                                         *)
LEMMA SeenStays ==
  ASSUME Walked, Calm, MembersSeen
  PROVE  MembersSeen'
<1>1. PICK s, t, n : s = stack /\ t = stack' /\ n = Len(s)
  OBVIOUS
<1>2. /\ s # <<>> /\ SpinesOf(tree, s) /\ Top = s[n] /\ UNCHANGED <<tree, table>>
      /\ n \in DOMAIN s
  <2>1. s # <<>> /\ SpinesOf(tree, s) /\ Top = s[n] /\ UNCHANGED <<tree, table>>
    BY <1>1, SpineIs, TopIs DEF Calm, Walked
  <2> QED BY <1>1, <2>1, LastIsFrame
<1>3. n \in Nat \ {0} /\ DOMAIN s = 1 .. n /\ \A j \in DOMAIN s : s[j].next \in Nat \ {0}
  BY <1>1, <1>2, FrameIs
<1>4. \A p : NodeAt(p)' = NodeAt(p)
  BY <1>2, TreeStays
<1>5. \A e : Declared(e)' <=> Declared(e)
  BY <1>2, KnownStays
<1> DEFINE Seen(f) == NodeAt(f.at).op \in {"field", "method"} /\ f.next > 1 => Declared(NodeAt(f.at))
<1>6. \A j \in DOMAIN s : Seen(s[j])
  BY <1>1 DEF MembersSeen
<1>7. SUFFICES \A j \in DOMAIN t : Seen(t[j])
  BY <1>1, <1>4, <1>5 DEF MembersSeen
<1> HIDE DEF Seen
<1>8. CASE EntersCalmly
  <2>1. Entered(s, t)
    BY <1>1, <1>2, <1>8, EnteredIs DEF EntersCalmly
  <2>2. /\ DOMAIN t = 1 .. n + 1 /\ \A j \in 1 .. n - 1 : t[j] = s[j]
        /\ t[n].at = s[n].at /\ t[n].next = s[n].next + 1 /\ t[n + 1].next = 1
    <3>1. /\ t \in Seq(Frame) /\ Len(t) = n + 1 /\ \A j \in 1 .. n - 1 : t[j] = s[j]
          /\ t[n].at = s[n].at /\ t[n].next = s[n].next + 1 /\ t[Len(t)].next = 1
      BY <1>1, <2>1 DEF Entered
    <3> QED BY <1>3, <3>1
  <2>3. Seen(t[n])
    <3>1. CASE s[n].next = 1
      <4>1. Arriving /\ NodeAt(t[n].at) = Node
        BY <1>2, <2>2, <3>1 DEF Arriving, Node
      <4> QED BY <1>8, <4>1 DEF EntersCalmly, Seen
    <3>2. CASE s[n].next # 1
      <4>1. s[n].next > 1
        BY <1>2, <1>3, <3>2
      <4> QED BY <1>2, <1>6, <2>2, <4>1 DEF Seen
    <3> QED BY <3>1, <3>2
  <2>4. Seen(t[n + 1])
    <3>1. ~ (t[n + 1].next > 1)
      BY <2>2
    <3> QED BY <3>1 DEF Seen
  <2>5. \A j \in 1 .. n - 1 : Seen(t[j])
    BY <1>3, <1>6, <2>2
  <2>6. \A j \in 1 .. n + 1 : j = n \/ j = n + 1 \/ j \in 1 .. n - 1
    BY <1>3
  <2> QED BY <2>2, <2>3, <2>4, <2>5, <2>6
<1>9. CASE LeavesCalmly
  <2>1. Left(s, t)
    BY <1>1, <1>2, <1>9, LeaveIs DEF LeavesCalmly, Walked
  <2>2. t \in Seq(Frame) /\ Len(t) = n - 1 /\ \A j \in 1 .. Len(t) : t[j] = s[j]
    BY <1>1, <2>1 DEF Left
  <2>3. \A j \in DOMAIN t : j \in DOMAIN s /\ t[j] = s[j]
    BY <1>3, <2>2
  <2> QED BY <1>6, <2>3
<1> QED BY <1>8, <1>9 DEF Calm

LEMMA FitsStays ==
  ASSUME Walked, TypedBefore, Calm, NEW q, MemberFits(q)
  PROVE  MemberFits(q)'
<1>1. UNCHANGED <<tree, table>>
  BY DEF Calm
<1>2. PICK e, r : e = NodeAt(q) /\ r = Append(q, 1)
  OBVIOUS
<1>3. NodeAt(q)' = e
  BY <1>1, <1>2, TreeStays
<1>4. Declared(e)' /\ \A a, b : Fits(a, b)' <=> Fits(a, b)
  BY <1>1, <1>2, KnownStays, RulesStay DEF MemberFits
<1>5. ASSUME e.op = "method" PROVE Fits(TypeAt(r), e.type)'
  <2>1. Fits(TypeAt(r), e.type)
    BY <1>2, <1>5 DEF MemberFits
  <2>2. r \in DOMAIN types
    BY <2>1 DEF Fits, TypeAt
  <2>3. TypeAt(r)' = TypeAt(r)
    BY <2>2, TypesGo DEF TypeAt
  <2> QED BY <1>4, <2>1, <2>3
<1> QED BY <1>2, <1>3, <1>4, <1>5 DEF MemberFits

LEMMA MemberEnds ==
  ASSUME Walked, Sound, LeavesCalmly, stack # <<>>, Len(Top.at) = 2
  PROVE  MemberFits(Top.at)
<1>1. PICK s, n, p : s = stack /\ n = Len(s) /\ p = Top.at
  OBVIOUS
<1>2. /\ SpinesOf(tree, s) /\ Top = s[n] /\ n \in DOMAIN s /\ tree \in Trees
      /\ PositionIn(tree, p) /\ n \in Nat /\ Len(p) = n - 1 /\ Node.op \in LevelOps(n)
      /\ TreeTable(table) /\ Node = NodeAt(p) /\ s # <<>>
  BY <1>1, SpineIs, TopIs, TableIsTreeTable DEF Walked, OfATree, Node
<1>3. n = 3
  <2>1. Len(p) = 2
    BY <1>1
  <2>2. n - 1 = 2 /\ n \in Nat
    BY <1>2, <2>1
  <2> QED BY <2>2
<1>4. Node.op \in {"field", "method"}
  BY <1>2, <1>3 DEF LevelOps
<1>5. Declared(Node)
  <2>1. CASE Arriving
    BY <1>4, <2>1 DEF LeavesCalmly
  <2>2. CASE ~ Arriving
    <3>1. Top.next \in Nat \ {0} /\ Top.next # 1
      BY <2>2, NodeShape DEF Arriving
    <3>2. s[n].next > 1
      BY <1>2, <3>1
    <3> QED BY <1>1, <1>2, <1>4, <3>2 DEF Sound, MembersSeen, Node
  <2> QED BY <2>1, <2>2
<1>6. ASSUME Node.op = "method" PROVE Fits(TypeAt(Append(p, 1)), Node.type)
  <2>1. Kids \in {1} /\ Top.next \in Nat
    BY <1>6, NodeShape DEF Counts
  <2>2. Top.next > 1 /\ 1 \in DOMAIN Node.kids
    <3>1. Node.kids \in Seq(NodesOf(tree)) /\ Len(Node.kids) = 1
      BY <2>1, NodeShape DEF Kids
    <3>2. Top.next > Kids
      BY DEF LeavesCalmly, Visited
    <3> QED BY <2>1, <3>1, <3>2
  <2>3. PastOf(s, Append(p, 1))
    <3>1. 1 < s[Len(s)].next
      BY <1>1, <1>2, <2>1, <2>2
    <3> QED BY <1>1, <1>2, <3>1, KidIsPast
  <2>4. PositionIn(tree, Append(p, 1))
    BY <1>1, <1>2, <2>2, KidIs DEF NodeAt
  <2>5. Len(Append(p, 1)) >= 3
    <3>1. p \in Seq(Nat)
      BY <1>2 DEF PositionIn
    <3>2. Len(Append(p, 1)) = Len(p) + 1
      BY <3>1
    <3>3. Len(p) = 2
      BY <1>1
    <3> QED BY <3>2, <3>3
  <2>6. Append(p, 1) \in DOMAIN types
    BY <1>1, <2>3, <2>4, <2>5 DEF Sound, Complete, Over, Past
  <2>7. Known(types[Append(p, 1)])
    BY <2>6 DEF Sound, AllKnown
  <2>8. Kid(1) = TypeAt(Append(p, 1)) /\ TypeAt(Append(p, 1)) # Undefined
    BY <1>1, <2>6, <2>7 DEF Kid, TypeAt, Known
  <2>9. Conforms(TypeAt(Append(p, 1)), Node.type)
    BY <1>6, <2>8 DEF LeavesCalmly
  <2> QED BY <1>2, <2>9, ConformsIsFits
<1> QED BY <1>1, <1>2, <1>5, <1>6 DEF MemberFits

LEMMA DoneStays ==
  ASSUME Walked, TypedBefore, Sound, Calm
  PROVE  MembersDone'
<1>1. stack # <<>> /\ tree' = tree
  BY DEF Calm
<1>2. ASSUME NEW q, PositionIn(tree, q), Len(q) = 2, Over(q)' PROVE MemberFits(q)'
  <2>1. Over(q) \/ (LeavesCalmly /\ q = Top.at)
    BY <1>2, OverBack
  <2>2. MemberFits(q)
    BY <1>1, <1>2, <2>1, MemberEnds DEF Sound, MembersDone
  <2> QED BY <2>2, FitsStays
<1> QED BY <1>1, <1>2 DEF MembersDone

LEMMA SoundStays ==
  ASSUME SInv, RInv, RInv', WellParsed, Sound, Next, errors' = {}
  PROVE  Sound'
<1>1. Walked /\ TypedBefore /\ Calm
  BY CalmIs DEF SInv, RInv
<1>2. AtPositions' /\ Complete'
  BY <1>1, PositionsStay DEF Sound
<1>3. AllKnown'
  BY <1>1, TypesStayKnown
<1>4. MembersSeen'
  BY <1>1, SeenStays DEF Sound
<1>5. MembersDone'
  BY <1>1, DoneStays
<1> QED BY <1>2, <1>3, <1>4, <1>5 DEF Sound

LEMMA InitSound ==
  ASSUME Init
  PROVE  AInv
<1>1. types = <<>> /\ DOMAIN types = {} /\ tree \in Trees
  BY DEF Init
<1>2. DOMAIN stack = {1} /\ stack[1].next = 1 /\ Len(stack) = 1 /\ stack # <<>>
  BY DEF Init
<1>3. ASSUME NEW q, PositionIn(tree, q), Over(q) PROVE FALSE
  <2>1. 1 <= Len(q) /\ q[1] < 1
    BY <1>2, <1>3 DEF Over, Past, PastOf
  <2>2. 1 \in 1 .. Len(q)
    <3>1. Len(q) \in Nat
      BY <1>3 DEF PositionIn
    <3> QED BY <2>1, <3>1
  <2>3. q[1] \in Nat \ {0}
    BY <1>1, <1>3, <2>2, PositionIs
  <2> QED BY <2>1, <2>3
<1>4. MembersSeen
  BY <1>2 DEF MembersSeen
<1>5. Sound
  BY <1>1, <1>3, <1>4 DEF Sound, AtPositions, Complete, AllKnown, MembersDone
<1> QED BY <1>5 DEF AInv

LEMMA SoundUnchanged ==
  ASSUME Sound, UNCHANGED vars
  PROVE  Sound'
<1>1. UNCHANGED <<tree, table, stack, types>>
  BY DEF vars
<1>2. \A p : NodeAt(p)' = NodeAt(p) /\ TypeAt(p)' = TypeAt(p)
  BY <1>1, TreeStays DEF TypeAt
<1>3. /\ \A t : Known(t)' <=> Known(t)
      /\ \A e : Declared(e)' <=> Declared(e)
      /\ \A a, b : Fits(a, b)' <=> Fits(a, b)
  BY <1>1, KnownStays, RulesStay
<1>4. \A p : (Over(p)' <=> Over(p)) /\ (MemberFits(p)' <=> MemberFits(p))
  BY <1>1, <1>2, <1>3 DEF Over, Past, PastOf, MemberFits
<1>5. AtPositions' /\ Complete' /\ MembersDone'
  BY <1>1, <1>4 DEF Sound, AtPositions, Complete, MembersDone
<1>6. AllKnown'
  BY <1>1, <1>3 DEF Sound, AllKnown
<1>7. MembersSeen'
  <2>1. PICK s : s = stack /\ s = stack'
    BY <1>1
  <2>2. \A j \in DOMAIN s :
          NodeAt(s[j].at).op \in {"field", "method"} /\ s[j].next > 1 => Declared(NodeAt(s[j].at))
    BY <2>1 DEF Sound, MembersSeen
  <2>3. \A j \in DOMAIN s :
          NodeAt(s[j].at)'.op \in {"field", "method"} /\ s[j].next > 1 => Declared(NodeAt(s[j].at))'
    BY <1>2, <1>3, <2>2
  <2> QED BY <2>1, <2>3 DEF MembersSeen
<1> QED BY <1>5, <1>6, <1>7 DEF Sound

LEMMA AInvStays ==
  ASSUME SInv, RInv, AInv, [Next]_vars
  PROVE  AInv'
<1> SUFFICES ASSUME errors' = {}, WellParsed' PROVE Sound'
  BY DEF AInv
<1>1. RInv'
  BY RInvStays
<1>2. CASE Next
  <2>1. Calm
    BY <1>2, CalmIs DEF SInv
  <2>2. errors = {} /\ tree' = tree
    BY <2>1 DEF Calm
  <2>3. WellParsed
    BY <2>2 DEF WellParsed, Mentioned
  <2> QED BY <1>1, <1>2, <2>2, <2>3, SoundStays DEF AInv
<1>3. CASE UNCHANGED vars
  <2>1. errors = {} /\ tree' = tree
    BY <1>3 DEF vars
  <2>2. WellParsed
    BY <2>1 DEF WellParsed, Mentioned
  <2> QED BY <1>3, <2>1, <2>2, SoundUnchanged DEF AInv
<1> QED BY <1>2, <1>3

LEMMA OneMore ==
  ASSUME NEW s \in Seq(Nat), NEW x \in Nat, NEW t \in Seq(Nat), Len(t) = Len(s) + 1,
         t[Len(t)] = x, \A i \in 1 .. Len(s) : t[i] = s[i]
  PROVE  Append(s, x) = t
<1> DEFINE a == Append(s, x)
<1>1. a \in Seq(Nat) /\ Len(a) = Len(s) + 1 /\ Len(s) \in Nat /\ a[Len(s) + 1] = x
  OBVIOUS
<1>2. \A i \in 1 .. Len(s) : a[i] = s[i]
  OBVIOUS
<1> HIDE DEF a
<1>3. \A i \in 1 .. Len(a) : i = Len(s) + 1 \/ i \in 1 .. Len(s)
  BY <1>1
<1>4. \A i \in 1 .. Len(a) : a[i] = t[i]
  BY <1>1, <1>2, <1>3
<1>5. a = t
  BY <1>1, <1>4, SeqEqual
<1> QED BY <1>5 DEF a

LEMMA StepByStep ==
  ASSUME NEW c \in Nat, NEW i \in Nat
  PROVE  /\ Append(<<>>, c) = <<c>> /\ Append(<<c>>, i) = <<c, i>>
         /\ Append(<<c, i>>, 1) = <<c, i, 1>>
<1>1. PICK r, s, t, u : r = <<>> /\ s = <<c>> /\ t = <<c, i>> /\ u = <<c, i, 1>>
  OBVIOUS
<1>2. /\ r \in Seq(Nat) /\ Len(r) = 0
      /\ s \in Seq(Nat) /\ Len(s) = 1 /\ s[1] = c
  BY <1>1
<1>3. t \in Seq(Nat) /\ Len(t) = 2 /\ t[1] = c /\ t[2] = i
  BY <1>1
<1>4. u \in Seq(Nat) /\ Len(u) = 3 /\ u[1] = c /\ u[2] = i /\ u[3] = 1
  BY <1>1
<1>5. Append(r, c) = s
  BY <1>2, OneMore
<1>6. Append(s, i) = t
  <2>1. Len(t) = Len(s) + 1 /\ t[Len(t)] = i
    BY <1>2, <1>3
  <2>2. \A k \in 1 .. Len(s) : k = 1
    BY <1>2
  <2>3. \A k \in 1 .. Len(s) : t[k] = s[k]
    BY <1>2, <1>3, <2>2
  <2> QED BY <1>2, <1>3, <2>1, <2>3, OneMore
<1>7. Append(t, 1) = u
  <2>1. Len(u) = Len(t) + 1 /\ u[Len(u)] = 1
    BY <1>3, <1>4
  <2>2. \A k \in 1 .. Len(t) : k = 1 \/ k = 2
    BY <1>3
  <2>3. \A k \in 1 .. Len(t) : u[k] = t[k]
    BY <1>3, <1>4, <2>2
  <2> QED BY <1>3, <1>4, <2>1, <2>3, OneMore
<1> QED BY <1>1, <1>5, <1>6, <1>7

LEMMA MemberAt ==
  ASSUME NEW root \in Trees, NEW c \in DOMAIN root.kids, NEW i \in DOMAIN root.kids[c].kids
  PROVE  /\ PositionIn(root, <<c, i>>) /\ NodeIn(root, <<c, i>>) = root.kids[c].kids[i]
         /\ c \in Nat /\ i \in Nat /\ Append(<<c, i>>, 1) = <<c, i, 1>>
         /\ root.kids[c].kids[i].kids \in Seq(NodesOf(root))
<1>1. PositionIn(root, <<>>) /\ NodeIn(root, <<>>) = root
  BY RootIs
<1>2. root.kids \in Seq(NodesOf(root))
  BY TreesAssumption
<1>3. c \in Nat
  BY <1>2
<1>4. PositionIn(root, <<c>>) /\ NodeIn(root, <<c>>) = root.kids[c]
  <2>1. Append(<<>>, c) = <<c>>
    BY <1>3, StepByStep
  <2>2. c \in DOMAIN NodeIn(root, <<>>).kids
    BY <1>1
  <2>3. /\ PositionIn(root, Append(<<>>, c))
        /\ NodeIn(root, Append(<<>>, c)) = NodeIn(root, <<>>).kids[c]
    BY <1>1, <2>2, KidIs
  <2> QED BY <1>1, <2>1, <2>3
<1>5. root.kids[c].kids \in Seq(NodesOf(root))
  BY <1>4, NodeIs
<1>6. i \in Nat /\ Append(<<c>>, i) = <<c, i>> /\ Append(<<c, i>>, 1) = <<c, i, 1>>
  <2>1. i \in Nat
    BY <1>5
  <2> QED BY <1>3, <2>1, StepByStep
<1>7. PositionIn(root, <<c, i>>) /\ NodeIn(root, <<c, i>>) = root.kids[c].kids[i]
  <2>1. i \in DOMAIN NodeIn(root, <<c>>).kids
    BY <1>4
  <2>2. /\ PositionIn(root, Append(<<c>>, i))
        /\ NodeIn(root, Append(<<c>>, i)) = NodeIn(root, <<c>>).kids[i]
    BY <1>4, <2>1, KidIs
  <2> QED BY <1>4, <1>6, <2>2
<1>8. root.kids[c].kids[i].kids \in Seq(NodesOf(root))
  BY <1>7, NodeIs
<1> QED BY <1>3, <1>6, <1>7, <1>8

LEMMA SoundIsTyped ==
  ASSUME SInv, RInv, AInv
  PROVE  AcceptedIsTyped
<1> SUFFICES ASSUME Accepted, WellParsed
             PROVE  /\ \A path \in DOMAIN types :
                         /\ \A k \in DOMAIN NodeAt(path).kids : Append(path, k) \in DOMAIN types
                         /\ Exists(types[path]) /\ types[path] # Undefined
                         /\ NodeAt(path).op = "let" => Exists(NodeAt(path).type)
                    /\ \A c \in DOMAIN tree.kids : \A i \in DOMAIN tree.kids[c].kids :
                         LET member == tree.kids[c].kids[i] IN
                           /\ \A t \in Mentioned(member) : Exists(t)
                           /\ member.kids # <<>> => <<c, i, 1>> \in DOMAIN types
                           /\ member.op = "method" => Fits(types[<<c, i, 1>>], member.type)
  BY DEF AcceptedIsTyped
<1>1. stack = <<>> /\ errors = {} /\ Sound /\ tree \in Trees
  BY DEF Accepted, Done, AInv, SInv, Walked, OfATree
<1>2. \A q : PositionIn(tree, q) /\ Len(q) >= 3 => q \in DOMAIN types
  BY <1>1 DEF Sound, Complete, Over
<1>3. \A q : PositionIn(tree, q) /\ Len(q) = 2 => MemberFits(q)
  BY <1>1 DEF Sound, MembersDone, Over
<1>4. ASSUME NEW c \in DOMAIN tree.kids, NEW i \in DOMAIN tree.kids[c].kids, NEW m,
             m = tree.kids[c].kids[i]
      PROVE  Declared(m) /\ (m.op = "method" => Fits(TypeAt(<<c, i, 1>>), m.type))
  <2>1. PositionIn(tree, <<c, i>>) /\ NodeAt(<<c, i>>) = m /\ Append(<<c, i>>, 1) = <<c, i, 1>>
    BY <1>1, <1>4, MemberAt DEF NodeAt
  <2>2. MemberFits(<<c, i>>)
    BY <1>3, <2>1
  <2> QED BY <2>1, <2>2 DEF MemberFits
<1>5. ASSUME NEW t, WrittenIn(tree, t) PROVE Exists(t)
  <2>1. PICK c \in DOMAIN tree.kids :
          \E j \in DOMAIN tree.kids[c].kids : t = tree.kids[c].kids[j].type
    BY <1>5 DEF WrittenIn
  <2>2. PICK i \in DOMAIN tree.kids[c].kids : t = tree.kids[c].kids[i].type
    BY <2>1
  <2>3. Declared(tree.kids[c].kids[i])
    BY <1>4
  <2> QED BY <2>2, <2>3 DEF Declared, Mentioned
<1>6. ASSUME NEW path \in DOMAIN types
      PROVE  /\ \A k \in DOMAIN NodeAt(path).kids : Append(path, k) \in DOMAIN types
             /\ Exists(types[path]) /\ types[path] # Undefined
             /\ NodeAt(path).op = "let" => Exists(NodeAt(path).type)
  <2>1. PositionIn(tree, path) /\ Len(path) >= 3
    BY <1>1 DEF Sound, AtPositions
  <2>2. ASSUME NEW k \in DOMAIN NodeAt(path).kids PROVE Append(path, k) \in DOMAIN types
    <3>1. PositionIn(tree, Append(path, k))
      BY <1>1, <2>1, KidIs DEF NodeAt
    <3>2. NodeAt(path).kids \in Seq(NodesOf(tree)) /\ path \in Seq(Nat)
      BY <1>1, <2>1, NodeIs DEF NodeAt, PositionIn
    <3>3. k \in Nat
      BY <3>2
    <3>4. Len(Append(path, k)) = Len(path) + 1 /\ Len(path) \in Nat
      BY <3>2, <3>3
    <3>5. Len(Append(path, k)) >= 3
      BY <2>1, <3>4
    <3> QED BY <1>2, <3>1, <3>5
  <2>3. Known(types[path])
    BY <1>1 DEF Sound, AllKnown
  <2>4. Exists(types[path]) /\ types[path] # Undefined
    BY <1>5, <2>3 DEF Known
  <2>5. ASSUME NodeAt(path).op = "let" PROVE Exists(NodeAt(path).type)
    <3>1. ~ Faulted(path)
      BY <1>1 DEF Faulted
    <3>2. Derives(path, types[path])
      BY <3>1 DEF RInv, TypedRightly
    <3> QED BY <2>5, <3>2 DEF Derives
  <2> QED BY <2>2, <2>4, <2>5
<1>7. ASSUME NEW c \in DOMAIN tree.kids, NEW i \in DOMAIN tree.kids[c].kids, NEW m,
             m = tree.kids[c].kids[i]
      PROVE  /\ \A t \in Mentioned(m) : Exists(t)
             /\ m.kids # <<>> => <<c, i, 1>> \in DOMAIN types
             /\ m.op = "method" => Fits(types[<<c, i, 1>>], m.type)
  <2>1. Declared(m) /\ (m.op = "method" => Fits(TypeAt(<<c, i, 1>>), m.type))
    BY <1>4, <1>7
  <2>2. ASSUME m.kids # <<>> PROVE <<c, i, 1>> \in DOMAIN types
    <3>1. /\ PositionIn(tree, <<c, i>>) /\ NodeIn(tree, <<c, i>>) = m
          /\ Append(<<c, i>>, 1) = <<c, i, 1>> /\ m.kids \in Seq(NodesOf(tree))
      BY <1>1, <1>7, MemberAt
    <3>2. 1 \in DOMAIN m.kids
      BY <2>2, <3>1
    <3>3. PositionIn(tree, <<c, i, 1>>)
      BY <1>1, <3>1, <3>2, KidIs
    <3>4. Len(<<c, i, 1>>) >= 3
      OBVIOUS
    <3> QED BY <1>2, <3>3, <3>4
  <2>3. ASSUME m.op = "method" PROVE Fits(types[<<c, i, 1>>], m.type)
    <3>1. Fits(TypeAt(<<c, i, 1>>), m.type)
      BY <2>1, <2>3
    <3>2. TypeAt(<<c, i, 1>>) = types[<<c, i, 1>>]
      BY <3>1 DEF Fits, TypeAt
    <3> QED BY <3>1, <3>2
  <2> QED BY <2>1, <2>2, <2>3 DEF Declared
<1> QED BY <1>6, <1>7

(* types_visitor.cpp: a tree without types that the parser left undefined, *)
(* and that the visitor accepted, is what the code generator takes for     *)
(* granted.  Every expression has a type, and one that exists; the types   *)
(* that members and lets mention exist; and the body of a method conforms  *)
(* to its result.                                                          *)
THEOREM AcceptedIsAlwaysTyped == Spec => []AcceptedIsTyped
<1>1. Init => SInv /\ RInv /\ AInv
  BY InitWalked, InitRight, InitSound
<1>2. SInv /\ RInv /\ AInv /\ [Next]_vars => (SInv /\ RInv /\ AInv)'
  BY SInvStays, RInvStays, AInvStays
<1>3. SInv /\ RInv /\ AInv => AcceptedIsTyped
  BY SoundIsTyped
<1> QED BY <1>1, <1>2, <1>3, PTL DEF Spec
-----------------------------------------------------------------------------
(* What a step sees, whatever has been reported: a member's types when its  *)
(* visit starts, its result when it ends, the name of an assignment before *)
(* its value.  A visit is over when its children are, but for this one.    *)
Member(e) == e.op \in {"field", "method"}

EntersSeeing(faults) ==
  /\ Enter /\ ~ Visited /\ UNCHANGED types
  /\ Node.op = "assign" => ~ Aimless(Top.at)
  /\ Member(Node) => (faults # {} <=> Arriving /\ Undeclared(Node))

LeavesSeeing(faults) ==
  /\ Leave
  /\ Visited \/ (Arriving /\ Aimless(Top.at))
  /\ Node.op \in Expressions => \E v : Sets(Top.at, v)
  /\ Node.op \notin Expressions => UNCHANGED types
  /\ Node.op = "field" => (faults # {} <=> Arriving /\ Undeclared(Node))
  /\ Node.op = "method" => (faults # {} <=> Unfit(Node, Kid(1)))

Seeing(faults) ==
  /\ stack # <<>> /\ UNCHANGED <<tree, table>> /\ Report(faults)
  /\ EntersSeeing(faults) \/ LeavesSeeing(faults)

(* The children of what is over are typed, and so are those that are over  *)
(* of what is being visited, unless they are the values of such names.     *)
IsOver(path) ==
  PositionIn(tree, path) /\ (path \in DOMAIN types \/ (Len(path) = 2 /\ Over(path)))

AllTyped ==
  \A path : IsOver(path) => \A k \in DOMAIN NodeAt(path).kids :
    Append(path, k) \in DOMAIN types <=> ~ Aimless(path)

KidsTyped ==
  \A j \in DOMAIN stack : j >= 3 => \A k \in DOMAIN NodeAt(stack[j].at).kids :
    Past(Append(stack[j].at, k)) => Append(stack[j].at, k) \in DOMAIN types

Aimed ==
  \A j \in DOMAIN stack :
    NodeAt(stack[j].at).op = "assign" /\ stack[j].next > 1 => ~ Aimless(stack[j].at)

MembersNoted ==
  \A j \in DOMAIN stack : LET e == NodeAt(stack[j].at) IN
    Member(e) => (Faulted(stack[j].at) <=> stack[j].next > 1 /\ Undeclared(e))

Judged(path) == LET e == NodeAt(path) IN
  Faulted(path) <=> Undeclared(e) \/ Unfit(e, TypeAt(Append(path, 1)))

MembersJudged ==
  \A path : PositionIn(tree, path) /\ Len(path) = 2 /\ Over(path) => Judged(path)

EInv == AtPositions /\ AllTyped /\ KidsTyped /\ Aimed /\ MembersNoted /\ MembersJudged

LEMMA IfIs ==
  ASSUME NEW condition, NEW fault
  PROVE  If(condition, fault) # {} <=> condition
BY DEF If

LEMMA FieldUndeclared ==
  ASSUME Walked, stack # <<>>, Node.op = "field"
  PROVE  Undeclared(Node) <=> ~ Exists(Node.type)
<1>1. Node.formals = <<>>
  BY NodeShape DEF Shaped
<1>2. Mentioned(Node) = {Node.type}
  BY <1>1 DEF Mentioned
<1> QED BY <1>2 DEF Undeclared

LEMMA EndsSeeing ==
  ASSUME Walked, stack # <<>>, NEW faults, NEW t, Finish(faults, t),
         Node.op \in Expressions, Visited \/ (Arriving /\ Aimless(Top.at))
  PROVE  Seeing(faults)
<1>1. Report(faults) /\ Sets(Top.at, t) /\ Leave /\ UNCHANGED <<tree, table>>
  BY DEF Finish, SetType, Sets
<1>2. Node.op # "field" /\ Node.op # "method"
  BY DEF Expressions
<1> QED BY <1>1, <1>2 DEF Seeing, LeavesSeeing

LEMMA MembersSeeing ==
  ASSUME Walked, VisitProgram \/ VisitClass \/ VisitField \/ StartMethod \/ EndMethod \/ VisitKid
  PROVE  \E faults : Seeing(faults)
<1>1. CASE VisitProgram \/ VisitClass \/ VisitKid
  <2>1. /\ stack # <<>> /\ UNCHANGED <<tree, table, types>> /\ Report({})
        /\ (Visited /\ Leave /\ Node.op \notin Expressions) \/ (~ Visited /\ Enter)
        /\ Node.op \notin {"field", "method", "assign"}
    BY <1>1, NothingReported
       DEF VisitProgram, VisitClass, VisitKid, At, EnterOrLeave, Plain, Expressions
  <2>2. Seeing({})
    BY <2>1 DEF Seeing, EntersSeeing, LeavesSeeing, Member
  <2> QED BY <2>2
<1>2. CASE VisitField
  <2>1. PICK faults : faults = If(Arriving /\ ~ Exists(Node.type), "undefined type")
    OBVIOUS
  <2>2. /\ stack # <<>> /\ UNCHANGED <<tree, table, types>> /\ Node.op = "field"
        /\ IF Visited THEN Leave ELSE Enter
        /\ Report(faults)
    BY <1>2, <2>1 DEF VisitField, At, EnterOrLeave
  <2>3. faults # {} <=> Arriving /\ Undeclared(Node)
    BY <2>1, <2>2, IfIs, FieldUndeclared
  <2>4. Node.op \notin Expressions
    BY <2>2 DEF Expressions
  <2>5. Seeing(faults)
    BY <2>2, <2>3, <2>4 DEF Seeing, EntersSeeing, LeavesSeeing, Member
  <2> QED BY <2>5
<1>3. CASE StartMethod
  <2> DEFINE wrong == \/ ~ Exists(Node.type)
                      \/ \E i \in DOMAIN Node.formals : ~ Exists(Node.formals[i].type)
  <2>1. PICK faults : faults = If(wrong, "undefined type")
    OBVIOUS
  <2>2. /\ stack # <<>> /\ UNCHANGED <<tree, table, types>> /\ Node.op = "method"
        /\ Enter /\ Arriving /\ Report(faults)
    BY <1>3, <2>1 DEF StartMethod, At
  <2>3. wrong <=> Undeclared(Node)
    BY DEF Undeclared, Mentioned
  <2> HIDE DEF wrong
  <2>4. faults # {} <=> Undeclared(Node)
    BY <2>1, <2>3 DEF If
  <2>5. Kids \in {1} /\ Top.next = 1
    BY <2>2, NodeShape DEF Counts, Arriving
  <2>6. ~ Visited
    BY <2>5 DEF Visited
  <2>7. Seeing(faults)
    BY <2>2, <2>4, <2>6 DEF Seeing, EntersSeeing
  <2> QED BY <2>7
<1>4. CASE EndMethod
  <2> DEFINE wrong == Kid(1) # Undefined /\ ~ Conforms(Kid(1), Node.type)
  <2>1. PICK faults : faults = If(wrong, "result")
    OBVIOUS
  <2>2. /\ stack # <<>> /\ UNCHANGED <<tree, table, types>> /\ Node.op = "method"
        /\ Leave /\ Visited /\ Report(faults)
    BY <1>4, <2>1 DEF EndMethod, At
  <2>3. TreeTable(table)
    BY TableIsTreeTable DEF Walked, OfATree
  <2>4. wrong <=> Unfit(Node, Kid(1))
    BY <2>2, <2>3, ConformsIsFits DEF Unfit
  <2> HIDE DEF wrong
  <2>5. faults # {} <=> Unfit(Node, Kid(1))
    BY <2>1, <2>4, IfIs
  <2>6. Node.op \notin Expressions
    BY <2>2 DEF Expressions
  <2>7. Seeing(faults)
    BY <2>2, <2>5, <2>6 DEF Seeing, LeavesSeeing
  <2> QED BY <2>7
<1> QED BY <1>1, <1>2, <1>3, <1>4

LEMMA NextSees ==
  ASSUME SInv, Next
  PROVE  \E faults : Seeing(faults)
<1>0. Walked
  BY DEF SInv
<1>1. CASE VisitProgram \/ VisitClass \/ VisitField \/ StartMethod \/ EndMethod \/ VisitKid
  BY <1>0, <1>1, MembersSeeing
<1>2. CASE VisitLiteral \/ VisitSelf \/ VisitNew \/ VisitVariable
  <2>1. /\ stack # <<>> /\ Node.op \in {"literal", "self", "new", "variable"}
        /\ \E faults, t : Finish(faults, t)
    BY <1>2 DEF VisitLiteral, VisitSelf, VisitNew, VisitVariable, At
  <2>2. Kids \in {0} /\ Top.next \in Nat \ {0}
    BY <1>0, <2>1, NodeShape DEF Counts
  <2>3. Visited
    BY <2>2 DEF Visited
  <2> QED BY <1>0, <2>1, <2>3, EndsSeeing DEF Expressions
<1>3. CASE EndBlock \/ EndIf \/ EndWhile \/ EndUnary \/ EndBinary \/ EndEqual
  <2>1. /\ stack # <<>> /\ Visited
        /\ Node.op \in {"block", "if", "while", "not", "minus", "isnull",
                        "arithmetic", "comparison", "and", "equal"}
        /\ \E faults, t : Finish(faults, t)
    BY <1>3 DEF EndBlock, EndIf, EndWhile, EndUnary, EndBinary, EndEqual, UnaryOf, BinaryOf, At
  <2> QED BY <1>0, <2>1, EndsSeeing DEF Expressions
<1>4. CASE EndCall
  <2>1. /\ stack # <<>> /\ Visited /\ Node.op = "call" /\ \E faults, t : Finish(faults, t)
    BY <1>4 DEF EndCall, At
  <2> QED BY <1>0, <2>1, EndsSeeing DEF Expressions
<1>5. CASE StartAssign
  <2>1. stack # <<>> /\ Node.op = "assign" /\ Arriving /\ Top.next = 1
    BY <1>5 DEF StartAssign, At, Arriving
  <2>2. Resolve(Node.name) = {} <=> Aimless(Top.at)
    BY <2>1, ResolveIsMeaning DEF Aimless, Node
  <2>3. CASE Resolve(Node.name) = {}
    <3>1. Finish({"undefined identifier"}, Object)
      BY <1>5, <2>3 DEF StartAssign
    <3> QED BY <1>0, <2>1, <2>2, <2>3, <3>1, EndsSeeing DEF Expressions
  <2>4. CASE Resolve(Node.name) # {}
    <3>1. Enter /\ UNCHANGED <<tree, table, types>> /\ Report({})
      BY <1>5, <2>4, NothingReported DEF StartAssign
    <3>2. Kids \in {1}
      BY <1>0, <2>1, NodeShape DEF Counts
    <3>3. ~ Visited /\ ~ Member(Node)
      BY <2>1, <3>2 DEF Visited, Member
    <3>4. Seeing({})
      BY <2>1, <2>2, <2>4, <3>1, <3>3 DEF Seeing, EntersSeeing
    <3> QED BY <3>4
  <2> QED BY <2>3, <2>4
<1>6. CASE EndAssign
  <2>1. /\ stack # <<>> /\ Visited /\ Node.op = "assign" /\ \E faults, t : Finish(faults, t)
    BY <1>6 DEF EndAssign, At
  <2> QED BY <1>0, <2>1, EndsSeeing DEF Expressions
<1>7. CASE StartLet \/ BindLet
  <2>1. PICK faults : Report(faults)
    BY <1>7 DEF StartLet, BindLet
  <2>2. /\ stack # <<>> /\ Node.op = "let" /\ Enter /\ UNCHANGED <<tree, table, types>>
        /\ (Top.next = 1 /\ Kids = 2) \/ Top.next = Kids
    BY <1>7 DEF StartLet, BindLet, At, Arriving
  <2>3. Kids \in Nat
    BY <1>0, <2>2, NodeShape
  <2>4. ~ Visited /\ ~ Member(Node)
    BY <2>2, <2>3 DEF Visited, Member
  <2>5. Seeing(faults)
    BY <2>1, <2>2, <2>4 DEF Seeing, EntersSeeing
  <2> QED BY <2>5
<1>8. CASE EndLet
  <2>1. /\ stack # <<>> /\ Node.op = "let" /\ Leave /\ UNCHANGED <<tree, table>>
        /\ Visited /\ Sets(Top.at, Kid(Kids)) /\ Report({})
    BY <1>8, NothingReported DEF EndLet, At, SetType, Sets
  <2>2. Node.op \in Expressions /\ Node.op # "field" /\ Node.op # "method"
    BY <2>1 DEF Expressions
  <2>3. Seeing({})
    BY <2>1, <2>2 DEF Seeing, LeavesSeeing
  <2> QED BY <2>3
<1> QED BY <1>1, <1>2, <1>3, <1>4, <1>5, <1>6, <1>7, <1>8 DEF Next

(* What such a step leaves of types, of reports, and of what was over.     *)
LEMMA SeenStaysTyped ==
  ASSUME Walked, TypedBefore, NEW faults, Seeing(faults)
  PROVE  /\ \A q \in DOMAIN types : q \in DOMAIN types' /\ types'[q] = types[q]
         /\ \A q \in DOMAIN types' :
              q \in DOMAIN types
                \/ (LeavesSeeing(faults) /\ Node.op \in Expressions /\ q = Top.at)
         /\ LeavesSeeing(faults) /\ Node.op \in Expressions => Top.at \in DOMAIN types'
         /\ \A q : q # Top.at => TypeAt(q)' = TypeAt(q)
<1>1. stack # <<>> /\ Top.at \notin DOMAIN types
  BY TopIsNew DEF Seeing
<1>2. CASE UNCHANGED types
  <2>1. ASSUME LeavesSeeing(faults), Node.op \in Expressions PROVE Top.at \in DOMAIN types'
    <3>1. PICK v : Sets(Top.at, v)
      BY <2>1 DEF LeavesSeeing
    <3> QED BY <3>1 DEF Sets
  <2> QED BY <1>2, <2>1 DEF TypeAt
<1>3. CASE ~ UNCHANGED types
  <2>1. LeavesSeeing(faults) /\ Node.op \in Expressions
    BY <1>3 DEF Seeing, EntersSeeing, LeavesSeeing
  <2>2. PICK v : Sets(Top.at, v)
    BY <2>1 DEF LeavesSeeing
  <2> QED BY <1>1, <2>1, <2>2 DEF Sets, TypeAt
<1> QED BY <1>2, <1>3

LEMMA WordsStay ==
  ASSUME UNCHANGED <<tree, table>>
  PROVE  /\ \A q : NodeAt(q)' = NodeAt(q) /\ (Aimless(q)' <=> Aimless(q))
         /\ \A e : Undeclared(e)' <=> Undeclared(e)
         /\ \A e, t : Unfit(e, t)' <=> Unfit(e, t)
<1>1. \A q : NodeAt(q)' = NodeAt(q)
  BY TreeStays
<1>2. /\ \A n, q : Meaning(n, q)' = Meaning(n, q)
      /\ \A a, b : Fits(a, b)' <=> Fits(a, b)
      /\ \A t : Exists(t)' <=> Exists(t)
  BY RulesStay
<1> QED BY <1>1, <1>2 DEF Aimless, Undeclared, Unfit, Mentioned

LEMMA StackIs ==
  ASSUME Walked, stack # <<>>, NEW s, NEW n, s = stack, n = Len(s)
  PROVE  /\ tree \in Trees /\ SpinesOf(tree, s) /\ Top = s[n] /\ n \in DOMAIN s
         /\ n \in Nat \ {0} /\ DOMAIN s = 1 .. n /\ s \in Seq(Frame)
         /\ PositionIn(tree, Top.at) /\ Top.at \in Seq(Nat) /\ Len(Top.at) = n - 1
         /\ Node = NodeAt(Top.at) /\ Node.op \in LevelOps(n)
<1>1. tree \in Trees /\ SpinesOf(tree, s) /\ Top = s[n] /\ Node.op \in LevelOps(n)
  BY SpineIs, TopIs DEF Walked, OfATree
<1>2. n \in DOMAIN s
  BY <1>1, LastIsFrame
<1> QED BY <1>1, <1>2, FrameIs DEF Node

LEMMA EarlyIsDeep ==
  ASSUME Walked, stack # <<>>, Aimless(Top.at)
  PROVE  Len(stack) > 3
<1>1. PICK s, n : s = stack /\ n = Len(s)
  OBVIOUS
<1>2. n \in Nat \ {0} /\ Node.op \in LevelOps(n) /\ Node.op = "assign"
  BY <1>1, StackIs DEF Aimless
<1>3. n # 1 /\ n # 2 /\ n # 3
  BY <1>2 DEF LevelOps
<1> QED BY <1>1, <1>2, <1>3

LEMMA SeenEnters ==
  ASSUME Walked, stack # <<>>, NEW faults, EntersSeeing(faults),
         NEW s, NEW t, NEW n, s = stack, t = stack', n = Len(s)
  PROVE  /\ Entered(s, t) /\ SpinesOf(tree, t) /\ DOMAIN t = 1 .. n + 1 /\ Len(t) = n + 1
         /\ \A j \in 1 .. n - 1 : t[j] = s[j]
         /\ t[n].at = s[n].at /\ t[n].next = s[n].next + 1
         /\ t[n + 1].at = Append(Top.at, Top.next) /\ t[n + 1].next = 1 /\ t # <<>>
<1>1. Entered(s, t) /\ s[n].next <= Len(NodeIn(tree, s[n].at).kids)
  BY EnteredIs DEF EntersSeeing, NodeAt
<1>2. n \in Nat /\ Top = s[n] /\ tree \in Trees /\ SpinesOf(tree, s)
  BY StackIs
<1>3. SpinesOf(tree, t)
  BY <1>1, <1>2, SpineEntered
<1>4. /\ t \in Seq(Frame) /\ Len(t) = n + 1 /\ \A j \in 1 .. n - 1 : t[j] = s[j]
      /\ t[n].at = s[n].at /\ t[n].next = s[n].next + 1
      /\ t[n + 1].at = Append(s[n].at, s[n].next) /\ t[n + 1].next = 1
  BY <1>1 DEF Entered
<1>5. DOMAIN t = 1 .. n + 1 /\ t # <<>>
  <2>1. DOMAIN t = 1 .. n + 1
    BY <1>4
  <2>2. Len(t) # 0
    BY <1>2, <1>4
  <2> QED BY <2>1, <2>2
<1> QED BY <1>1, <1>2, <1>3, <1>4, <1>5

LEMMA SeenLeaves ==
  ASSUME Walked, stack # <<>>, NEW faults, LeavesSeeing(faults),
         NEW s, NEW t, NEW n, s = stack, t = stack', n = Len(s)
  PROVE  Left(s, t) /\ DOMAIN t = 1 .. n - 1 /\ \A j \in DOMAIN t : j \in DOMAIN s /\ t[j] = s[j]
<1>1. Left(s, t)
  BY LeaveIs DEF LeavesSeeing, Walked
<1>2. n \in Nat \ {0} /\ DOMAIN s = 1 .. n
  BY StackIs
<1>3. t \in Seq(Frame) /\ Len(t) = n - 1 /\ \A j \in 1 .. Len(t) : t[j] = s[j]
  BY <1>1 DEF Left
<1> QED BY <1>1, <1>2, <1>3

(* What is over after a step was over before it, or is what it leaves; but *)
(* below an assignment that is left early all is over at once.             *)
LEMMA SeenBack ==
  ASSUME Walked, NEW faults, Seeing(faults), NEW q, PositionIn(tree, q), Over(q)',
         LeavesSeeing(faults) => Len(q) < Len(stack) \/ Visited
  PROVE  Over(q) \/ (LeavesSeeing(faults) /\ q = Top.at)
<1>1. PICK s, t, n : s = stack /\ t = stack' /\ n = Len(s)
  OBVIOUS
<1>2. s # <<>> /\ SpinesOf(tree, s) /\ Top = s[n] /\ tree \in Trees
  BY <1>1, StackIs DEF Seeing
<1>3. t = <<>> \/ PastOf(t, q)
  BY <1>1 DEF Over, Past
<1>4. CASE EntersSeeing(faults)
  <2>1. Entered(s, t) /\ t # <<>>
    BY <1>1, <1>2, <1>4, SeenEnters
  <2>2. PastOf(s, q)
    BY <1>2, <1>3, <2>1, PastEnteredBack
  <2> QED BY <1>1, <2>2 DEF Over, Past
<1>5. CASE LeavesSeeing(faults)
  <2>1. Left(s, t)
    BY <1>1, <1>2, <1>5, SeenLeaves
  <2>2. Visited => Len(NodeIn(tree, s[Len(s)].at).kids) < s[Len(s)].next
    <3>1. Top.next \in Nat /\ Kids \in Nat
      BY <1>1, <1>2, NodeShape
    <3>2. Visited => Kids < Top.next
      BY <3>1 DEF Visited
    <3> QED BY <1>1, <1>2, <3>2 DEF Kids, Node, NodeAt
  <2>3. PastOf(s, q) \/ q = s[Len(s)].at
    BY <1>1, <1>2, <1>3, <1>5, <2>1, <2>2, PastLeftBack
  <2> QED BY <1>1, <1>2, <1>5, <2>3 DEF Over, Past
<1> QED BY <1>4, <1>5 DEF Seeing

LEMMA MemberBack ==
  ASSUME Walked, NEW faults, Seeing(faults), NEW q, PositionIn(tree, q), Len(q) = 2, Over(q)'
  PROVE  Over(q) \/ (LeavesSeeing(faults) /\ q = Top.at)
<1>1. stack # <<>> /\ Len(stack) \in Nat
  BY TopIs DEF Seeing, Walked
<1>2. LeavesSeeing(faults) => Len(q) < Len(stack) \/ Visited
  BY <1>1, EarlyIsDeep DEF LeavesSeeing
<1> QED BY <1>2, SeenBack

(* Nothing that is over is on top, or the parent of what is on top.        *)
LEMMA OverIsElsewhere ==
  ASSUME Walked, stack # <<>>, NEW q \in Seq(Nat), Over(q)
  PROVE  q # Top.at /\ \A k : Append(q, k) # Top.at
<1>1. PICK s, n : s = stack /\ n = Len(s)
  OBVIOUS
<1>2. SpinesOf(tree, s) /\ Top = s[n] /\ n \in DOMAIN s /\ s \in Seq(Frame)
  BY <1>1, StackIs
<1>3. PastOf(s, q)
  BY <1>1 DEF Over, Past
<1>4. ~ PastOf(s, Top.at)
  BY <1>2, ActiveIsNotPast
<1>5. \A k : PastOf(s, Append(q, k))
  BY <1>2, <1>3, PastBelow
<1> QED BY <1>3, <1>4, <1>5

LEMMA SeenPositions ==
  ASSUME Walked, TypedBefore, NEW faults, Seeing(faults), AtPositions
  PROVE  AtPositions'
<1>1. stack # <<>> /\ tree' = tree
  BY DEF Seeing
<1>2. ASSUME NEW q \in DOMAIN types' PROVE PositionIn(tree, q) /\ Len(q) >= 3
  <2>1. CASE q \in DOMAIN types
    BY <2>1 DEF AtPositions
  <2>2. CASE Node.op \in Expressions /\ q = Top.at
    BY <1>1, <2>2, ClassIsThere
  <2> QED BY <2>1, <2>2, SeenStaysTyped
<1> QED BY <1>1, <1>2 DEF AtPositions

(* A visit that ends has typed all children or, at an aimless assignment,  *)
(* none.                                                                   *)
LEMMA LeftIsTyped ==
  ASSUME Walked, TypedBefore, stack # <<>>, NEW faults, LeavesSeeing(faults),
         KidsTyped, Aimed, Len(stack) >= 3, NEW k \in DOMAIN Node.kids
  PROVE  Append(Top.at, k) \in DOMAIN types <=> ~ Aimless(Top.at)
<1>1. PICK s, n : s = stack /\ n = Len(s)
  OBVIOUS
<1>2. /\ SpinesOf(tree, s) /\ Top = s[n] /\ n \in DOMAIN s /\ s # <<>>
      /\ Node = NodeAt(s[n].at) /\ n >= 3
  BY <1>1, StackIs
<1>3. k \in Nat /\ 1 <= k /\ k <= Kids /\ Kids \in Nat /\ Top.next \in Nat \ {0}
  BY NodeShape DEF Kids
<1>4. CASE Visited
  <2>1. k < Top.next /\ 1 < Top.next
    BY <1>3, <1>4 DEF Visited
  <2>2. Past(Append(Top.at, k))
    <3>1. PastOf(s, Append(s[n].at, k))
      BY <1>1, <1>2, <1>3, <2>1, KidIsPast
    <3> QED BY <1>1, <1>2, <3>1 DEF Past
  <2>3. Append(Top.at, k) \in DOMAIN types
    BY <1>1, <1>2, <2>2 DEF KidsTyped
  <2>4. ~ Aimless(Top.at)
    <3>1. Top.next > 1
      BY <1>3, <2>1
    <3>2. Node.op = "assign" => ~ Aimless(Top.at)
      BY <1>1, <1>2, <3>1 DEF Aimed
    <3> QED BY <3>2 DEF Aimless, Node
  <2> QED BY <2>3, <2>4
<1>5. CASE Arriving /\ Aimless(Top.at)
  <2>1. s[n].next <= k
    BY <1>2, <1>3, <1>5 DEF Arriving
  <2>2. ~ PastOf(s, Append(s[n].at, k))
    BY <1>1, <1>2, <1>3, <2>1, ComingIsNotPast
  <2>3. Append(Top.at, k) \notin DOMAIN types
    BY <1>1, <1>2, <2>2 DEF TypedBefore, Past
  <2> QED BY <1>5, <2>3
<1> QED BY <1>4, <1>5 DEF LeavesSeeing

LEMMA SeenAllTyped ==
  ASSUME Walked, TypedBefore, NEW faults, Seeing(faults), AtPositions, AllTyped, KidsTyped, Aimed
  PROVE  AllTyped'
<1>1. stack # <<>> /\ UNCHANGED <<tree, table>>
  BY DEF Seeing
<1>2. \A q : NodeAt(q)' = NodeAt(q) /\ (Aimless(q)' <=> Aimless(q))
  BY <1>1, WordsStay
<1>3. ASSUME NEW q, IsOver(q)', NEW k \in DOMAIN NodeAt(q).kids
      PROVE  Append(q, k) \in DOMAIN types' <=> ~ Aimless(q)
  <2>1. PositionIn(tree, q) /\ (q \in DOMAIN types' \/ (Len(q) = 2 /\ Over(q)'))
    BY <1>1, <1>3 DEF IsOver
  <2>2. IsOver(q) \/ (LeavesSeeing(faults) /\ q = Top.at)
    BY <2>1, SeenStaysTyped, MemberBack DEF IsOver
  <2>3. q \in Seq(Nat)
    BY <2>1 DEF PositionIn
  <2>4. Append(q, k) # Top.at
    BY <1>1, <2>2, <2>3, TopIsNew, OverIsElsewhere DEF IsOver
  <2>5. Append(q, k) \in DOMAIN types' <=> Append(q, k) \in DOMAIN types
    BY <2>4, SeenStaysTyped
  <2>6. CASE IsOver(q)
    BY <1>3, <2>5, <2>6 DEF AllTyped
  <2>7. CASE LeavesSeeing(faults) /\ q = Top.at /\ ~ IsOver(q)
    <3>1. Len(stack) >= 3
      <4>1. PICK n : n = Len(stack) /\ n \in Nat /\ Len(Top.at) = n - 1
        BY <1>1, TopIs DEF Walked
      <4>2. Len(q) >= 2
        <5>1. CASE q \in DOMAIN types'
          <6>1. Node.op \in Expressions
            BY <2>7, <2>1, <5>1, SeenStaysTyped DEF IsOver
          <6>2. Len(Top.at) >= 3 /\ Len(Top.at) \in Nat
            BY <1>1, <6>1, <4>1, <2>3, <2>7, ClassIsThere
          <6> QED BY <2>7, <6>2
        <5> QED BY <2>1, <5>1
      <4> QED BY <2>7, <4>1, <4>2
    <3> QED BY <1>1, <1>3, <2>5, <2>7, <3>1, LeftIsTyped DEF Node
  <2> QED BY <2>2, <2>6, <2>7
<1> QED BY <1>2, <1>3 DEF AllTyped

LEMMA SeenKidsTyped ==
  ASSUME Walked, TypedBefore, NEW faults, Seeing(faults), KidsTyped
  PROVE  KidsTyped'
<1>1. PICK s, t, n : s = stack /\ t = stack' /\ n = Len(s)
  OBVIOUS
<1>2. /\ stack # <<>> /\ UNCHANGED <<tree, table>> /\ tree \in Trees
      /\ SpinesOf(tree, s) /\ Top = s[n] /\ n \in Nat \ {0} /\ DOMAIN s = 1 .. n
      /\ Node.op \in LevelOps(n)
  BY <1>1, StackIs DEF Seeing
<1>3. \A q : NodeAt(q)' = NodeAt(q)
  BY <1>2, WordsStay
<1>4. SpinesOf(tree, t)
  <2>1. CASE EntersSeeing(faults)
    BY <1>1, <1>2, <2>1, SeenEnters
  <2>2. CASE LeavesSeeing(faults)
    BY <1>1, <1>2, <2>2, SeenLeaves, SpineLeft
  <2> QED BY <2>1, <2>2 DEF Seeing
<1>5. ASSUME NEW j \in DOMAIN t, j >= 3, NEW k \in DOMAIN NodeAt(t[j].at).kids, NEW q,
             q = Append(t[j].at, k), PastOf(t, q)
      PROVE  q \in DOMAIN types'
  <2>1. /\ j \in Nat \ {0} /\ t[j].at \in Seq(Nat) /\ Len(t[j].at) = j - 1
        /\ PositionIn(tree, t[j].at) /\ NodeAt(t[j].at) = NodeIn(tree, t[j].at)
    BY <1>4, FrameIs DEF NodeAt
  <2>2. PositionIn(tree, q)
    BY <1>2, <1>5, <2>1, KidIs
  <2>3. k \in Nat \ {0}
    <3>1. NodeAt(t[j].at).kids \in Seq(NodesOf(tree))
      BY <1>2, <2>1, NodeIs
    <3> QED BY <3>1
  <2>4. Len(q) = j
    BY <1>5, <2>1, <2>3
  <2>5. Over(q)'
    BY <1>1, <1>5 DEF Over, Past
  <2>6. ASSUME j \in DOMAIN s, t[j].at = s[j].at, Over(q) PROVE q \in DOMAIN types'
    <3>1. Past(q)
      BY <1>2, <2>6 DEF Over
    <3>2. q \in DOMAIN types
      BY <1>1, <1>5, <2>6, <3>1 DEF KidsTyped
    <3> QED BY <3>2, SeenStaysTyped
  <2>7. CASE EntersSeeing(faults)
    <3>1. /\ DOMAIN t = 1 .. n + 1 /\ Len(t) = n + 1 /\ t # <<>>
          /\ \A i \in 1 .. n - 1 : t[i] = s[i]
          /\ t[n].at = s[n].at /\ t[n + 1].next = 1
      BY <1>1, <1>2, <2>7, SeenEnters
    <3>2. CASE j = n + 1
      <4>1. t[Len(t)].next <= k
        BY <2>3, <3>1
      <4>2. ~ PastOf(t, Append(t[Len(t)].at, k))
        BY <1>4, <2>3, <3>1, <4>1, ComingIsNotPast
      <4> QED BY <1>5, <3>1, <3>2, <4>2
    <3>3. CASE j # n + 1
      <4>1. j \in DOMAIN s /\ (j = n \/ j \in 1 .. n - 1)
        BY <1>2, <3>1, <3>3
      <4>2. t[j].at = s[j].at
        BY <3>1, <4>1
      <4>3. ~ LeavesSeeing(faults)
        <5>1. Len(t) # n - 1
          BY <1>2, <3>1
        <5> QED BY <1>1, <1>2, <5>1, SeenLeaves DEF Left
      <4>4. Over(q)
        BY <2>2, <2>5, <4>3, SeenBack
      <4> QED BY <2>6, <4>1, <4>2, <4>4
    <3> QED BY <3>2, <3>3
  <2>8. CASE LeavesSeeing(faults)
    <3>1. DOMAIN t = 1 .. n - 1 /\ j \in DOMAIN s /\ t[j] = s[j]
      BY <1>1, <1>2, <2>8, SeenLeaves
    <3>2. j < n
      BY <1>2, <3>1
    <3>3. Over(q) \/ q = Top.at
      BY <1>1, <2>2, <2>4, <2>5, <3>2, SeenBack
    <3>4. CASE q = Top.at
      <4>1. n # 1 /\ n # 2 /\ n # 3
        BY <1>2, <1>5, <2>1, <3>2
      <4>2. Node.op \in Expressions
        BY <1>2, <4>1 DEF LevelOps
      <4> QED BY <2>8, <3>4, <4>2, SeenStaysTyped
    <3> QED BY <2>6, <3>1, <3>3, <3>4
  <2> QED BY <2>7, <2>8 DEF Seeing
<1>6. ASSUME NEW j \in DOMAIN t, j >= 3, NEW k \in DOMAIN NodeAt(t[j].at)'.kids,
             PastOf(t, Append(t[j].at, k))
      PROVE  Append(t[j].at, k) \in DOMAIN types'
  BY <1>3, <1>5, <1>6
<1> QED BY <1>1, <1>6 DEF KidsTyped, Past

(* The frames after a step: those below the one on top are as they were.   *)
LEMMA SeenFrames ==
  ASSUME Walked, stack # <<>>, NEW faults, Seeing(faults),
         NEW s, NEW t, NEW n, s = stack, t = stack', n = Len(s), NEW j \in DOMAIN t
  PROVE  \/ j \in DOMAIN s /\ t[j] = s[j] /\ s[j].at # Top.at
         \/ EntersSeeing(faults) /\ t[j].at = Top.at /\ t[j].next = Top.next + 1
         \/ EntersSeeing(faults) /\ t[j].at = Append(Top.at, Top.next) /\ t[j].next = 1
<1>1. /\ SpinesOf(tree, s) /\ Top = s[n] /\ n \in Nat \ {0} /\ DOMAIN s = 1 .. n
      /\ Len(Top.at) = n - 1
  BY StackIs
<1>2. ASSUME j \in 1 .. n - 1, t[j] = s[j] PROVE j \in DOMAIN s /\ s[j].at # Top.at
  <2>1. j \in DOMAIN s /\ j # n /\ j \in Nat
    BY <1>1, <1>2
  <2>2. Len(s[j].at) = j - 1
    BY <1>1, <2>1, FrameIs
  <2>3. j - 1 # n - 1
    BY <1>1, <2>1
  <2> QED BY <1>1, <2>1, <2>2, <2>3
<1>3. CASE EntersSeeing(faults)
  <2>1. /\ DOMAIN t = 1 .. n + 1 /\ \A i \in 1 .. n - 1 : t[i] = s[i]
        /\ t[n].at = s[n].at /\ t[n].next = s[n].next + 1
        /\ t[n + 1].at = Append(Top.at, Top.next) /\ t[n + 1].next = 1
    <3>1. /\ Entered(s, t) /\ DOMAIN t = 1 .. n + 1
          /\ t[n + 1].at = Append(Top.at, Top.next) /\ t[n + 1].next = 1
      BY <1>3, SeenEnters
    <3> QED BY <3>1 DEF Entered
  <2>2. j = n \/ j = n + 1 \/ j \in 1 .. n - 1
    BY <1>1, <2>1
  <2> QED BY <1>1, <1>2, <1>3, <2>1, <2>2
<1>4. CASE LeavesSeeing(faults)
  <2>1. DOMAIN t = 1 .. n - 1 /\ t[j] = s[j]
    BY <1>4, SeenLeaves
  <2> QED BY <1>2, <2>1
<1> QED BY <1>3, <1>4 DEF Seeing

LEMMA SeenAimed ==
  ASSUME Walked, NEW faults, Seeing(faults), Aimed
  PROVE  Aimed'
<1>1. PICK s, t, n : s = stack /\ t = stack' /\ n = Len(s)
  OBVIOUS
<1>2. stack # <<>> /\ UNCHANGED <<tree, table>>
  BY DEF Seeing
<1>3. \A q : NodeAt(q)' = NodeAt(q) /\ (Aimless(q)' <=> Aimless(q))
  BY <1>2, WordsStay
<1>4. ASSUME NEW j \in DOMAIN t, NodeAt(t[j].at).op = "assign", t[j].next > 1
      PROVE  ~ Aimless(t[j].at)
  <2>1. CASE j \in DOMAIN s /\ t[j] = s[j]
    BY <1>1, <1>4, <2>1 DEF Aimed
  <2>2. CASE EntersSeeing(faults) /\ t[j].at = Top.at
    BY <1>4, <2>2 DEF EntersSeeing, Node
  <2>3. CASE t[j].next = 1
    BY <1>4, <2>3
  <2> QED BY <1>1, <1>2, <2>1, <2>2, <2>3, SeenFrames
<1>5. \A j \in DOMAIN t :
        NodeAt(t[j].at)'.op = "assign" /\ t[j].next > 1 => ~ Aimless(t[j].at)'
  BY <1>3, <1>4
<1> QED BY <1>1, <1>5 DEF Aimed

LEMMA SeenNoted ==
  ASSUME Walked, ReportedBefore, NEW faults, Seeing(faults), MembersNoted
  PROVE  MembersNoted'
<1>1. PICK s, t, n : s = stack /\ t = stack' /\ n = Len(s)
  OBVIOUS
<1>2. /\ stack # <<>> /\ UNCHANGED <<tree, table>> /\ Top = s[n] /\ n \in DOMAIN s
      /\ Top.next \in Nat \ {0} /\ Node = NodeAt(Top.at)
  BY <1>1, StackIs, NodeShape DEF Seeing
<1>3. \A q : NodeAt(q)' = NodeAt(q)
  BY <1>2, WordsStay
<1>4. \A e : Undeclared(e)' <=> Undeclared(e)
  BY <1>2, WordsStay
<1>5. \A q : Faulted(q)' <=> Faulted(q) \/ (q = Top.at /\ faults # {})
  BY FaultedIs DEF Seeing
<1>6. ASSUME NEW j \in DOMAIN t, NEW e, e = NodeAt(t[j].at), Member(e)
      PROVE  Faulted(t[j].at)' <=> t[j].next > 1 /\ Undeclared(e)
  <2>1. CASE j \in DOMAIN s /\ t[j] = s[j] /\ s[j].at # Top.at
    <3>1. Faulted(s[j].at) <=> s[j].next > 1 /\ Undeclared(e)
      BY <1>1, <1>6, <2>1 DEF MembersNoted
    <3>2. Faulted(t[j].at)' <=> Faulted(t[j].at)
      BY <1>5, <2>1
    <3> QED BY <2>1, <3>1, <3>2
  <2>2. CASE EntersSeeing(faults) /\ t[j].at = Top.at /\ t[j].next = Top.next + 1
    <3>1. e = Node /\ t[j].next > 1
      BY <1>2, <1>6, <2>2
    <3>2. Faulted(Top.at) <=> Top.next > 1 /\ Undeclared(Node)
      BY <1>1, <1>2, <1>6, <3>1 DEF MembersNoted
    <3>3. faults # {} <=> Arriving /\ Undeclared(Node)
      BY <1>6, <2>2, <3>1 DEF EntersSeeing
    <3>4. Top.next > 1 \/ Arriving
      BY <1>2 DEF Arriving
    <3>5. Faulted(t[j].at)' <=> Faulted(Top.at) \/ faults # {}
      BY <1>5, <2>2
    <3> QED BY <3>1, <3>2, <3>3, <3>4, <3>5
  <2>3. CASE t[j].at = Append(Top.at, Top.next) /\ t[j].next = 1
    <3>1. ~ Faulted(t[j].at) /\ t[j].at # Top.at
      BY <1>2, <2>3, ComingIsFaultless
    <3>2. ~ Faulted(t[j].at)'
      BY <1>5, <3>1
    <3>3. ~ (t[j].next > 1)
      BY <2>3
    <3> QED BY <3>2, <3>3
  <2> QED BY <1>1, <1>2, <2>1, <2>2, <2>3, SeenFrames
<1>7. \A j \in DOMAIN t : Member(NodeAt(t[j].at)') =>
        (Faulted(t[j].at)' <=> t[j].next > 1 /\ Undeclared(NodeAt(t[j].at)'))
  BY <1>3, <1>6
<1>8. \A j \in DOMAIN t : Undeclared(NodeAt(t[j].at))' <=> Undeclared(NodeAt(t[j].at)')
  BY <1>2, WordsStay DEF Undeclared, Mentioned, Exists
<1> QED BY <1>1, <1>7, <1>8 DEF MembersNoted, Member

(* A member is judged when it is left: at its start its types, and of a    *)
(* method at the end its result.                                           *)
LEMMA MemberLeft ==
  ASSUME Walked, TypedBefore, MembersNoted, NEW faults, Seeing(faults), LeavesSeeing(faults),
         Len(Top.at) = 2
  PROVE  Faulted(Top.at) \/ faults # {} <=> Undeclared(Node) \/ Unfit(Node, Kid(1))
<1>1. PICK s, n : s = stack /\ n = Len(s)
  OBVIOUS
<1>2. /\ stack # <<>> /\ Top = s[n] /\ n \in DOMAIN s /\ Node = NodeAt(Top.at)
      /\ n \in Nat /\ Len(Top.at) = n - 1 /\ Node.op \in LevelOps(n)
      /\ Top.next \in Nat \ {0} /\ Kids \in Nat
  BY <1>1, StackIs, NodeShape DEF Seeing
<1>3. n = 3
  <2>1. Len(Top.at) = 2
    OBVIOUS
  <2>2. n - 1 = 2 /\ n \in Nat
    BY <1>2, <2>1
  <2> QED BY <2>2
<1>4. Node.op \in {"field", "method"}
  BY <1>2, <1>3 DEF LevelOps
<1>5. Faulted(Top.at) <=> Top.next > 1 /\ Undeclared(Node)
  BY <1>1, <1>2, <1>4 DEF MembersNoted, Member
<1>6. Arriving <=> ~ (Top.next > 1)
  BY <1>2 DEF Arriving
<1>7. CASE Node.op = "field"
  <2>1. faults # {} <=> Arriving /\ Undeclared(Node)
    BY <1>7 DEF LeavesSeeing
  <2>2. ~ Unfit(Node, Kid(1))
    BY <1>7 DEF Unfit
  <2> QED BY <1>5, <1>6, <2>1, <2>2
<1>8. CASE Node.op = "method"
  <2>1. faults # {} <=> Unfit(Node, Kid(1))
    BY <1>8 DEF LeavesSeeing
  <2>2. Visited
    BY <1>2, <1>8 DEF LeavesSeeing, Aimless
  <2>3. Kids \in {1}
    BY <1>2, <1>8, NodeShape DEF Counts
  <2>4. Top.next > 1
    BY <1>2, <2>2, <2>3 DEF Visited
  <2> QED BY <1>5, <2>1, <2>4
<1> QED BY <1>4, <1>7, <1>8

LEMMA SeenJudged ==
  ASSUME Walked, TypedBefore, MembersNoted, MembersJudged, NEW faults, Seeing(faults)
  PROVE  MembersJudged'
<1>1. stack # <<>> /\ UNCHANGED <<tree, table>>
  BY DEF Seeing
<1>2. /\ \A q : NodeAt(q)' = NodeAt(q)
      /\ \A e : Undeclared(e)' <=> Undeclared(e)
      /\ \A e, t : Unfit(e, t)' <=> Unfit(e, t)
  BY <1>1, WordsStay
<1>3. \A q : Faulted(q)' <=> Faulted(q) \/ (q = Top.at /\ faults # {})
  BY FaultedIs DEF Seeing
<1>4. ASSUME NEW q, PositionIn(tree, q), Len(q) = 2, Over(q)', NEW e, NEW v,
             e = NodeAt(q), v = TypeAt(Append(q, 1))
      PROVE  TypeAt(Append(q, 1))' = v /\ (Faulted(q)' <=> Undeclared(e) \/ Unfit(e, v))
  <2>1. q \in Seq(Nat) /\ (Over(q) \/ (LeavesSeeing(faults) /\ q = Top.at))
    BY <1>4, MemberBack DEF PositionIn
  <2>2. Append(q, 1) # Top.at
    BY <1>1, <2>1, TopIsNew, OverIsElsewhere
  <2>3. TypeAt(Append(q, 1))' = v
    BY <1>4, <2>2, SeenStaysTyped
  <2>4. CASE Over(q)
    <3>1. q # Top.at
      BY <1>1, <2>1, <2>4, OverIsElsewhere
    <3>2. Judged(q)
      BY <1>4, <2>4 DEF MembersJudged
    <3> QED BY <1>3, <1>4, <2>3, <3>1, <3>2 DEF Judged
  <2>5. CASE LeavesSeeing(faults) /\ q = Top.at
    <3>1. e = Node /\ v = Kid(1)
      BY <1>4, <2>5 DEF Node, Kid
    <3>2. Faulted(Top.at) \/ faults # {} <=> Undeclared(Node) \/ Unfit(Node, Kid(1))
      BY <1>4, <2>5, MemberLeft
    <3> QED BY <1>3, <2>3, <2>5, <3>1, <3>2
  <2> QED BY <2>1, <2>4, <2>5
<1>5. ASSUME NEW q, PositionIn(tree, q), Len(q) = 2, Over(q)' PROVE Judged(q)'
  <2>1. PICK e, v : e = NodeAt(q) /\ v = TypeAt(Append(q, 1))
    OBVIOUS
  <2>2. NodeAt(q)' = e /\ TypeAt(Append(q, 1))' = v
    BY <1>2, <1>4, <1>5, <2>1
  <2>3. Faulted(q)' <=> Undeclared(e)' \/ Unfit(e, v)'
    BY <1>2, <1>4, <1>5, <2>1
  <2> QED BY <2>2, <2>3 DEF Judged
<1> QED BY <1>1, <1>5 DEF MembersJudged

LEMMA EInvStays ==
  ASSUME SInv, RInv, EInv, [Next]_vars
  PROVE  EInv'
<1>1. CASE Next
  <2>1. PICK faults : Seeing(faults)
    BY <1>1, NextSees
  <2>2. Walked /\ TypedBefore /\ ReportedBefore
    BY DEF SInv, RInv
  <2>3. AtPositions' /\ AllTyped' /\ KidsTyped'
    BY <2>1, <2>2, SeenPositions, SeenAllTyped, SeenKidsTyped DEF EInv
  <2>4. Aimed' /\ MembersNoted' /\ MembersJudged'
    BY <2>1, <2>2, SeenAimed, SeenNoted, SeenJudged DEF EInv
  <2> QED BY <2>3, <2>4 DEF EInv
<1>2. CASE UNCHANGED vars
  <2>1. UNCHANGED <<tree, table, stack, types, errors>>
    BY <1>2 DEF vars
  <2>2. /\ \A q : NodeAt(q)' = NodeAt(q) /\ (Aimless(q)' <=> Aimless(q))
        /\ \A e : Undeclared(e)' <=> Undeclared(e)
        /\ \A e, t : Unfit(e, t)' <=> Unfit(e, t)
    BY <2>1, WordsStay
  <2>3. \A q : /\ TypeAt(q)' = TypeAt(q) /\ (Faulted(q)' <=> Faulted(q))
               /\ (Past(q)' <=> Past(q)) /\ (Over(q)' <=> Over(q))
    BY <2>1 DEF TypeAt, Faulted, Over, Past, PastOf
  <2>4. \A q : (IsOver(q)' <=> IsOver(q)) /\ (Judged(q)' <=> Judged(q))
    BY <2>1, <2>2, <2>3 DEF IsOver, Judged
  <2>5. AtPositions' /\ AllTyped' /\ MembersJudged'
    BY <2>1, <2>2, <2>3, <2>4 DEF EInv, AtPositions, AllTyped, MembersJudged
  <2>6. PICK s : s = stack /\ s = stack'
    BY <2>1
  <2>7. KidsTyped'
    <3>1. \A j \in DOMAIN s : j >= 3 => \A k \in DOMAIN NodeAt(s[j].at).kids :
            Past(Append(s[j].at, k)) => Append(s[j].at, k) \in DOMAIN types
      BY <2>6 DEF EInv, KidsTyped
    <3>2. \A j \in DOMAIN s : j >= 3 => \A k \in DOMAIN NodeAt(s[j].at)'.kids :
            Past(Append(s[j].at, k))' => Append(s[j].at, k) \in DOMAIN types'
      BY <2>1, <2>2, <2>3, <3>1
    <3> QED BY <2>6, <3>2 DEF KidsTyped
  <2>8. Aimed'
    <3>1. \A j \in DOMAIN s :
            NodeAt(s[j].at)'.op = "assign" /\ s[j].next > 1 => ~ Aimless(s[j].at)'
      BY <2>2, <2>6 DEF EInv, Aimed
    <3> QED BY <2>6, <3>1 DEF Aimed
  <2>9. MembersNoted'
    <3>1. \A j \in DOMAIN s : Member(NodeAt(s[j].at)) =>
            (Faulted(s[j].at) <=> s[j].next > 1 /\ Undeclared(NodeAt(s[j].at)))
      BY <2>6 DEF EInv, MembersNoted
    <3>2. \A j \in DOMAIN s : Undeclared(NodeAt(s[j].at))' <=> Undeclared(NodeAt(s[j].at))
      BY <2>1, <2>2 DEF Undeclared, Mentioned, Exists
    <3>3. \A j \in DOMAIN s : Member(NodeAt(s[j].at))' =>
            (Faulted(s[j].at)' <=> s[j].next > 1 /\ Undeclared(NodeAt(s[j].at))')
      BY <2>2, <2>3, <3>1, <3>2 DEF Member
    <3> QED BY <2>6, <3>3 DEF MembersNoted
  <2> QED BY <2>5, <2>7, <2>8, <2>9 DEF EInv
<1> QED BY <1>1, <1>2

LEMMA InitSeen ==
  ASSUME Init
  PROVE  EInv
<1>1. DOMAIN types = {} /\ errors = {} /\ tree \in Trees
  BY DEF Init
<1>2. DOMAIN stack = {1} /\ stack[1].next = 1 /\ Len(stack) = 1 /\ stack # <<>>
  BY DEF Init
<1>3. ASSUME NEW q, PositionIn(tree, q), Over(q) PROVE FALSE
  <2>1. 1 <= Len(q) /\ q[1] < 1
    BY <1>2, <1>3 DEF Over, Past, PastOf
  <2>2. 1 \in 1 .. Len(q)
    <3>1. Len(q) \in Nat
      BY <1>3 DEF PositionIn
    <3> QED BY <2>1, <3>1
  <2>3. q[1] \in Nat \ {0}
    BY <1>1, <1>3, <2>2, PositionIs
  <2> QED BY <2>1, <2>3
<1>4. AtPositions /\ AllTyped /\ MembersJudged
  BY <1>1, <1>3 DEF AtPositions, AllTyped, IsOver, MembersJudged
<1>5. KidsTyped /\ Aimed /\ MembersNoted
  BY <1>1, <1>2 DEF KidsTyped, Aimed, MembersNoted, Faulted
<1> QED BY <1>4, <1>5 DEF EInv

LEMMA SeenIsAll ==
  ASSUME SInv, EInv
  PROVE  NothingEscapes
<1> SUFFICES ASSUME stack = <<>>
             PROVE  /\ \A c \in DOMAIN tree.kids : \A i \in DOMAIN tree.kids[c].kids :
                         LET member == tree.kids[c].kids[i] IN
                           /\ member.kids # <<>> => <<c, i, 1>> \in DOMAIN types
                           /\ Faulted(<<c, i>>) <=>
                                Undeclared(member) \/ Unfit(member, TypeAt(<<c, i, 1>>))
                    /\ \A path \in DOMAIN types : \A k \in DOMAIN NodeAt(path).kids :
                         Append(path, k) \in DOMAIN types <=> ~ Aimless(path)
  BY DEF NothingEscapes, Done
<1>1. tree \in Trees /\ AtPositions /\ AllTyped /\ MembersJudged
  BY DEF SInv, Walked, OfATree, EInv
<1>2. ASSUME NEW c \in DOMAIN tree.kids, NEW i \in DOMAIN tree.kids[c].kids, NEW m,
             m = tree.kids[c].kids[i]
      PROVE  /\ m.kids # <<>> => <<c, i, 1>> \in DOMAIN types
             /\ Faulted(<<c, i>>) <=> Undeclared(m) \/ Unfit(m, TypeAt(<<c, i, 1>>))
  <2>1. PICK q : q = <<c, i>>
    OBVIOUS
  <2>2. Len(q) = 2
    BY <2>1
  <2>3. /\ PositionIn(tree, q) /\ NodeAt(q) = m /\ Append(q, 1) = <<c, i, 1>>
        /\ m.kids \in Seq(NodesOf(tree))
    BY <1>1, <1>2, <2>1, MemberAt DEF NodeAt
  <2>4. Over(q) /\ IsOver(q)
    BY <2>3, <2>2 DEF Over, IsOver
  <2>5. Judged(q)
    BY <1>1, <2>2, <2>3, <2>4 DEF MembersJudged
  <2>6. m.op \in {"field", "method"}
    <3>1. tree.kids \in Seq(NodesOf(tree)) /\ Shaped(tree) /\ tree.op = "program"
      BY <1>1, TreesAssumption
    <3>2. tree.kids[c] \in NodesOf(tree) /\ tree.kids[c].op \in Below("program")
      BY <3>1 DEF Shaped
    <3>3. Shaped(tree.kids[c]) /\ tree.kids[c].op = "class"
      BY <1>1, <3>2, TreesAssumption DEF Below
    <3> QED BY <1>2, <3>3 DEF Shaped, Below
  <2>7. ASSUME m.kids # <<>> PROVE <<c, i, 1>> \in DOMAIN types
    <3>1. 1 \in DOMAIN NodeAt(q).kids
      BY <2>3, <2>7
    <3>2. ~ Aimless(q)
      BY <2>3, <2>6 DEF Aimless
    <3>3. Append(q, 1) \in DOMAIN types
      BY <1>1, <2>4, <3>1, <3>2 DEF AllTyped
    <3> QED BY <2>3, <3>3
  <2> QED BY <2>1, <2>3, <2>5, <2>7 DEF Judged
<1>3. ASSUME NEW path \in DOMAIN types, NEW k \in DOMAIN NodeAt(path).kids
      PROVE  Append(path, k) \in DOMAIN types <=> ~ Aimless(path)
  BY <1>1, <1>3 DEF AtPositions, AllTyped, IsOver
<1> QED BY <1>2, <1>3

(* types_visitor.cpp: one visit finds everything, in any tree.  Whatever   *)
(* was reported elsewhere, a member is reported if and only if it mentions *)
(* a class that does not exist or its body does not conform to its result; *)
(* and every expression is looked at, but for the values of assignments to *)
(* names that mean nothing.                                                *)
THEOREM NothingEverEscapes == Spec => []NothingEscapes
<1>1. Init => SInv /\ RInv /\ EInv
  BY InitWalked, InitRight, InitSeen
<1>2. SInv /\ RInv /\ EInv /\ [Next]_vars => (SInv /\ RInv /\ EInv)'
  BY SInvStays, RInvStays, EInvStays
<1>3. SInv /\ RInv /\ EInv => NothingEscapes
  BY SeenIsAll
<1> QED BY <1>1, <1>2, <1>3, PTL DEF Spec
=============================================================================

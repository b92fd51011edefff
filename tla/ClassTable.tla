----------------------------- MODULE ClassTable -----------------------------
(***************************************************************************)
(* What the code generator reads off the class table of a program without  *)
(* semantic errors: ClassManager's collect_fields and collect_methods.     *)
(***************************************************************************)
EXTENDS Program, FiniteSets

(* The way from a class to Object; a class that is not in the table would  *)
(* end it too.  No way is longer than the table.                           *)
Ancestry(table, c) ==
  LET onward == [a \in ClassName |->
                   IF a \in DOMAIN table \ {Object} /\ table[a].parent \in DOMAIN table
                   THEN table[a].parent ELSE a]
      up[k \in 0 .. Cardinality(DOMAIN table)] ==
        IF k = 0 THEN c ELSE onward[up[k - 1]]
  IN [k \in 1 .. Cardinality(Range(up)) |-> up[k - 1]]

(* The first class on a way that is one of these.                          *)
FirstOf(way, classes) ==
  way[CHOOSE i \in DOMAIN way :
        way[i] \in classes /\ \A j \in 1 .. i - 1 : way[j] \notin classes]

(* Base class first.                                                       *)
FromTheRoot(table, c) == Reverse(Ancestry(table, c))

(* Every field of the class and its ancestors, base class first.           *)
CollectFields(table, c) ==
  LET way == FromTheRoot(table, c)
  IN FlattenSeq([i \in DOMAIN way |-> table[way[i]].fields])

(* Slip: the methods of the class come before those it inherits.           *)
CollectMethodsOwnFirst(table, c) ==
  LET way == Ancestry(table, c)
  IN CollectAll(FlattenSeq([i \in DOMAIN way |-> table[way[i]].methods]))

(* The methods of the class and its ancestors, base class first: a method  *)
(* has the slot where its name is first met, and there the override that   *)
(* is met last.                                                            *)
CollectMethods(table, c) ==
  LET way == FromTheRoot(table, c)
  IN CollectAll(FlattenSeq([i \in DOMAIN way |-> table[way[i]].methods]))
=============================================================================

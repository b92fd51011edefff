------------------------------ MODULE Ancestry ------------------------------
(***************************************************************************)
(* The walks from a class towards Object that answer the questions of the  *)
(* TypesVisitor: ClassManager's is_subtype, lookup_field, lookup_method    *)
(* and ancestor.  One step is one turn of the loop.  The class table is    *)
(* whatever the earlier checks left, errors or not: analyze() goes on to   *)
(* the types in any case.                                                  *)
(***************************************************************************)
EXTENDS Program

CONSTANTS
  Yes, No,     (* what is_subtype returns                                   *)
  Nothing      (* the nullopt of a lookup, and of is_subtype                *)

VARIABLES
  table,       (* the class table                                           *)
  walk,        (* "idle", "busy", "answered" or "undefined"                 *)
  query,       (* the call: its function, the class it starts at, its goal  *)
  current,     (* the class the loop is at                                  *)
  ancestors,   (* ancestor: the chain of the first class, while on the 2nd  *)
  answer       (* what the call returned                                    *)

Members(c) == IF query.fn = "lookup_field" THEN table[c].fields
                                           ELSE table[c].methods

(* A call: any two class names for is_subtype; a class name and a member   *)
(* name for a lookup; for ancestor, what the wrapper lets through, two     *)
(* different classes of the table.                                         *)
Query ==
  [fn : {"is_subtype"}, from : ClassName, goal : ClassName]
    \cup [fn : {"lookup_field"}, from : ClassName, goal : FieldName]
    \cup [fn : {"lookup_method"}, from : ClassName, goal : MethodName]
    \cup {q \in [fn : {"ancestor"}, from : ClassName, goal : ClassName] :
            q.from # q.goal /\ {q.from, q.goal} \subseteq DOMAIN table}

NoQuery == [fn |-> "none"]

Init == /\ walk = "idle" /\ query = NoQuery /\ current = Object
        /\ ancestors = {} /\ answer = Nothing

Ask == /\ walk # "busy" /\ walk # "undefined"
       /\ \E q \in Query : query' = q /\ current' = q.from
       /\ walk' = "busy"
       /\ ancestors' = {} /\ answer' = Nothing
       /\ UNCHANGED table

-----------------------------------------------------------------------------
Running(fns) == walk = "busy" /\ query.fn \in fns

Answer(a) == /\ walk' = "answered" /\ answer' = a
             /\ UNCHANGED <<table, query, current, ancestors>>

GoOn == /\ current' = table[current].parent
        /\ UNCHANGED <<table, walk, query, answer>>

(* is_subtype(given, compared_to): the names are compared before Object    *)
(* ends the loop and before the class is looked up.                        *)
IsSubtype ==
  /\ Running({"is_subtype"})
  /\ \/ current = query.goal /\ Answer(Yes)
     \/ current # query.goal /\ current = Object /\ Answer(No)
     \/ /\ current \notin {query.goal, Object}
        /\ current \notin DOMAIN table /\ Answer(Nothing)
     \/ /\ current \notin {query.goal, Object}
        /\ current \in DOMAIN table /\ GoOn /\ UNCHANGED ancestors

(* Slips: Object is where the loop stops before its members are searched,  *)
(* or Object is not where it stops.                                        *)
LookupShort ==
  /\ Running({"lookup_field", "lookup_method"})
  /\ \/ (current \notin DOMAIN table \/ current = Object) /\ Answer(Nothing)
     \/ /\ current \in DOMAIN table \ {Object}
        /\ HasMember(Members(current), query.goal) /\ Answer(current)
     \/ /\ current \in DOMAIN table \ {Object}
        /\ ~ HasMember(Members(current), query.goal)
        /\ GoOn /\ UNCHANGED ancestors

LookupOnAndOn ==
  /\ Running({"lookup_field", "lookup_method"})
  /\ \/ current \notin DOMAIN table /\ Answer(Nothing)
     \/ /\ current \in DOMAIN table
        /\ HasMember(Members(current), query.goal) /\ Answer(current)
     \/ /\ current \in DOMAIN table
        /\ ~ HasMember(Members(current), query.goal)
        /\ GoOn /\ UNCHANGED ancestors

(* lookup_field and lookup_method: the members of a class are searched     *)
(* before its parent's, Object's last.  The answer is the class it is in.  *)
Lookup ==
  /\ Running({"lookup_field", "lookup_method"})
  /\ \/ current \notin DOMAIN table /\ Answer(Nothing)
     \/ /\ current \in DOMAIN table
        /\ HasMember(Members(current), query.goal) /\ Answer(current)
     \/ /\ current \in DOMAIN table
        /\ ~ HasMember(Members(current), query.goal)
        /\ \/ current = Object /\ Answer(Nothing)
           \/ current # Object /\ GoOn /\ UNCHANGED ancestors

(* Both loops of ancestor() use what get_class returns without a test: a   *)
(* class that is not in the table is an empty optional dereferenced.       *)
Dereference ==
  \/ current \in DOMAIN table /\ GoOn
  \/ /\ current \notin DOMAIN table
     /\ walk' = "undefined"
     /\ UNCHANGED <<table, query, current, answer>>

(* The first loop gathers the chain of the first class up to Object; the   *)
(* second one starts with Object gathered.                                 *)
GatherChain ==
  /\ Running({"ancestor"}) /\ Object \notin ancestors
  /\ ancestors' = ancestors \cup {current}
  /\ \/ /\ current = Object /\ current' = query.goal
        /\ UNCHANGED <<table, walk, query, answer>>
     \/ current # Object /\ Dereference

FindCommon ==
  /\ Running({"ancestor"}) /\ Object \in ancestors
  /\ \/ current \in ancestors /\ Answer(current)
     \/ current \notin ancestors /\ Dereference /\ UNCHANGED ancestors

Step == IsSubtype \/ Lookup \/ GatherChain \/ FindCommon
Next == Ask \/ Step

-----------------------------------------------------------------------------
(* What the answers mean.  The ancestors of a class are the class and all  *)
(* that follows from it through "extends", Object ending the chain: the    *)
(* smallest set that holds the class and is closed under "extends".        *)
ClosedUpward(S) ==
  \A c \in S \cap DOMAIN table : c # Object => table[c].parent \in S

AncestorsOf(c) ==
  {a \in ClassName : \A S \in SUBSET ClassName :
                       c \in S /\ ClosedUpward(S) => a \in S}

Holders(c) == {a \in AncestorsOf(c) \cap DOMAIN table :
                 HasMember(Members(a), query.goal)}

(* The first of the classes in S on the way from c to Object.              *)
Nearest(a, S) == a \in S /\ S \subseteq AncestorsOf(a)

SubtypeIsRight ==
  /\ answer = Yes <=> query.goal \in AncestorsOf(query.from)
  /\ answer = No => Object \in AncestorsOf(query.from)
  /\ answer = Nothing => Object \notin AncestorsOf(query.from)

LookupIsRight ==
  IF Holders(query.from) = {} THEN answer = Nothing
                              ELSE Nearest(answer, Holders(query.from))

AncestorIsRight ==
  Nearest(answer, AncestorsOf(query.from) \cap AncestorsOf(query.goal))

(* An answer is about the whole chain: a subtype is a descendant, a member *)
(* found is the most derived one a class inherits and none is found only   *)
(* where there is none, an ancestor is the least common one.               *)
AnswersAreRight ==
  walk = "answered" =>
    CASE query.fn = "is_subtype" -> SubtypeIsRight
      [] query.fn = "ancestor"   -> AncestorIsRight
      [] OTHER                   -> LookupIsRight
=============================================================================

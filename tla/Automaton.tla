----------------------------- MODULE Automaton ------------------------------
(***************************************************************************)
(* What Bison makes of a grammar's rules (lalr1.cc; external): the         *)
(* automaton of the items, and what it does in a state at a token.  No     *)
(* state of this grammar completes two rules (Parser's MachineAssumption), *)
(* so that SLR look-aheads decide as the LALR ones do.                     *)
(***************************************************************************)
EXTENDS Grammar, FiniteSets

DepthBound == 14

(* What can be reached from S along the pairs of R, all within Z.          *)
Reach(R, S, Z) ==
  LET reach[T \in SUBSET Z] ==
        LET U == T \cup {p[2] : p \in {q \in R : q[1] \in T}}
        IN IF U = T THEN T ELSE reach[U]
  IN reach[S]

-----------------------------------------------------------------------------
(* Items <<rule, the part of it that was not read>>, and states: the items *)
(* that begin after a symbol, those they open being implied.               *)
Begun(r, rules) == <<r, rules[r].rhs>>
Complete(items) == {i \in items : i[2] = <<>>}

(* The items that can begin where a symbol is expected.                    *)
Corners(rules) == {<<rule.lhs, rule.rhs[1]>> : rule \in {q \in Range(rules) : q.rhs # <<>>}}
Opened(rules, symbols) == [s \in symbols |->
  LET begun == Reach(Corners(rules), {s}, symbols)
  IN {Begun(r, rules) : r \in {q \in DOMAIN rules : rules[q].lhs \in begun}}]

Closure(items, opened) ==
  items \cup UNION {opened[Head(i[2])] : i \in items \ Complete(items)}

(* The states one symbol further, for each symbol that can come.           *)
Split(items) == [x \in {Head(i[2]) : i \in items \ Complete(items)} |->
                   {<<i[1], Tail(i[2])>> :
                      i \in {j \in items \ Complete(items) : Head(j[2]) = x}}]
Branches(items, opened) == Split(Closure(items, opened))

(* The states within n symbols of the start; DepthBound is enough when     *)
(* every branch leads to one of them.                                      *)
Within(start, opened) ==
  LET within[n \in 0 .. DepthBound] ==
        IF n = 0 THEN {start}
        ELSE LET near == within[n - 1]
             IN near \cup UNION {Range(Branches(k, opened)) : k \in near}
  IN within[DepthBound]

Numbered(S) ==
  LET seq[T \in SUBSET S] ==
        IF T = {} THEN <<>>
        ELSE LET x == CHOOSE y \in T : TRUE IN Append(seq[T \ {x}], x)
  IN seq[S]

Number(items, states) == CHOOSE s \in DOMAIN states : states[s] = items

-----------------------------------------------------------------------------
(* The tokens that can follow a nonterminal; only the empty rules vanish.  *)
Nullable(rules) == {rule.lhs : rule \in {q \in Range(rules) : q.rhs = <<>>}}
Vanish(nullable, rhs, from, to) == \A k \in from .. to : rhs[k] \in nullable

Beside(rule, nullable) ==
  {<<rule.rhs[p[1]], rule.rhs[p[2]]>> :
     p \in {q \in (DOMAIN rule.rhs) \X (DOMAIN rule.rhs) :
              q[1] < q[2] /\ Vanish(nullable, rule.rhs, q[1] + 1, q[2] - 1)}}
BeginWith(rule, nullable) ==
  {<<rule.lhs, rule.rhs[i]>> :
     i \in {j \in DOMAIN rule.rhs : Vanish(nullable, rule.rhs, 1, j - 1)}}
EndIn(rule, nullable) ==
  {<<rule.rhs[i], rule.lhs>> :
     i \in {j \in DOMAIN rule.rhs : Vanish(nullable, rule.rhs, j + 1, Len(rule.rhs))}}

FollowWith(rules, nullable, symbols) == [n \in Nonterminals(rules) |->
  LET ends == Reach(UNION {EndIn(rule, nullable) : rule \in Range(rules)}, {n},
                    symbols \cup {"start"})
      next == {p[2] : p \in {q \in UNION {Beside(rule, nullable) : rule \in Range(rules)} :
                                q[1] \in ends}}
  IN Reach(UNION {BeginWith(rule, nullable) : rule \in Range(rules)}, next, symbols)]
Follow(rules) == FollowWith(rules, Nullable(rules), Symbols(rules))

-----------------------------------------------------------------------------
(* What a state does at a token, from where the symbols lead from it and   *)
(* the rule it completes (NoRule when it completes none).  A conflict is   *)
(* settled by the levels of the rule and the token, where both have one;   *)
(* and the default is to reduce, whatever comes, except where an error     *)
(* could be shifted.                                                       *)
NoRule == [lhs |-> "none", rhs |-> <<>>]

Settle(level, tokenLevel, assoc) ==
  IF level = 0 \/ tokenLevel = 0 \/ level < tokenLevel THEN "shift"
  ELSE IF level > tokenLevel THEN "reduce"
  ELSE CASE assoc = "right"    -> "shift"
         [] assoc = "left"     -> "reduce"
         [] assoc = "nonassoc" -> "error"

Decide(token, leads, lhs, level, follow) ==
  CASE token \in leads /\ lhs # "none" -> Settle(level, Level(token), Assoc(token))
    [] token \in leads /\ lhs = "none" -> "shift"
    [] token \notin leads ->
         IF lhs # "none" /\ ("error" \in leads => token \in follow[lhs])
         THEN "reduce" ELSE "error"

(* The tables of the parser; YYerror and YYUNDEF are in no rule.  A state  *)
(* that only reduces is consistent: it does not even read the token.       *)
Decided(first, goto, complete, rules, tokens, follow) ==
  [first      |-> first,
   goto       |-> goto,
   complete   |-> complete,
   consistent |-> {s \in DOMAIN goto : complete[s] # {} /\ DOMAIN goto[s] = {}},
   decision   |-> [s \in DOMAIN goto |->
                     LET rule == IF complete[s] = {} THEN NoRule
                                 ELSE rules[CHOOSE r \in complete[s] : TRUE]
                         level == RuleLevel(rule, tokens)
                     IN [t \in tokens \cup {"YYerror", "YYUNDEF"} |->
                           Decide(t, DOMAIN goto[s], rule.lhs, level, follow)]]]

Connected(states, opened, rules) ==
  Decided(Number({Begun(1, rules)}, states),
          [s \in DOMAIN states |->
             LET next == Branches(states[s], opened)
             IN [x \in DOMAIN next |-> Number(next[x], states)]],
          [s \in DOMAIN states |-> {i[1] : i \in Complete(Closure(states[s], opened))}],
          rules, Tokens(rules), Follow(rules))

Opening(opened, rules) ==
  Connected(Numbered(Within({Begun(1, rules)}, opened)), opened, rules)

Generated(rules) == Opening(Opened(rules, Symbols(rules)), rules)
Tables == Generated(Rules)
=============================================================================

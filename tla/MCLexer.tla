------------------------------ MODULE MCLexer -------------------------------
(* Short files: every one over the characters of a start condition, taken  *)
(* as one piece or, if very short, cut in every clean way; and files put   *)
(* together from comments, strings and tokens.                             *)
EXTENDS Lexer, SequencesExt

Anything == BoundedSeq(Char, 3)
Commented == BoundedSeq({"letter", "newline", "(", "*", ")"}, 6)
Quoted == BoundedSeq({"letter", "space", "newline", "quote", "backslash"}, 6)

Whole(text) == [text |-> text, cuts |-> {0, Len(text)}]

Cut(text) ==
  {s \in {[text |-> text, cuts |-> cuts] : cuts \in SUBSET (0 .. Len(text))} :
     Clean(s)}

(* Texts that do not merge with what follows, and where to cut in them.    *)
Pieces ==
  {[text |-> <<"mark">>, cuts |-> {}],
   [text |-> <<"letter", "letter", "space", ")">>, cuts |-> {2, 3}],
   [text |-> <<"quote", "letter", "backslash", "quote", "quote">>, cuts |-> {}],
   [text |-> <<"quote", "backslash", "newline", "space", "(", "*", "quote">>,
    cuts |-> {}],
   [text |-> <<"newline", "newline", "*">>, cuts |-> {2}],
   [text |-> <<"(", "*", "newline", "letter", "*", ")">>, cuts |-> {}],
   [text |-> <<"(", "*", "(", "*", "quote", "*", ")", "/", "/", "*", ")">>,
    cuts |-> {}],
   [text |-> <<"/", "/", "(", "*", "newline", "mark">>, cuts |-> {4, 5}]}

Text(ps) == FlattenSeq([i \in DOMAIN ps |-> ps[i].text])

Composed(ps) ==
  LET Before(i) == Len(Text(SubSeq(ps, 1, i - 1)))
  IN  [text |-> Text(ps),
       cuts |-> {Len(Text(ps))}
                  \cup UNION {{Before(i) + c : c \in {0} \cup ps[i].cuts} :
                                i \in DOMAIN ps}]

Compositions == {Composed(ps) : ps \in BoundedSeq(Pieces, 3)}

ASSUME CompositionsAreClean == \A s \in Compositions : Clean(s)

MCSources == {Whole(text) : text \in Anything \cup Commented \cup Quoted}
               \cup UNION {Cut(text) : text \in Anything}
               \cup Compositions
=============================================================================

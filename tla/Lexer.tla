------------------------------- MODULE Lexer --------------------------------
(***************************************************************************)
(* The scanner of lexer.lex, driven by Driver::lex: start conditions,      *)
(* nested comments, strings, and the location that every token carries.    *)
(* One step is one match: the location is advanced by the match            *)
(* (YY_USER_ACTION), then the action of the rule runs.  A rule that        *)
(* returns includes the loc.step() with which the next yylex() begins.     *)
(* Words stand for identifiers, keywords and literals, "mark" for the      *)
(* operators, "#" for what is no token; what a string holds is left out.   *)
(***************************************************************************)
EXTENDS Lexemes, FiniteSetsExt

CONSTANT Sources  (* the files scanned: their text, and where its pieces are *)
                  (* meant to be cut, for those that are meant to be clean   *)

Char == {"letter", "mark", "space", "newline", "(", "*", ")", "/",
         "quote", "backslash", "#"}

ASSUME SourcesAssumption ==
  \A s \in Sources :
    s.text \in Seq(Char) /\ s.cuts \subseteq 0 .. Len(s.text)

VARIABLES
  source,      (* the file                                                   *)
  read,        (* how many characters of it have been matched                *)
  condition,   (* the start condition                                        *)
  loc,         (* the location: where the match begins and where it ends     *)
  starts,      (* comments_start_pos, with the index it is meant to be of    *)
  string,      (* string_start_loc.begin, with the index it is meant to be of*)
  tokens,      (* the tokens returned: their index, and begin of their loc   *)
  reports,     (* the errors reported: what and where                        *)
  res,         (* lex: 1 once a YYerror was returned                         *)
  ended        (* YYEOF was returned                                         *)

vars ==
  <<source, read, condition, loc, starts, string, tokens, reports, res, ended>>

-----------------------------------------------------------------------------
(* Positions and locations of Bison.                                       *)
First == [line |-> 1, column |-> 1]

Columns(p, n) == [p EXCEPT !.column = IF @ + n < 1 THEN 1 ELSE @ + n]

Lines(p, n) == [line |-> p.line + n, column |-> 1]

Step(l) == [l EXCEPT !.begin = l.end]

Match(n) == [loc EXCEPT !.end = Columns(@, n)]

-----------------------------------------------------------------------------
(* The text still to be matched.                                           *)
Ahead(k) == IF read + k <= Len(source.text) THEN source.text[read + k] ELSE "eof"

Run(S) == Max({n \in 0 .. Len(source.text) - read :
                 \A k \in 1 .. n : source.text[read + k] \in S})

AtOpening == Ahead(1) = "(" /\ Ahead(2) = "*"
AtClosing == Ahead(1) = "*" /\ Ahead(2) = ")"

Consume(n) == read' = read + n /\ UNCHANGED source

(* What a rule can do at its end: scan on with a location, return a token  *)
(* or return YYerror after a report.                                       *)
Go(l) == loc' = l /\ UNCHANGED <<tokens, reports, res, ended>>

Return(token) == /\ tokens' = Append(tokens, token)
                 /\ UNCHANGED <<reports, res, ended>>

Fail(what, place) == /\ reports' = Append(reports, [what |-> what, at |-> place])
                     /\ res' = 1
                     /\ UNCHANGED <<tokens, ended>>

-----------------------------------------------------------------------------
Init == /\ source \in Sources
        /\ read = 0 /\ condition = "INITIAL"
        /\ loc = [begin |-> First, end |-> First]
        /\ starts = <<>> /\ string = [at |-> 0, begin |-> First]
        /\ tokens = <<>> /\ reports = <<>> /\ res = 0 /\ ended = FALSE

In(c) == condition = c /\ ~ ended

(* Start condition INITIAL.  Slip: white space does not move the begin.    *)
WhitespaceUnstepped ==
  /\ In("INITIAL") /\ Ahead(1) = "space"
  /\ \E n \in {Run({"space"})} : Consume(n) /\ Go(Match(n))
  /\ UNCHANGED <<condition, starts, string>>

Whitespace ==
  /\ In("INITIAL") /\ Ahead(1) = "space"
  /\ \E n \in {Run({"space"})} : Consume(n) /\ Go(Step(Match(n)))
  /\ UNCHANGED <<condition, starts, string>>

Newlines ==
  /\ In("INITIAL") /\ Ahead(1) = "newline"
  /\ \E n \in {Run({"newline"})} :
       Consume(n) /\ Go(Step([Match(n) EXCEPT !.end = Lines(@, n)]))
  /\ UNCHANGED <<condition, starts, string>>

Token ==
  /\ In("INITIAL")
  /\ \/ Ahead(1) \in {"letter", "mark", ")"}
     \/ Ahead(1) = "(" /\ ~ AtOpening
     \/ Ahead(1) = "*" /\ ~ AtClosing
     \/ Ahead(1) = "/" /\ Ahead(2) # "/"
  /\ \E n \in {IF Ahead(1) = "letter" THEN Run({"letter"}) ELSE 1} :
       Consume(n) /\ loc' = Step(Match(n))
  /\ Return([at |-> read + 1, begin |-> loc.begin])
  /\ UNCHANGED <<condition, starts, string>>

LineComment ==
  /\ In("INITIAL") /\ Ahead(1) = "/" /\ Ahead(2) = "/"
  /\ \E n \in {Run(Char \ {"newline"})} : Consume(n) /\ Go(Match(n))
  /\ UNCHANGED <<condition, starts, string>>

OpenString ==
  /\ In("INITIAL") /\ Ahead(1) = "quote"
  /\ Consume(1) /\ Go(Match(1))
  /\ string' = [at |-> read + 1, begin |-> loc.begin]
  /\ condition' = "STRING"
  /\ UNCHANGED starts

OpenComment ==
  /\ In("INITIAL") /\ AtOpening
  /\ Consume(2) /\ Go(Match(2))
  /\ starts' = Append(starts, [at |-> read + 1, begin |-> loc.begin])
  /\ condition' = "COMMENT"
  /\ UNCHANGED string

NoToken ==
  /\ In("INITIAL")
  /\ \/ /\ AtClosing
        /\ Consume(2) /\ loc' = Step(Match(2))
        /\ Fail("unmatched closing", loc.begin)
     \/ /\ Ahead(1) \in {"#", "backslash"}
        /\ Consume(1) /\ loc' = Step(Match(1))
        /\ Fail("invalid character", loc.begin)
  /\ UNCHANGED <<condition, starts, string>>

EndOfFile ==
  /\ In("INITIAL") /\ Ahead(1) = "eof"
  /\ ended' = TRUE
  /\ UNCHANGED <<source, read, condition, loc, starts, string, tokens,
                 reports, res>>

-----------------------------------------------------------------------------
(* Start condition STRING_STATE.                                           *)
CloseString ==
  /\ In("STRING") /\ Ahead(1) = "quote"
  /\ Consume(1) /\ loc' = Step(Match(1))
  /\ Return(string)
  /\ condition' = "INITIAL"
  /\ UNCHANGED <<starts, string>>

(* A backslash, the end of the line and the blanks that begin the next one. *)
BreakString ==
  /\ In("STRING") /\ Ahead(1) = "backslash" /\ Ahead(2) = "newline"
  /\ \E n \in {Max({k \in 2 .. Len(source.text) - read :
                      \A j \in 3 .. k : source.text[read + j] = "space"})} :
       /\ Consume(n)
       /\ Go([begin |-> Match(n).end,
              end   |-> Columns(Lines(Match(n).end, 1), n - 2)])
  /\ UNCHANGED <<condition, starts, string>>

(* Slip: an escaped quote ends its string.                                 *)
StringTextUnescaped ==
  /\ In("STRING")
  /\ \/ /\ Ahead(1) \notin {"quote", "backslash", "newline", "eof"}
        /\ \E n \in {Run(Char \ {"quote", "backslash", "newline"})} :
             Consume(n) /\ Go(Match(n))
     \/ /\ Ahead(1) = "backslash" /\ Ahead(2) \in {"quote", "backslash"}
        /\ Consume(1) /\ Go(Match(1))
  /\ UNCHANGED <<condition, starts, string>>

StringText ==
  /\ In("STRING")
  /\ \/ /\ Ahead(1) \notin {"quote", "backslash", "newline", "eof"}
        /\ \E n \in {Run(Char \ {"quote", "backslash", "newline"})} :
             Consume(n) /\ Go(Match(n))
     \/ /\ Ahead(1) = "backslash" /\ Ahead(2) \in {"quote", "backslash"}
        /\ Consume(2) /\ Go(Match(2))
  /\ UNCHANGED <<condition, starts, string>>

(* An unknown escape is reported where it begins, and the string goes on.  *)
BadEscape ==
  /\ In("STRING") /\ Ahead(1) = "backslash"
  /\ Ahead(2) \notin {"quote", "backslash", "newline", "eof"}
  /\ Consume(2) /\ loc' = Step(Match(2))
  /\ Fail("unknown escape", Columns(Match(2).end, -2))
  /\ UNCHANGED <<condition, starts, string>>

(* A newline is reported and left out; no line is counted.                 *)
NewlineInString ==
  /\ In("STRING") /\ Ahead(1) = "newline"
  /\ Consume(1) /\ loc' = Step(Match(1))
  /\ Fail("newline in string", Columns(Match(1).end, -1))
  /\ UNCHANGED <<condition, starts, string>>

(* A backslash that ends the file is left to the rule for any character,   *)
(* which reports and returns nothing.                                      *)
LoneBackslash ==
  /\ In("STRING") /\ Ahead(1) = "backslash" /\ Ahead(2) = "eof"
  /\ Consume(1) /\ loc' = Match(1)
  /\ reports' = Append(reports, [what |-> "invalid in string",
                                 at   |-> string.begin])
  /\ UNCHANGED <<condition, starts, string, tokens, res, ended>>

(* Slip: neither returns nor leaves the start condition.                   *)
EndInStringForever ==
  /\ In("STRING") /\ Ahead(1) = "eof"
  /\ Consume(0) /\ Go(loc)
  /\ UNCHANGED <<condition, starts, string>>

EndInString ==
  /\ In("STRING") /\ Ahead(1) = "eof"
  /\ Consume(0) /\ loc' = Step(loc)
  /\ Fail("end in string", string.begin)
  /\ condition' = "INITIAL"
  /\ UNCHANGED <<starts, string>>

-----------------------------------------------------------------------------
(* Start condition COMMENT_STATE.                                          *)
NestComment ==
  /\ In("COMMENT") /\ AtOpening
  /\ Consume(2) /\ Go(Match(2))
  /\ starts' = Append(starts, [at |-> read + 1, begin |-> loc.begin])
  /\ UNCHANGED <<condition, string>>

(* Slip: the condition is left when one comment is still open.             *)
CloseCommentEarly ==
  /\ In("COMMENT") /\ AtClosing
  /\ Consume(2) /\ Go(Match(2))
  /\ starts' = SubSeq(starts, 1, Len(starts) - 1)
  /\ condition' = "INITIAL"
  /\ UNCHANGED string

CloseComment ==
  /\ In("COMMENT") /\ AtClosing
  /\ Consume(2) /\ Go(Match(2))
  /\ starts' = SubSeq(starts, 1, Len(starts) - 1)
  /\ condition' = IF Len(starts) = 1 THEN "INITIAL" ELSE "COMMENT"
  /\ UNCHANGED string

(* Slip: the lines of a comment are not counted.                           *)
CommentTextUncounted ==
  /\ In("COMMENT") /\ ~ AtOpening /\ ~ AtClosing
  /\ \/ /\ Ahead(1) = "newline"
        /\ \E n \in {Run({"newline"})} : Consume(n) /\ Go(Step(Match(n)))
     \/ /\ Ahead(1) \notin {"newline", "eof"}
        /\ Consume(1) /\ Go(Step(Match(1)))
  /\ UNCHANGED <<condition, starts, string>>

CommentText ==
  /\ In("COMMENT") /\ ~ AtOpening /\ ~ AtClosing
  /\ \/ /\ Ahead(1) = "newline"
        /\ \E n \in {Run({"newline"})} :
             Consume(n) /\ Go(Step([Match(n) EXCEPT !.end = Lines(@, n)]))
     \/ /\ Ahead(1) \notin {"newline", "eof"}
        /\ Consume(1) /\ Go(Step(Match(1)))
  /\ UNCHANGED <<condition, starts, string>>

(* The other report of this rule uses the top of an empty stack; it is not *)
(* reached as long as CommentsAreOpen holds.                               *)
EndInComment ==
  /\ In("COMMENT") /\ Ahead(1) = "eof" /\ starts # <<>>
  /\ Consume(0) /\ loc' = Step(loc)
  /\ Fail("unmatched comment", starts[Len(starts)].begin)
  /\ condition' = "INITIAL"
  /\ UNCHANGED <<starts, string>>

Initial == \/ Whitespace \/ Newlines \/ Token \/ LineComment \/ OpenString
           \/ OpenComment \/ NoToken \/ EndOfFile

InString == \/ CloseString \/ BreakString \/ StringText \/ BadEscape
            \/ NewlineInString \/ LoneBackslash \/ EndInString

InComment == NestComment \/ CloseComment \/ CommentText \/ EndInComment

Next == Initial \/ InString \/ InComment

Spec == Init /\ [][Next]_vars /\ WF_vars(Next)

(* What lex returns once the scanner has come to the end.                  *)
ExitCode == IF reports # <<>> THEN 1 ELSE res
-----------------------------------------------------------------------------
(* The place of the i-th character: its line, and its column in that line. *)
LineEnds(i) == {k \in 1 .. i - 1 : source.text[k] = "newline"}

Place(i) == [line   |-> 1 + Cardinality(LineEnds(i)),
             column |-> i - Max({0} \cup LineEnds(i))]

Reported(what) == \E i \in DOMAIN reports : reports[i].what = what

AfterComment(i) ==
  i > 2 /\ source.text[i - 2] = "*" /\ source.text[i - 1] = ")"

(* The end of the location is the place scanning is at, whatever comments, *)
(* line ends and broken strings were matched, in a file whose strings      *)
(* hold no bare newline.                                                   *)
EndIsTrue ==
  ~ Reported("newline in string") => loc.end = Place(read + 1)

(* A token that does not directly follow the end of a comment is given the *)
(* place where it begins, and a string that of its quote.                  *)
TokensAreInPlace ==
  ~ Reported("newline in string") =>
    \A i \in DOMAIN tokens :
      ~ AfterComment(tokens[i].at) => tokens[i].begin = Place(tokens[i].at)

(* The scanner is in a comment as long as one is open, so that the rules   *)
(* of comments never use the top of an empty stack.                        *)
CommentsAreOpen ==
  ~ Reported("unmatched comment") => (condition = "COMMENT" <=> starts # <<>>)

(* A file that is cut into tokens, comments and blanks as the language has *)
(* them is scanned without a report, and into those tokens.                *)
CleanIsScanned ==
  Clean(source) =>
    /\ ExitCode = 0
    /\ ended => {tokens[i].at : i \in DOMAIN tokens} = TokensOf(source)

(* The scanner comes to the end of every file, in whichever condition that *)
(* finds it.                                                               *)
ScanEnds == <>ended

-----------------------------------------------------------------------------
(* What the comments of lexer.lex say of locations, and is not so.         *)

(* "Maintains the current location across the code."                       *)
LocationIsCurrent == loc.end = Place(read + 1)

(* "Stack to track the nested comments number and starting positions."     *)
StartsArePositions ==
  \A i \in DOMAIN starts : starts[i].begin = Place(starts[i].at)

(* "Prepares location for new token. It moves loc.begin to where loc.end   *)
(* currently is": a token of a file without strings begins where it is.    *)
NewTokensArePrepared ==
  \A i \in DOMAIN tokens :
    "quote" \notin {source.text[k] : k \in 1 .. read} =>
      tokens[i].begin = Place(tokens[i].at)
=============================================================================

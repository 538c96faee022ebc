-------------------------- MODULE TemplateBalance --------------------------
(***************************************************************************)
(* `gitopsctl chart templates` (internal/chart/templates.go): the template *)
(* files of a chart are scanned, one by one, for block actions that have   *)
(* no end.  A text is a sequence of pieces.  The delimiters of actions and *)
(* of comments have the names of Go's lexer; "dq", "bq", "bs" and "nl" are *)
(* a double quote, a back quote, a backslash and a line end.  Trim markers *)
(* and blanks are left out.                                                *)
(***************************************************************************)
EXTENDS Integers, SequencesExt, FiniteSetsExt

Pieces == {"word", "if", "end", "leftDelim", "rightDelim", "leftComment", "rightComment",
           "dq", "bq", "bs", "nl"}
blockOpeners == {"if"}   \* if, range, with, define and block are one here

\* A chart: whether the walk of its directories fails, and the files it finds
\* in the order of sort.Strings.  A file that cannot be read has NoText.
NoText == <<"unreadable">>

-----------------------------------------------------------------------------
\* findActionEnd: the quote that is open before each piece from "from" on; in
\* a quote of either kind a backslash hides the next piece.
Quote(was, p) ==
  CASE was = "none" /\ p \in {"dq", "bq"} -> p
    [] was \in {"dq", "bq"} /\ p = was -> "none"
    [] was = "dq" /\ p = "bs" -> "dq hides"
    [] was = "bq" /\ p = "bs" -> "bq hides"
    [] was = "dq hides" -> "dq"
    [] was = "bq hides" -> "bq"
    [] OTHER -> was
QuoteBefore(text, from) ==
  LET q[k \in from..(Len(text) + 1)] ==
        IF k = from THEN "none" ELSE Quote(q[k - 1], text[k - 1])
  IN q

\* Mutant: a }} inside a string ends the action.
ActionEndsUnquoted(text, from) == {k \in from..Len(text) : text[k] = "rightDelim"}
ActionEnds(text, from) ==
  LET q == QuoteBefore(text, from)
  IN {k \in from..Len(text) : q[k] = "none" /\ text[k] = "rightDelim"}

\* The state of checkFile's loop: the piece it goes on at, the line counter,
\* the lines of the open blocks, the findings, and whether it has returned.
Start == [next |-> 1, line |-> 1, stack |-> <<>>, found |-> {}, returned |-> FALSE]
Report(s, rule) == [s EXCEPT !.found = @ \cup {[rule |-> rule, line |-> s.line]}]

\* The switch on the keyword of the action from k to end.  The continue after
\* an orphan skips the assignment to i: the scan goes on inside the action.
Block(s, keyword, end) ==
  CASE keyword \in blockOpeners ->
         [s EXCEPT !.stack = Append(@, s.line), !.next = end + 1]
    [] keyword = "end" /\ s.stack = <<>> -> Report(s, "orphan-end")
    [] keyword = "end" /\ s.stack # <<>> -> [s EXCEPT !.stack = Front(@), !.next = end + 1]
    [] OTHER -> [s EXCEPT !.next = end + 1]

\* One round of the loop; the pieces before s.next have been passed over.
Scan(text, s, k) ==
  IF s.returned \/ k < s.next THEN s
  ELSE CASE text[k] = "nl" -> [s EXCEPT !.line = @ + 1]
         [] text[k] = "leftDelim" /\ ActionEnds(text, k + 1) = {} ->
              [Report(s, "unterminated") EXCEPT !.returned = TRUE]
         [] text[k] = "leftDelim" /\ ActionEnds(text, k + 1) # {} ->
              Block(s, text[k + 1], Min(ActionEnds(text, k + 1)))
         [] OTHER -> s

\* The state after each piece.
Scanning(text) ==
  LET s[k \in 0..Len(text)] == IF k = 0 THEN Start ELSE Scan(text, s[k - 1], k)
  IN s

checkFile(text) ==
  IF text = NoText THEN {[rule |-> "read", line |-> 0]}
  ELSE LET s == Scanning(text)[Len(text)]
       IN s.found \cup IF s.returned THEN {}
                       ELSE {[rule |-> "unclosed", line |-> l] : l \in ToSet(s.stack)}

\* CheckTemplateBalance: the violations of each file; file 0 is the chart.
Violations(chart) ==
  IF ~chart.walked THEN {[file |-> 0, rule |-> "walk", line |-> 0]}
  ELSE UNION {{[file |-> f, rule |-> v.rule, line |-> v.line] : v \in checkFile(chart.files[f])} :
                f \in DOMAIN chart.files}

-----------------------------------------------------------------------------
(* What the findings should be, from the lexer of Go's text/template and    *)
(* the matching of blocks, with no stack.                                   *)

\* Where the lexer is before each piece, and where a piece takes it.
Lex(was, p, comment) ==
  CASE was = "text" /\ p = "leftDelim" -> IF comment THEN "comment" ELSE "action"
    [] was = "action" /\ p \in {"dq", "bq"} -> p
    [] was = "action" /\ p = "rightDelim" -> "text"
    [] was = "comment" /\ p = "rightComment" -> "action"
    [] was \in {"dq", "bq"} /\ p = was -> "action"
    [] was = "dq" /\ p = "bs" -> "escape"
    [] was = "escape" -> "dq"
    [] OTHER -> was
Mode(text) ==
  LET m[k \in 1..(Len(text) + 1)] ==
        IF k = 1 THEN "text"
        ELSE Lex(m[k - 1], text[k - 1], k <= Len(text) /\ text[k] = "leftComment")
  IN m

\* The actions that begin with one of these words, and those without an end.
Starts(text) == {k \in DOMAIN text : Mode(text)[k] = "text" /\ text[k] = "leftDelim"}
Actions(text, words) == {k \in Starts(text) : k < Len(text) /\ text[k + 1] \in words}
Open(text) == {k \in Starts(text) : \A j \in k..Len(text) : Mode(text)[j + 1] # "text"}

\* Texts the scan and the lexer read alike: an action lies on one line and
\* holds no further delimiter, a comment holds no quote and no }}, a raw string
\* has no backslash, and the strings behind an end have no delimiter either.
Plain(text) ==
  LET m == Mode(text) IN \A k \in DOMAIN text :
    /\ text[k] = "nl" => m[k] = "text"
    /\ text[k] = "leftDelim" => m[k] # "action"
    /\ text[k] = "leftDelim" /\ m[k] # "text" =>
         \A i \in Actions(text, {"end"}) : i < k => \E j \in (i + 1)..k : m[j] = "text"
    /\ m[k] = "comment" => text[k] \notin {"dq", "bq", "rightDelim"}
    /\ m[k] = "bq" => text[k] # "bs"

\* An opener is closed by the first end from which on the blocks between are
\* balanced; an end without such an opener is an orphan.
Balanced(text, i, j) ==
  Cardinality(Actions(text, blockOpeners) \cap i..j) = Cardinality(Actions(text, {"end"}) \cap i..j)
Orphans(text) ==
  {j \in Actions(text, {"end"}) \ Open(text) :
     ~\E i \in Actions(text, blockOpeners) : i < j /\ Balanced(text, i, j)}
Unclosed(text) ==
  {i \in Actions(text, blockOpeners) \ Open(text) :
     ~\E j \in Actions(text, {"end"}) \ Open(text) : i < j /\ Balanced(text, i, j)}

\* Every structural error: the ends without a block, the actions without an
\* end, and the blocks without an end, those before such an action included.
Line(text, k) == 1 + Cardinality({j \in 1..(k - 1) : text[j] = "nl"})
Findings(text, rule, S) == {[rule |-> rule, line |-> Line(text, k)] : k \in S}
Expected(text) ==
  Findings(text, "orphan-end", Orphans(text))
    \cup Findings(text, "unterminated", Open(text))
    \cup Findings(text, "unclosed", Unclosed(text))
=============================================================================

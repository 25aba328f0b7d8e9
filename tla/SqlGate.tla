------------------------------ MODULE SqlGate ------------------------------
(***************************************************************************)
(* How the tools read SQL before they send it (internal/query/result.go):  *)
(* which tool a text belongs to, whether it holds several statements,      *)
(* whether it redirects its output, and the wrap that bounds its rows.     *)
(*                                                                         *)
(* A text is a sequence of symbols: the characters the scanners look at,   *)
(* and words ("SELECT", "x") that stand for a run of identifier            *)
(* characters; upper case stands for either case, "bq" for a backtick,     *)
(* "$$" for the mark of a heredoc and "#!" for that of a comment: the code *)
(* takes the last two for text like any other.  The scanners, which never  *)
(* parse, are compared with a reference that splits the text into lexemes. *)
(***************************************************************************)
EXTENDS Integers, Sequences, SequencesExt, FiniteSetsExt

CONSTANTS
  Alphabets,  \* sets of symbols, of which an agent uses one
  MaxLen      \* bound: the longest text explored

Blanks == {" ", "\n"}
Quotes == {"'", "\"", "bq"}
Words  == {"SELECT", "INSERT", "FORMAT", "INTO OUTFILE", "FROM", "LIMIT", "x", "n"}
Space     == " "
Separator == ";"
Heredoc   == "$$"
Signs     == {"\\", "-", "/", "*", Separator, "(", ")", "#!", Heredoc}

ASSUME AlphabetAssumption ==
  UNION Alphabets \subseteq Blanks \cup Quotes \cup Words \cup Signs
ASSUME MaxLenAssumption   == MaxLen \in Nat

VARIABLES
  symbols,   \* the symbols this agent uses
  sql        \* the text it has typed so far

(***************************************************************************)
(* The scanners.                                                           *)
(***************************************************************************)
At(s, i, mark) == i + Len(mark) - 1 <= Len(s) /\ SubSeq(s, i, i + Len(mark) - 1) = mark

\* The least place of a non-empty set; past the end of s when there is none.
FirstOf(s, places) == IF places = {} THEN Len(s) + 1 ELSE Min(places)

\* The newline at i or after it.
LineEnd(s, i) == FirstOf(s, {j \in i..Len(s) : s[j] = "\n"})

\* strings.TrimSpace
TrimSpace(s) ==
  LET solid == {i \in DOMAIN s : s[i] \notin Blanks}
  IN IF solid = {} THEN <<>> ELSE SubSeq(s, Min(solid), Max(solid))

\* strings.TrimRight(s, "; ")
Trailers    == {Separator, Space}
TrimTail(s) ==
  LET kept == {i \in DOMAIN s : s[i] \notin Trailers}
  IN IF kept = {} THEN <<>> ELSE SubSeq(s, 1, Max(kept))

\* The state the scanner is in after a character seen in the normal state.
Opened(s, i) ==
  CASE s[i] \in Quotes        -> s[i]
    [] At(s, i, <<"-", "-">>) -> "line"
    [] At(s, i, <<"/", "*">>) -> "block"
    [] OTHER                  -> "normal"

\* Nothing escapes inside a literal.
ScanNoEscape(s, at, i) ==
  CASE at = "normal" -> [at |-> Opened(s, i), skip |-> Opened(s, i) \in {"line", "block"}]
    [] at \in Quotes -> [at |-> IF s[i] = at THEN "normal" ELSE at, skip |-> FALSE]
    [] at = "line"   -> [at |-> IF s[i] = "\n" THEN "normal" ELSE at, skip |-> FALSE]
    [] at = "block"  -> [at |-> IF At(s, i, <<"*", "/">>) THEN "normal" ELSE at,
                         skip |-> At(s, i, <<"*", "/">>)]

\* One turn of the loop: the state after character i, and whether i++ skips the
\* next one: the second half of a mark, or what a backslash escapes.
Scan(s, at, i) ==
  CASE at = "normal" -> [at |-> Opened(s, i), skip |-> Opened(s, i) \in {"line", "block"}]
    [] at \in Quotes -> [at |-> IF s[i] = at THEN "normal" ELSE at,
                         skip |-> s[i] = "\\" /\ at # "bq"]
    [] at = "line"   -> [at |-> IF s[i] = "\n" THEN "normal" ELSE at, skip |-> FALSE]
    [] at = "block"  -> [at |-> IF At(s, i, <<"*", "/">>) THEN "normal" ELSE at,
                         skip |-> At(s, i, <<"*", "/">>)]

\* A separator, in the normal state, with anything but whitespace after it.
Separates(s, at, i) ==
  at = "normal" /\ s[i] = Separator /\ TrimSpace(SubSeq(s, i + 1, Len(s))) # <<>>

Turn(s, acc, i) ==
  IF acc.skip THEN [acc EXCEPT !.skip = FALSE]
  ELSE LET next == Scan(s, acc.at, i)
       IN [at |-> next.at, skip |-> next.skip,
           multiple |-> acc.multiple \/ Separates(s, acc.at, i)]

\* The loop's variables after each character.
Scanned(s) ==
  LET after[i \in 0..Len(s)] ==
        IF i = 0 THEN [at |-> "normal", skip |-> FALSE, multiple |-> FALSE]
        ELSE Turn(s, after[i - 1], i)
  IN after

ContainsMultipleStatements(s) == Scanned(s)[Len(s)].multiple

\* A comment's mark is skipped, but not the comment.
AfterCommentMarkOnly(s, i) ==
  IF At(s, i, <<"-", "-">>) \/ At(s, i, <<"/", "*">>) THEN i + 2 ELSE i

\* The place after the comment that starts at i, or i.  A block comment's end is
\* looked for from its opening mark on, so "/*/" is taken for a whole comment.
AfterComment(s, i) ==
  CASE At(s, i, <<"-", "-">>) -> LineEnd(s, i) + 1
    [] At(s, i, <<"/", "*">>) -> FirstOf(s, {j \in i..Len(s) : At(s, j, <<"*", "/">>)}) + 2
    [] OTHER                  -> i

\* Where the first token starts, looked for from each place on: whitespace, comments
\* and opening parentheses are passed over.
TokenStart(s) ==
  LET start[i \in 1..(Len(s) + 3)] ==
        IF i > Len(s) THEN Len(s) + 1
        ELSE CASE s[i] \in Blanks \cup {"("}  -> start[i + 1]
               [] AfterComment(s, i) # i      -> start[AfterComment(s, i)]
               [] OTHER                       -> i
  IN start

\* Only whitespace or an opening parenthesis ends the first token.
leadingKeyword(s) ==
  LET start == TokenStart(s)[1]
      end   == FirstOf(s, {j \in start..Len(s) : s[j] \in Blanks \cup {"("}})
  IN SubSeq(s, start, end - 1)

\* Only whitespace looked at.
IsBlankTrimmed(s) == TrimSpace(s) = <<>>

IsBlank(s) == leadingKeyword(s) = <<>>

\* SELECT stands for every row-returning keyword.
IsRowReturning(s) == leadingKeyword(s) = <<"SELECT">>
canBound(s)       == leadingKeyword(s) = <<"SELECT">>

Prefix(inner) == <<"SELECT", Space, "*", Space, "FROM", Space, "(">> \o inner

\* The closing parenthesis on the line of the query.
BoundOnOneLine(s) ==
  IF ~canBound(s) THEN s
  ELSE Prefix(TrimSpace(TrimTail(TrimSpace(s)))) \o <<")", Space, "LIMIT", Space, "n">>

Bound(s) ==
  IF ~canBound(s) THEN s
  ELSE Prefix(TrimSpace(TrimTail(TrimSpace(s)))) \o <<"\n", ")", Space, "LIMIT", Space, "n">>

\* Each line up to its first "--": what is dropped, and what remains of each prefix.
Dropped(s, i) == \E j \in 1..i : At(s, j, <<"-", "-">>) /\ \A k \in j..i : s[k] # "\n"

Remains(s) ==
  LET kept[i \in 0..Len(s)] ==
        IF i = 0 THEN <<>>
        ELSE IF Dropped(s, i) THEN kept[i - 1] ELSE Append(kept[i - 1], s[i])
  IN kept

stripLineComments(s) == Remains(s)[Len(s)]

\* FORMAT and a name anywhere.
HasOutputWords(s) == \E i \in DOMAIN s : At(s, i, <<"FORMAT", Space>>)

\* FORMAT only when it is the last word but one and a space follows it; INTO
\* OUTFILE anywhere.  A word before FORMAT with nothing between makes it a part
\* of a longer identifier.
HasUnsupportedOutputClause(s) ==
  LET text    == TrimTail(TrimSpace(stripLineComments(s)))
      formats == {i \in DOMAIN text : At(text, i, <<"FORMAT", Space>>)}
      f       == Max(formats)
      tail    == TrimSpace(SubSeq(text, f + 2, Len(text)))
  IN \/ text # <<>> /\ Last(text) = "INTO OUTFILE"
     \/ \E i \in DOMAIN text : At(text, i, <<"INTO OUTFILE", Space>>)
     \/ /\ formats # {}
        /\ f = 1 \/ text[f - 1] \notin Words
        /\ tail # <<>> /\ \A i \in DOMAIN tail : tail[i] \in Words \ {"INTO OUTFILE"}

(***************************************************************************)
(* An agent types.                                                         *)
(***************************************************************************)
Type(c) ==
  /\ Len(sql) < MaxLen
  /\ sql' = Append(sql, c)
  /\ UNCHANGED symbols

Init == symbols \in Alphabets /\ sql = <<>>
Next == \E c \in symbols : Type(c)
Spec == Init /\ [][Next]_<<symbols, sql>>

(***************************************************************************)
(* The reference: a text as the lexemes of the server's grammar, each with *)
(* its kind.  A quote opens a literal that the same quote ends unless an   *)
(* odd run of backslashes stands before it, "$$" one that the next "$$"    *)
(* ends; two dashes and "#!" open a comment to the end of the line, "/*"   *)
(* one to the next "*/".  What is never ended is "broken" and runs to the  *)
(* end.                                                                    *)
(***************************************************************************)
Openers == Quotes \cup {Heredoc}

Escaped(s, i, j) ==
  LET backslashes == Max({k \in 0..(j - i - 1) : \A h \in 1..k : s[j - h] = "\\"})
  IN s[i] # Heredoc /\ backslashes % 2 = 1

LineComment(s, i) == s[i] = "#!" \/ At(s, i, <<"-", "-">>)

LiteralEnds(s, i) == {j \in (i + 1)..Len(s) : s[j] = s[i] /\ ~Escaped(s, i, j)}
CommentEnds(s, i) == {j \in (i + 2)..(Len(s) - 1) : At(s, j, <<"*", "/">>)}
WordEnd(s, i)     == FirstOf(s, {j \in i..Len(s) : s[j] \notin Words}) - 1

\* The lexeme that starts at i, and its last place.
LexemeAt(s, i) ==
  LET lexeme(kind, last) == [kind |-> kind, last |-> last]
  IN CASE s[i] \in Words   -> lexeme("word", WordEnd(s, i))
       [] s[i] \in Openers -> IF LiteralEnds(s, i) = {} THEN lexeme("broken", Len(s))
                              ELSE lexeme("literal", Min(LiteralEnds(s, i)))
       [] LineComment(s, i) -> lexeme("comment", LineEnd(s, i) - 1)
       [] At(s, i, <<"/", "*">>) ->
            IF CommentEnds(s, i) = {} THEN lexeme("broken", Len(s))
            ELSE lexeme("comment", Min(CommentEnds(s, i)) + 1)
       [] OTHER -> lexeme("sign", i)

Kind(s, i)   == LexemeAt(s, i).kind
Lexeme(s, i) == SubSeq(s, i, LexemeAt(s, i).last)

\* The place after the blank or the lexeme that starts at i.
After(s, i) == IF s[i] \in Blanks THEN i + 1 ELSE LexemeAt(s, i).last + 1

\* The places blanks and lexemes start at, read from i on.
Places(s) ==
  LET from[i \in 1..(Len(s) + 1)] ==
        IF i > Len(s) THEN {} ELSE {i} \cup from[After(s, i)]
  IN from

\* Where the lexemes start, and those the server reads: no comments.
Starts(s) == {i \in Places(s)[1] : s[i] \notin Blanks}
Tokens(s) == {i \in Starts(s) : Kind(s, i) # "comment"}

\* What the server reads, from i on.
TextsFrom(s) ==
  LET from[i \in 1..(Len(s) + 1)] ==
        IF i > Len(s) THEN <<>>
        ELSE IF s[i] \in Blanks \/ Kind(s, i) = "comment" THEN from[After(s, i)]
        ELSE <<Lexeme(s, i)>> \o from[After(s, i)]
  IN from

Texts(s) == TextsFrom(s)[1]

Complete(s) == \A i \in Starts(s) : Kind(s, i) # "broken"

\* The first word, opening parentheses passed over.
FirstWord(s) ==
  LET words == {i \in Tokens(s) : s[i] # "("}
  IN IF words = {} THEN <<>> ELSE Lexeme(s, Min(words))

\* A separator with something to run after it.
HoldsSeveral(s) == \E i, j \in Tokens(s) : s[i] = Separator /\ i < j

\* A query that needs no more: SELECT and one word, or a star.
IsQuery(ts) ==
  Len(ts) = 2 /\ ts[1] = <<"SELECT">> /\ (ts[2] = <<"*">> \/ Head(ts[2]) \in Words)

\* Two dashes that start no comment: stripLineComments takes them for one.
HiddenDashes(s) ==
  \E i \in Starts(s) :
    /\ Kind(s, i) = "literal" \/ s[i] = "/"
    /\ \E j \in DOMAIN Lexeme(s, i) : At(Lexeme(s, i), j, <<"-", "-">>)

\* INTO OUTFILE, anywhere but in a comment of two dashes.
NamesAFile(s) ==
  \E i \in Starts(s) : /\ ~At(s, i, <<"-", "-">>)
                       /\ \E k \in i..LexemeAt(s, i).last : s[k] = "INTO OUTFILE"

\* A block comment that holds the mark of another: a server that nests comments ends
\* it later than the code and the reference do.
Nests(s, i) ==
  At(s, i, <<"/", "*">>) /\ \E j \in (i + 2)..(LexemeAt(s, i).last - 2) : At(s, j, <<"/", "*">>)

\* What the scanner does not know: a "#!" comment, a heredoc, a backslash between
\* backticks, a comment in a comment.
Foreign(s, i) ==
  \/ s[i] \in {"#!", Heredoc}
  \/ s[i] = "bq" /\ \E j \in i..LexemeAt(s, i).last : s[j] = "\\"
  \/ Nests(s, i)

KnownLexemes(s) == \A i \in Starts(s) : ~Foreign(s, i)

\* A block comment before the first word that leadingKeyword ends too early: one that
\* opens as "/*/", or nests.
Misread(s) ==
  \E i \in Starts(s) :
    /\ At(s, i, <<"/", "*", "/">>) \/ Nests(s, i)
    /\ \A j \in Starts(s) : j < i => Kind(s, j) = "comment" \/ s[j] = "("

(***************************************************************************)
(* Properties.                                                             *)
(***************************************************************************)
\* In a text of the lexemes the scanner knows, one let through as one statement holds
\* nothing the server would take for a second one: no separator outside literals and
\* comments has a token after it, or Exec would run the first and drop the rest
\* silently (ContainsMultipleStatements).
NoStatementIsDropped ==
  KnownLexemes(sql) /\ ~ContainsMultipleStatements(sql) => ~HoldsSeveral(sql)

\* It tracks quote and comment state, which is enough to place the real separators
\* (the comment of ContainsMultipleStatements): the same of every text.
RealSeparatorsArePlaced == ~ContainsMultipleStatements(sql) => ~HoldsSeveral(sql)

\* The wrap of an accepted query changes nothing of it: the server reads the same
\* tokens, between "SELECT * FROM (" and ") LIMIT n", whatever known literal or
\* comment the text ends in and however it is terminated (Bound).
WrapKeepsTheQuery ==
  canBound(sql) /\ ~ContainsMultipleStatements(sql) /\ Complete(sql) /\ KnownLexemes(sql) =>
    LET ts   == Texts(sql)
        body == IF ts # <<>> /\ Last(ts) = <<Separator>> THEN Front(ts) ELSE ts
    IN Texts(Bound(sql)) =
         Texts(Prefix(<<>>)) \o body \o <<<<")">>, <<"LIMIT">>, <<"n">>>>

\* A text is routed to run_query by its first word, comments and parentheses passed
\* over, and by nothing a comment or a literal mentions; save behind a comment whose
\* end is misread: "/*/ SELECT */ INSERT" is routed as a query (IsRowReturning).
RoutedByTheFirstWord ==
  IsRowReturning(sql) /\ ~Misread(sql) => FirstWord(sql) = <<"SELECT">>

\* A text of known lexemes is refused as blank exactly when it has no token but
\* parentheses, save behind a comment whose end is misread (IsBlank).
BlankMeansNothingToRun ==
  ~Misread(sql) /\ Complete(sql) /\ KnownLexemes(sql) =>
    (IsBlank(sql) <=> FirstWord(sql) = <<>>)

\* A query of known lexemes is refused for its output clause only when it has one: once
\* comments and terminators are gone it ends in FORMAT and a name, or INTO OUTFILE
\* stands outside its line comments.  Columns, aliases and literals that hold the word
\* FORMAT pass (HasUnsupportedOutputClause).
RefusedOnlyForAClause ==
  /\ HasUnsupportedOutputClause(sql) /\ Complete(sql) /\ KnownLexemes(sql)
  /\ ~HiddenDashes(sql)
  =>
    \/ NamesAFile(sql)
    \/ \E i, j \in Tokens(sql) :
         /\ Lexeme(sql, i) = <<"FORMAT">> /\ sql[j] \in Words /\ i < j
         /\ \A k \in Tokens(sql) \ {i, j} : k < i \/ sql[k] = Separator

\* IsRowReturning reports whether a statement produces rows (its comment): a query
\* is recognised, whatever stands between SELECT and what is selected.
QueriesAreRecognised == IsQuery(Texts(sql)) => IsRowReturning(sql)
=============================================================================

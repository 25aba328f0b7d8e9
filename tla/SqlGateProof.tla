---------------------------- MODULE SqlGateProof ----------------------------
(***************************************************************************)
(* What the scanners of SQL say is true of texts of any length: each       *)
(* agrees, place by place, with the reference that splits a text into      *)
(* lexemes, as long as it knows them.                                      *)
(***************************************************************************)
EXTENDS SqlGate, WellFoundedInduction, SequenceTheorems, TLAPS

Symbols == Blanks \cup Quotes \cup Words \cup Signs

(***************************************************************************)
(* Least elements, induction and recursion.  A recursive definition is a   *)
(* CHOOSE of a function that satisfies an equation, and says nothing until *)
(* there is one.                                                           *)
(***************************************************************************)

\* A set of naturals with something in it has a least element.
LEMMA LeastNatural ==
  ASSUME NEW S \in SUBSET Nat, S # {}
  PROVE  \E x \in S : \A y \in S : x <= y
<1> DEFINE R == {ss \in Nat \X Nat : ss[1] < ss[2]}
<1>1. PICK x \in S : \A y \in S : ~(<<y, x>> \in R)
  <2>1. IsWellFoundedOn(R, Nat)
    BY NatLessThanWellFounded DEF OpToRel
  <2> HIDE DEF R
  <2> QED
    BY <2>1, WFMin
<1>2. ASSUME NEW y \in S PROVE x <= y
  <2>1. x \in Nat /\ y \in Nat
    OBVIOUS
  <2>2. y < x => <<y, x>> \in R
    BY <2>1
  <2> HIDE DEF R
  <2>3. ~(y < x)
    BY <1>1, <2>2
  <2> QED
    BY <2>1, <2>3
<1> QED
  BY <1>2

\* Min of a set of naturals.
LEMMA MinFacts ==
  ASSUME NEW S \in SUBSET Nat, S # {}
  PROVE  Min(S) \in S /\ \A x \in S : Min(S) <= x
<1>1. \E x \in S : \A y \in S : x <= y
  BY LeastNatural
<1> QED
  BY <1>1 DEF Min

\* Max of a set of naturals up to a bound.
LEMMA MaxFacts ==
  ASSUME NEW n \in Nat, NEW S \in SUBSET (0 .. n), S # {}
  PROVE  Max(S) \in S /\ \A x \in S : x <= Max(S)
<1> DEFINE T == {n - x : x \in S}
<1>1. T \in SUBSET Nat /\ T # {}
  <2>1. \A x \in S : x \in 0 .. n
    OBVIOUS
  <2>2. \A x \in S : n - x \in Nat
    BY <2>1
  <2> QED
    BY <2>2
<1>2. PICK m \in T : \A k \in T : m <= k
  BY <1>1, LeastNatural
<1>3. PICK x \in S : m = n - x
  BY <1>2
<1>4. \A y \in S : n - x <= n - y
  BY <1>2, <1>3
<1>5. \A y \in S : x >= y
  BY <1>4
<1> QED
  BY <1>5 DEF Max

\* What holds of 0, and of each number up to N after one it holds of, holds up to N.
LEMMA UpTo ==
  ASSUME NEW N \in Nat, NEW P, 0 \in P,
         \A n \in 0 .. N : n \in P /\ n < N => n + 1 \in P
  PROVE  \A n \in 0 .. N : n \in P
<1> DEFINE S == {n \in 0 .. N : n \notin P}
<1> SUFFICES ASSUME S # {} PROVE FALSE
  OBVIOUS
<1>1. S \in SUBSET Nat
  OBVIOUS
<1>2. PICK m \in S : \A k \in S : m <= k
  BY <1>1, LeastNatural
<1>3. m \in 0 .. N /\ m # 0 /\ m \notin P
  OBVIOUS
<1>4. m - 1 \in 0 .. N /\ m - 1 < N /\ ~(m <= m - 1)
  BY <1>3
<1>5. m - 1 \in P
  BY <1>2, <1>4
<1>6. (m - 1) + 1 \in P
  BY <1>4, <1>5
<1> QED
  BY <1>3, <1>6

\* What holds of the last place, and of each place whose later ones it holds of, holds
\* of all.
LEMMA DownFrom ==
  ASSUME NEW N \in Nat, NEW P,
         \A i \in 1 .. N : (\A j \in 1 .. N : j > i => j \in P) => i \in P
  PROVE  \A i \in 1 .. N : i \in P
<1> DEFINE S == {n \in 0 .. N : N - n \in 1 .. N /\ N - n \notin P}
<1> SUFFICES ASSUME S # {} PROVE FALSE
  <2>1. ASSUME NEW i \in 1 .. N, i \notin P PROVE S # {}
    <3>1. N - i \in 0 .. N /\ N - (N - i) = i
      OBVIOUS
    <3>2. N - (N - i) \in 1 .. N /\ N - (N - i) \notin P
      BY ONLY <2>1, <3>1, i \in 1 .. N
    <3>3. N - i \in S
      BY <3>1, <3>2
    <3> QED
      BY <3>3
  <2> QED
    BY <2>1
<1>1. S \in SUBSET Nat
  OBVIOUS
<1>2. PICK m \in S : \A k \in S : m <= k
  BY <1>1, LeastNatural
<1>3. m \in 0 .. N /\ N - m \in 1 .. N /\ N - m \notin P
  OBVIOUS
<1>4. ASSUME NEW j \in 1 .. N, j > N - m, j \notin P PROVE FALSE
  <2>1. N - j \in 0 .. N /\ N - (N - j) = j /\ ~(m <= N - j)
    BY <1>3, <1>4
  <2>2. N - j \in S
    BY <1>4, <2>1
  <2> QED
    BY <1>2, <2>1, <2>2
<1> QED
  BY <1>3, <1>4

\* A function whose value at a place of rank 0 is given, and at another comes from the
\* value at a place of lower rank.
Ranked(D, V, N, rank, prev, base, step) ==
  /\ N \in Nat /\ rank \in [D -> 0 .. N] /\ prev \in [D -> D]
  /\ base \in [D -> V] /\ step \in [D -> [V -> V]]
  /\ \A i \in D : rank[i] # 0 => rank[prev[i]] < rank[i]

Recursive(f, D, V, rank, prev, base, step) ==
  /\ f \in [D -> V]
  /\ \A i \in D : f[i] = IF rank[i] = 0 THEN base[i] ELSE step[i][f[prev[i]]]

LEMMA Recursion ==
  ASSUME NEW D, NEW V, NEW N, NEW rank, NEW prev, NEW base, NEW step,
         Ranked(D, V, N, rank, prev, base, step)
  PROVE  \E f : Recursive(f, D, V, rank, prev, base, step)
<1> USE DEF Ranked
<1> DEFINE Solves(f, n) ==
             \A i \in D : rank[i] <= n =>
               f[i] = IF rank[i] = 0 THEN base[i] ELSE step[i][f[prev[i]]]
           P == {n \in 0 .. N : \E f \in [D -> V] : Solves(f, n)}
<1>1. 0 \in P
  <2>1. Solves(base, 0)
    OBVIOUS
  <2> QED
    BY <2>1
<1>2. ASSUME NEW n \in 0 .. N, n \in P, n < N PROVE n + 1 \in P
  <2>1. PICK f \in [D -> V] : Solves(f, n)
    BY <1>2
  <2> DEFINE g == [i \in D |-> IF rank[i] = n + 1 THEN step[i][f[prev[i]]] ELSE f[i]]
  <2>2. g \in [D -> V]
    OBVIOUS
  <2>3. ASSUME NEW i \in D, rank[i] <= n + 1
        PROVE  g[i] = IF rank[i] = 0 THEN base[i] ELSE step[i][g[prev[i]]]
    <3>1. rank[i] \in 0 .. N /\ prev[i] \in D /\ rank[prev[i]] \in 0 .. N
      OBVIOUS
    <3>2. rank[i] # 0 => g[prev[i]] = f[prev[i]]
      BY <2>3, <3>1
    <3>3. CASE rank[i] = n + 1
      <4>1. rank[i] # 0
        BY <1>2, <3>3
      <4>2. g[i] = step[i][f[prev[i]]]
        BY <3>3
      <4> QED
        BY <3>2, <4>1, <4>2
    <3>4. CASE rank[i] <= n
      <4>1. g[i] = f[i]
        BY <3>1, <3>4
      <4>2. f[i] = IF rank[i] = 0 THEN base[i] ELSE step[i][f[prev[i]]]
        BY <2>1, <3>4
      <4> QED
        BY <3>2, <4>1, <4>2
    <3>5. rank[i] = n + 1 \/ rank[i] <= n
      BY <2>3, <3>1
    <3> QED
      BY <3>3, <3>4, <3>5
  <2>4. Solves(g, n + 1)
    BY <2>3
  <2> HIDE DEF g, Solves
  <2>5. n + 1 \in 0 .. N
    BY <1>2
  <2> QED
    BY <2>2, <2>4, <2>5
<1>3. N \in P
  <2> HIDE DEF P
  <2>1. \A n \in 0 .. N : n \in P /\ n < N => n + 1 \in P
    BY <1>2
  <2>2. \A n \in 0 .. N : n \in P
    BY <1>1, <2>1, UpTo
  <2> QED
    BY <2>2
<1> QED
  BY <1>3 DEF Recursive

(***************************************************************************)
(* Marks and the scanner's states.                                         *)
(***************************************************************************)

\* A mark of two symbols stands at a place when its symbols stand there.
LEMMA AtTwo ==
  ASSUME NEW s \in Seq(Symbols), NEW i \in Nat \ {0}, NEW a, NEW b
  PROVE  At(s, i, <<a, b>>) <=> i + 1 <= Len(s) /\ s[i] = a /\ s[i + 1] = b
<1>1. Len(<<a, b>>) = 2 /\ i + 2 - 1 = i + 1
  OBVIOUS
<1>2. CASE ~(i + 1 <= Len(s))
  BY <1>1, <1>2 DEF At
<1>3. CASE i + 1 <= Len(s)
  <2>1. /\ SubSeq(s, i, i + 1) \in Seq(Symbols) /\ Len(SubSeq(s, i, i + 1)) = 2
        /\ SubSeq(s, i, i + 1)[1] = s[i] /\ SubSeq(s, i, i + 1)[2] = s[i + 1]
    <3>1. i + 1 <= Len(s) + 1 /\ i \in 1 .. Len(s) + 1 /\ i + 1 \in i - 1 .. Len(s)
      BY <1>3
    <3>2. /\ SubSeq(s, i, i + 1) \in Seq(Symbols)
          /\ Len(SubSeq(s, i, i + 1)) = (i + 1) - i + 1
          /\ \A k \in 1 .. (i + 1) - i + 1 : SubSeq(s, i, i + 1)[k] = s[i + k - 1]
      BY <1>3, <3>1, SubSeqProperties
    <3>3. (i + 1) - i + 1 = 2 /\ i + 1 - 1 = i /\ i + 2 - 1 = i + 1
      OBVIOUS
    <3> QED
      BY <3>2, <3>3
  <2>2. SubSeq(s, i, i + 1) = <<a, b>> <=> s[i] = a /\ s[i + 1] = b
    <3>1. SubSeq(s, i, i + 1) = <<a, b>> => s[i] = a /\ s[i + 1] = b
      <4>1. <<a, b>>[1] = a /\ <<a, b>>[2] = b
        OBVIOUS
      <4> QED
        BY <2>1, <4>1
    <3>2. ASSUME s[i] = a, s[i + 1] = b PROVE SubSeq(s, i, i + 1) = <<a, b>>
      <4> DEFINE t == SubSeq(s, i, i + 1)
      <4>1. a \in Symbols /\ b \in Symbols
        BY <1>3, <3>2
      <4>2. <<a, b>> \in Seq(Symbols) /\ Len(t) = Len(<<a, b>>)
        BY <2>1, <4>1
      <4>3. \A k \in 1 .. Len(t) : t[k] = <<a, b>>[k]
        BY <2>1, <3>2
      <4> QED
        BY <2>1, <4>2, <4>3, SeqEqual
    <3> QED
      BY <3>1, <3>2
  <2> QED
    BY <1>1, <1>3, <2>2 DEF At
<1> QED
  BY <1>2, <1>3

\* States of the scanner, and its variables.
Ats    == Quotes \cup {"normal", "line", "block"}
States == [at : Ats, skip : BOOLEAN, multiple : BOOLEAN]

LEMMA ScanType ==
  ASSUME NEW s, NEW a \in Ats, NEW i
  PROVE  Scan(s, a, i).at \in Ats /\ Scan(s, a, i).skip \in BOOLEAN
<1>1. Opened(s, i) \in Ats
  BY DEF Opened, Ats
<1>2. (s[i] = "\\" /\ a # "bq") \in BOOLEAN /\ At(s, i, <<"*", "/">>) \in BOOLEAN
  BY DEF At
<1>3. CASE a \in Quotes
  BY <1>2, <1>3 DEF Scan, Ats, Quotes
<1>4. CASE a = "normal"
  <2>1. (Opened(s, i) \in {"line", "block"}) \in BOOLEAN
    OBVIOUS
  <2> QED
    BY <1>1, <1>4, <2>1 DEF Scan, Quotes
<1>5. CASE a = "line"
  BY <1>5 DEF Scan, Ats, Quotes
<1>6. CASE a = "block"
  BY <1>2, <1>6 DEF Scan, Ats, Quotes
<1> QED
  BY <1>3, <1>4, <1>5, <1>6 DEF Ats

LEMMA TurnType ==
  ASSUME NEW s, NEW acc \in States, NEW i
  PROVE  Turn(s, acc, i) \in States
<1>1. acc.at \in Ats /\ acc.skip \in BOOLEAN /\ acc.multiple \in BOOLEAN
  BY DEF States
<1>2. Scan(s, acc.at, i).at \in Ats /\ Scan(s, acc.at, i).skip \in BOOLEAN
  BY <1>1, ScanType
<1>3. (acc.multiple \/ Separates(s, acc.at, i)) \in BOOLEAN
  OBVIOUS
<1> QED
  BY <1>1, <1>2, <1>3 DEF Turn, States

\* The scanner's run over a text.
LEMMA ScannedFacts ==
  ASSUME NEW s \in Seq(Symbols)
  PROVE  /\ Scanned(s) \in [0 .. Len(s) -> States]
         /\ Scanned(s)[0] = [at |-> "normal", skip |-> FALSE, multiple |-> FALSE]
         /\ \A i \in 1 .. Len(s) : Scanned(s)[i] = Turn(s, Scanned(s)[i - 1], i)
<1> DEFINE D == 0 .. Len(s)
           first == [at |-> "normal", skip |-> FALSE, multiple |-> FALSE]
           Body(f) == [i \in D |-> IF i = 0 THEN first ELSE Turn(s, f[i - 1], i)]
<1>1. Len(s) \in Nat /\ first \in States
  BY DEF States, Ats
<1>2. \E f \in [D -> States] : f = Body(f)
  <2> DEFINE rank == [i \in D |-> i]
             prev == [i \in D |-> IF i = 0 THEN 0 ELSE i - 1]
             base == [i \in D |-> first]
             step == [i \in D |-> [acc \in States |-> Turn(s, acc, i)]]
  <2>1. Ranked(D, States, Len(s), rank, prev, base, step)
    <3>1. /\ rank \in [D -> 0 .. Len(s)] /\ prev \in [D -> D] /\ base \in [D -> States]
          /\ \A i \in D : rank[i] # 0 => rank[prev[i]] < rank[i]
      BY <1>1
    <3>2. step \in [D -> [States -> States]]
      BY TurnType
    <3> QED
      BY <1>1, <3>1, <3>2 DEF Ranked
  <2>2. PICK f : Recursive(f, D, States, rank, prev, base, step)
    <3> HIDE DEF rank, prev, base, step, D
    <3> QED
      BY <2>1, Recursion
  <2>3. /\ f \in [D -> States]
        /\ \A i \in D : f[i] = IF rank[i] = 0 THEN base[i] ELSE step[i][f[prev[i]]]
    BY <2>2 DEF Recursive
  <2>4. \A i \in D : f[i] = IF i = 0 THEN first ELSE Turn(s, f[i - 1], i)
    <3> TAKE i \in D
    <3>1. CASE i = 0
      BY <2>3, <3>1
    <3>2. CASE i # 0
      <4>1. i - 1 \in D /\ prev[i] = i - 1 /\ rank[i] # 0
        BY <1>1, <3>2
      <4>2. f[i - 1] \in States
        BY <2>3, <4>1
      <4>3. step[i][f[i - 1]] = Turn(s, f[i - 1], i)
        BY <4>2
      <4> QED
        BY <2>3, <3>2, <4>1, <4>3
    <3> QED
      BY <3>1, <3>2
  <2> QED
    BY <2>3, <2>4
<1>3. Scanned(s) = CHOOSE f : f = Body(f)
  BY DEF Scanned
<1>4. Scanned(s) = Body(Scanned(s))
  BY <1>2, <1>3
<1> HIDE DEF Body
<1>5. DOMAIN Scanned(s) = D /\ \A i \in D :
        Scanned(s)[i] = IF i = 0 THEN first ELSE Turn(s, Scanned(s)[i - 1], i)
  BY <1>4 DEF Body
<1> DEFINE P == {i \in D : Scanned(s)[i] \in States}
<1>6. \A i \in D : i \in P
  <2>1. 0 \in P
    <3>1. 0 \in D
      BY <1>1
    <3>2. Scanned(s)[0] = first
      BY <1>5, <3>1
    <3> QED
      BY <1>1, <3>1, <3>2
  <2>2. \A i \in D : i \in P /\ i < Len(s) => i + 1 \in P
    <3> TAKE i \in D
    <3> SUFFICES ASSUME i \in P, i < Len(s) PROVE i + 1 \in P
      OBVIOUS
    <3>1. i + 1 \in D /\ i + 1 # 0 /\ (i + 1) - 1 = i
      BY <1>1
    <3>2. Scanned(s)[i + 1] = Turn(s, Scanned(s)[i], i + 1)
      BY <1>5, <3>1
    <3> QED
      BY <3>1, <3>2, TurnType
  <2> QED
    <3> HIDE DEF P
    <3> QED
      BY <1>1, <2>1, <2>2, UpTo
<1>7. /\ Scanned(s) = [i \in D |-> Scanned(s)[i]]
      /\ \A i \in D : Scanned(s)[i] \in States
  BY <1>4, <1>6 DEF Body
<1>8. Scanned(s) \in [D -> States]
  BY <1>7
<1>9. 0 \in D /\ \A i \in 1 .. Len(s) : i \in D /\ i # 0
  BY <1>1
<1>10. /\ Scanned(s)[0] = first
       /\ \A i \in 1 .. Len(s) : Scanned(s)[i] = Turn(s, Scanned(s)[i - 1], i)
  <2> HIDE DEF D, first
  <2> QED
    BY <1>5, <1>9
<1> QED
  BY <1>8, <1>10

(***************************************************************************)
(* Lexemes.                                                                *)
(***************************************************************************)

\* The first of some places, or the place past the end.
LEMMA FirstOfFacts ==
  ASSUME NEW s \in Seq(Symbols), NEW places \in SUBSET (1 .. Len(s))
  PROVE  /\ FirstOf(s, places) \in 1 .. Len(s) + 1
         /\ FirstOf(s, places) <= Len(s) => FirstOf(s, places) \in places
         /\ \A k \in places : FirstOf(s, places) <= k
<1>1. Len(s) \in Nat /\ places \in SUBSET Nat
  OBVIOUS
<1>2. CASE places = {}
  BY <1>1, <1>2 DEF FirstOf
<1>3. CASE places # {}
  <2>1. FirstOf(s, places) = Min(places)
    BY <1>3 DEF FirstOf
  <2>2. Min(places) \in places /\ \A k \in places : Min(places) <= k
    BY <1>1, <1>3, MinFacts
  <2>3. FirstOf(s, places) \in 1 .. Len(s)
    BY <2>1, <2>2
  <2>4. FirstOf(s, places) \in 1 .. Len(s) + 1
    BY <1>1, <2>3
  <2> QED
    BY <2>1, <2>2, <2>4
<1> QED
  BY <1>2, <1>3

\* The separator is no other symbol.
LEMMA SeparatorFacts ==
  /\ Separator \notin Words \cup Quotes \cup Blanks
  /\ Separator \notin {"\\", "-", "/", "*", "(", ")", "#!", "$$"}
BY Zenon DEF Separator, Words, Quotes, Blanks

\* A lexeme is of one kind.
LEMMA OneKind ==
  ASSUME NEW s \in Seq(Symbols), NEW i \in 1 .. Len(s)
  PROVE  /\ s[i] \in Words => s[i] \notin Openers \cup Blanks \cup Signs
         /\ s[i] \in Quotes => s[i] \notin Blanks \cup Signs
         /\ s[i] \in Openers => s[i] \notin Blanks /\ ~LineComment(s, i)
         /\ s[i] \in Blanks => s[i] \notin Signs
         /\ LineComment(s, i) => s[i] \in Signs /\ ~At(s, i, <<"/", "*">>)
         /\ At(s, i, <<"-", "-">>) => s[i] \in Signs /\ ~At(s, i, <<"/", "*">>)
         /\ At(s, i, <<"/", "*">>) => s[i] \in Signs /\ s[i] \notin Openers
<1>1. /\ At(s, i, <<"-", "-">>) => s[i] = "-"
      /\ At(s, i, <<"/", "*">>) => s[i] = "/"
      /\ LineComment(s, i) => s[i] \in {"-", "#!"}
  BY AtTwo DEF LineComment
<1> QED
  BY <1>1, SeparatorFacts DEF Words, Quotes, Blanks, Signs, Openers, Heredoc

\* A word runs on to the first symbol that is none.
LEMMA WordLexeme ==
  ASSUME NEW s \in Seq(Symbols), NEW i \in 1 .. Len(s), s[i] \in Words
  PROVE  /\ Kind(s, i) = "word" /\ LexemeAt(s, i).last \in i .. Len(s)
         /\ \A k \in i .. LexemeAt(s, i).last : s[k] \in Words
         /\ LexemeAt(s, i).last < Len(s) => s[LexemeAt(s, i).last + 1] \notin Words
<1> DEFINE ends == {j \in i .. Len(s) : s[j] \notin Words}
           e    == FirstOf(s, ends)
<1>1. LexemeAt(s, i) = [kind |-> "word", last |-> e - 1]
  <2>1. s[i] \notin Openers /\ ~LineComment(s, i) /\ ~At(s, i, <<"/", "*">>)
    BY OneKind
  <2> QED
    BY <2>1 DEF LexemeAt, WordEnd
<1>2. /\ e \in 1 .. Len(s) + 1
      /\ e <= Len(s) => e \in ends
      /\ \A k \in ends : e <= k
  <2>1. ends \in SUBSET (1 .. Len(s))
    OBVIOUS
  <2> HIDE DEF ends
  <2> QED
    BY <2>1, FirstOfFacts
<1> HIDE DEF e
<1>3. e > i
  BY <1>2
<1>4. e - 1 \in i .. Len(s) /\ (e - 1) + 1 = e
  BY <1>2, <1>3
<1>5. ASSUME NEW k \in i .. e - 1 PROVE s[k] \in Words
  <2>1. k \in i .. Len(s) /\ ~(e <= k)
    BY <1>4
  <2> QED
    BY <1>2, <2>1
<1>6. e - 1 < Len(s) => s[e] \notin Words
  BY <1>2, <1>4
<1> QED
  BY <1>1, <1>4, <1>5, <1>6 DEF Kind

\* A literal runs on to the first mark that ends it; one that nothing ends is broken.
LEMMA QuoteLexeme ==
  ASSUME NEW s \in Seq(Symbols), NEW i \in 1 .. Len(s), s[i] \in Openers
  PROVE  \/ /\ LiteralEnds(s, i) = {} /\ Kind(s, i) = "broken"
            /\ LexemeAt(s, i).last = Len(s)
         \/ /\ Kind(s, i) = "literal" /\ LexemeAt(s, i).last \in i + 1 .. Len(s)
            /\ LexemeAt(s, i).last \in LiteralEnds(s, i)
            /\ \A j \in LiteralEnds(s, i) : LexemeAt(s, i).last <= j
<1>1. s[i] \notin Words /\ ~LineComment(s, i) /\ ~At(s, i, <<"/", "*">>)
  BY OneKind
<1>2. LexemeAt(s, i) = IF LiteralEnds(s, i) = {} THEN [kind |-> "broken", last |-> Len(s)]
                       ELSE [kind |-> "literal", last |-> Min(LiteralEnds(s, i))]
  BY <1>1 DEF LexemeAt
<1>3. CASE LiteralEnds(s, i) = {}
  BY <1>2, <1>3 DEF Kind
<1>4. CASE LiteralEnds(s, i) # {}
  <2>1. LiteralEnds(s, i) \in SUBSET (i + 1 .. Len(s)) /\ LiteralEnds(s, i) \in SUBSET Nat
    BY DEF LiteralEnds
  <2>2. /\ Min(LiteralEnds(s, i)) \in LiteralEnds(s, i)
        /\ \A j \in LiteralEnds(s, i) : Min(LiteralEnds(s, i)) <= j
    BY <1>4, <2>1, MinFacts
  <2> QED
    BY <1>2, <1>4, <2>1, <2>2 DEF Kind
<1> QED
  BY <1>3, <1>4

\* A line comment runs on to the end of the line.
LEMMA LineLexeme ==
  ASSUME NEW s \in Seq(Symbols), NEW i \in 1 .. Len(s), LineComment(s, i)
  PROVE  /\ s[i] \in {"-", "#!"}
         /\ s[i] # "#!" => LexemeAt(s, i).last # i /\ s[i + 1] = "-"
         /\ Kind(s, i) = "comment" /\ LexemeAt(s, i).last \in i .. Len(s)
         /\ \A k \in i .. LexemeAt(s, i).last : s[k] # "\n"
         /\ LexemeAt(s, i).last < Len(s) => s[LexemeAt(s, i).last + 1] = "\n"
         /\ LexemeAt(s, i).last + 1 = LineEnd(s, i)
<1> DEFINE ends == {j \in i .. Len(s) : s[j] = "\n"}
           e    == FirstOf(s, ends)
<1>1. /\ s[i] \in {"-", "#!"}
      /\ s[i] # "#!" => s[i] = "-" /\ i + 1 <= Len(s) /\ s[i + 1] = "-"
  BY AtTwo DEF LineComment
<1>2. s[i] \notin Words /\ s[i] \notin Openers /\ ~At(s, i, <<"/", "*">>)
  BY OneKind
<1>3. LexemeAt(s, i) = [kind |-> "comment", last |-> e - 1]
  BY <1>2 DEF LexemeAt, LineEnd
<1>4. /\ e \in 1 .. Len(s) + 1
      /\ e <= Len(s) => e \in ends
      /\ \A k \in ends : e <= k
  <2>1. ends \in SUBSET (1 .. Len(s))
    OBVIOUS
  <2> HIDE DEF ends
  <2> QED
    BY <2>1, FirstOfFacts
<1> HIDE DEF e
<1>5. e > i /\ (s[i] # "#!" => e > i + 1)
  BY <1>1, <1>4
<1>6. e - 1 \in i .. Len(s) /\ (e - 1) + 1 = e /\ (s[i] # "#!" => e - 1 # i)
  BY <1>4, <1>5
<1>7. ASSUME NEW k \in i .. e - 1 PROVE s[k] # "\n"
  <2>1. k \in i .. Len(s) /\ ~(e <= k)
    BY <1>6
  <2> QED
    BY <1>4, <2>1
<1>8. e - 1 < Len(s) => s[e] = "\n"
  BY <1>4, <1>6
<1>9. LexemeAt(s, i).last + 1 = LineEnd(s, i)
  BY <1>3, <1>6 DEF e, LineEnd
<1> QED
  BY <1>1, <1>3, <1>6, <1>7, <1>8, <1>9 DEF Kind

\* A comment of the other kind runs on to its end; one that nothing ends is broken.
LEMMA BlockLexeme ==
  ASSUME NEW s \in Seq(Symbols), NEW i \in 1 .. Len(s), At(s, i, <<"/", "*">>)
  PROVE  /\ s[i] = "/" /\ i + 1 <= Len(s) /\ s[i + 1] = "*"
         /\ \/ /\ CommentEnds(s, i) = {} /\ Kind(s, i) = "broken"
               /\ LexemeAt(s, i).last = Len(s)
            \/ \E e \in CommentEnds(s, i) :
                 /\ e \in i + 2 .. Len(s) - 1
                 /\ Kind(s, i) = "comment" /\ LexemeAt(s, i).last = e + 1
                 /\ \A j \in CommentEnds(s, i) : e <= j
<1>1. s[i] = "/" /\ i + 1 <= Len(s) /\ s[i + 1] = "*"
  BY AtTwo
<1>2. s[i] \notin Words /\ s[i] \notin Openers
  BY OneKind
<1>3. ~LineComment(s, i)
  BY OneKind
<1>4. LexemeAt(s, i) = IF CommentEnds(s, i) = {} THEN [kind |-> "broken", last |-> Len(s)]
                       ELSE [kind |-> "comment", last |-> Min(CommentEnds(s, i)) + 1]
  BY <1>2, <1>3 DEF LexemeAt
<1>5. CASE CommentEnds(s, i) = {}
  BY <1>1, <1>4, <1>5 DEF Kind
<1>6. CASE CommentEnds(s, i) # {}
  <2>1. /\ CommentEnds(s, i) \in SUBSET (i + 2 .. Len(s) - 1)
        /\ CommentEnds(s, i) \in SUBSET Nat
    BY DEF CommentEnds
  <2>2. /\ Min(CommentEnds(s, i)) \in CommentEnds(s, i)
        /\ \A j \in CommentEnds(s, i) : Min(CommentEnds(s, i)) <= j
    BY <1>6, <2>1, MinFacts
  <2>3. /\ Kind(s, i) = "comment"
        /\ LexemeAt(s, i).last = Min(CommentEnds(s, i)) + 1
    BY <1>4, <1>6 DEF Kind
  <2>4. Min(CommentEnds(s, i)) \in i + 2 .. Len(s) - 1
    BY <2>1, <2>2
  <2> QED
    BY <1>1, <2>2, <2>3, <2>4
<1> QED
  BY <1>5, <1>6

\* Anything else is a lexeme by itself.
LEMMA SignLexeme ==
  ASSUME NEW s \in Seq(Symbols), NEW i \in 1 .. Len(s), s[i] \notin Words \cup Openers,
         ~LineComment(s, i), ~At(s, i, <<"/", "*">>)
  PROVE  Kind(s, i) = "sign" /\ LexemeAt(s, i).last = i
BY DEF LexemeAt, Kind

\* A lexeme ends where it starts or later.
LEMMA LexemeLast ==
  ASSUME NEW s \in Seq(Symbols), NEW i \in 1 .. Len(s)
  PROVE  LexemeAt(s, i).last \in i .. Len(s) /\ After(s, i) \in i + 1 .. Len(s) + 1
<1>1. Len(s) \in Nat /\ i \in Nat
  OBVIOUS
<1>2. LexemeAt(s, i).last \in i .. Len(s)
  <2>1. CASE s[i] \in Words
    BY <2>1, WordLexeme
  <2>2. CASE s[i] \in Openers
    BY <1>1, <2>2, QuoteLexeme
  <2>3. CASE LineComment(s, i)
    BY <2>3, LineLexeme
  <2>4. CASE At(s, i, <<"/", "*">>)
    BY <1>1, <2>4, BlockLexeme
  <2>5. CASE s[i] \notin Words \cup Openers /\ ~LineComment(s, i) /\ ~At(s, i, <<"/", "*">>)
    BY <1>1, <2>5, SignLexeme
  <2> QED
    BY <2>1, <2>2, <2>3, <2>4, <2>5
<1> QED
  BY <1>1, <1>2 DEF After

(***************************************************************************)
(* Places.                                                                 *)
(***************************************************************************)

\* What holds of a, and up to b of each number after one it holds of, holds up to b.
LEMMA Along ==
  ASSUME NEW a \in Nat, NEW b \in Nat, NEW P, a \in P,
         \A k \in a .. b : k \in P /\ k < b => k + 1 \in P
  PROVE  \A k \in a .. b : k \in P
<1> SUFFICES ASSUME a <= b PROVE \A k \in a .. b : k \in P
  OBVIOUS
<1> DEFINE Q == {n \in 0 .. b - a : a + n \in P}
<1>1. b - a \in Nat /\ a + 0 = a
  OBVIOUS
<1>2. 0 \in Q
  BY <1>1
<1>3. \A n \in 0 .. b - a : n \in Q /\ n < b - a => n + 1 \in Q
  <2> TAKE n \in 0 .. b - a
  <2> SUFFICES ASSUME n \in Q, n < b - a PROVE n + 1 \in Q
    OBVIOUS
  <2>1. a + n \in a .. b /\ a + n < b /\ a + (n + 1) = (a + n) + 1 /\ n + 1 \in 0 .. b - a
    BY <1>1
  <2> QED
    BY <2>1
<1>4. \A n \in 0 .. b - a : n \in Q
  <2> HIDE DEF Q
  <2> QED
    BY <1>1, <1>2, <1>3, UpTo
<1>5. ASSUME NEW k \in a .. b PROVE k \in P
  <2>1. k - a \in 0 .. b - a /\ a + (k - a) = k
    BY <1>1
  <2>2. k - a \in Q
    BY <1>4, <2>1
  <2>3. a + (k - a) \in P
    BY <2>2
  <2> QED
    BY <2>1, <2>3
<1> QED
  BY <1>5

\* The places from one on are itself and those after what starts there.
LEMMA PlacesFacts ==
  ASSUME NEW s \in Seq(Symbols)
  PROVE  /\ Places(s)[Len(s) + 1] = {}
         /\ \A i \in 1 .. Len(s) : Places(s)[i] = {i} \cup Places(s)[After(s, i)]
<1> DEFINE D == 1 .. (Len(s) + 1)
           Body(f) == [i \in D |-> IF i > Len(s) THEN {} ELSE {i} \cup f[After(s, i)]]
<1>1. Len(s) \in Nat /\ \A i \in 1 .. Len(s) : After(s, i) \in i + 1 .. Len(s) + 1
  BY LexemeLast
<1>2. \E f : f = Body(f)
  <2> DEFINE V    == SUBSET Nat
             rank == [i \in D |-> Len(s) + 1 - i]
             prev == [i \in D |-> IF i > Len(s) THEN i ELSE After(s, i)]
             base == [i \in D |-> {}]
             step == [i \in D |-> [S \in V |-> {i} \cup S]]
  <2>1. \A i \in D : i > Len(s) \/ (i \in 1 .. Len(s) /\ After(s, i) \in D)
    BY <1>1
  <2>2. Ranked(D, V, Len(s), rank, prev, base, step)
    <3>1. rank \in [D -> 0 .. Len(s)] /\ prev \in [D -> D] /\ base \in [D -> V]
      BY <1>1, <2>1
    <3>2. \A i \in D : rank[i] # 0 => rank[prev[i]] < rank[i]
      <4> TAKE i \in D
      <4> SUFFICES ASSUME rank[i] # 0 PROVE rank[prev[i]] < rank[i]
        OBVIOUS
      <4>1. i \in 1 .. Len(s)
        BY <1>1, <2>1
      <4>2. /\ prev[i] = After(s, i) /\ After(s, i) \in D /\ After(s, i) > i
            /\ rank[After(s, i)] = Len(s) + 1 - After(s, i)
        BY <1>1, <2>1, <4>1
      <4> QED
        BY <1>1, <4>1, <4>2
    <3>3. step \in [D -> [V -> V]]
      <4>1. \A i \in D, S \in V : {i} \cup S \in V
        BY <1>1
      <4> QED
        BY <4>1
    <3> QED
      BY <1>1, <3>1, <3>2, <3>3 DEF Ranked
  <2>3. PICK f : Recursive(f, D, V, rank, prev, base, step)
    <3> HIDE DEF rank, prev, base, step, D, V
    <3> QED
      BY <2>2, Recursion
  <2>4. /\ f \in [D -> V]
        /\ \A i \in D : f[i] = IF rank[i] = 0 THEN base[i] ELSE step[i][f[prev[i]]]
    BY <2>3 DEF Recursive
  <2>5. \A i \in D : f[i] = IF i > Len(s) THEN {} ELSE {i} \cup f[After(s, i)]
    <3> TAKE i \in D
    <3>1. CASE i > Len(s)
      <4>1. rank[i] = 0
        BY <1>1, <3>1
      <4> QED
        BY <2>4, <3>1, <4>1
    <3>2. CASE ~(i > Len(s))
      <4>1. rank[i] # 0 /\ prev[i] = After(s, i) /\ After(s, i) \in D
        BY <1>1, <2>1, <3>2
      <4>2. f[After(s, i)] \in V
        BY <2>4, <4>1
      <4>3. step[i][f[After(s, i)]] = {i} \cup f[After(s, i)]
        BY <4>2
      <4> QED
        BY <2>4, <3>2, <4>1, <4>3
    <3> QED
      BY <3>1, <3>2
  <2> QED
    BY <2>4, <2>5
<1>3. Places(s) = CHOOSE f : f = Body(f)
  BY DEF Places
<1>4. Places(s) = Body(Places(s))
  BY <1>2, <1>3
<1>5. \A i \in D : Places(s)[i] = IF i > Len(s) THEN {} ELSE {i} \cup Places(s)[After(s, i)]
  BY <1>4 DEF Body
<1>6. Len(s) + 1 \in D /\ Len(s) + 1 > Len(s) /\ \A i \in 1 .. Len(s) : i \in D /\ ~(i > Len(s))
  BY <1>1
<1> QED
  <2> HIDE DEF D
  <2> QED
    BY <1>5, <1>6

\* What holds of a place, and of the one after each it holds of, holds of all from there.
LEMMA PlacesInduction ==
  ASSUME NEW s \in Seq(Symbols), NEW P,
         \A i \in 1 .. Len(s) : i \in P /\ After(s, i) <= Len(s) => After(s, i) \in P
  PROVE  \A i \in 1 .. Len(s) : i \in P => Places(s)[i] \subseteq P
<1> DEFINE Q == {i \in 1 .. Len(s) : i \in P => Places(s)[i] \subseteq P}
<1>1. Len(s) \in Nat
  OBVIOUS
<1>2. \A i \in 1 .. Len(s) : (\A j \in 1 .. Len(s) : j > i => j \in Q) => i \in Q
  <2> TAKE i \in 1 .. Len(s)
  <2> SUFFICES ASSUME \A j \in 1 .. Len(s) : j > i => j \in Q, i \in P
               PROVE  Places(s)[i] \subseteq P
    OBVIOUS
  <2>1. /\ Places(s)[i] = {i} \cup Places(s)[After(s, i)]
        /\ After(s, i) \in i + 1 .. Len(s) + 1
    BY PlacesFacts, LexemeLast
  <2>2. CASE After(s, i) = Len(s) + 1
    BY <2>1, <2>2, PlacesFacts
  <2>3. CASE After(s, i) <= Len(s)
    <3>1. After(s, i) \in 1 .. Len(s) /\ After(s, i) > i
      BY <1>1, <2>1, <2>3
    <3>2. After(s, i) \in P /\ After(s, i) \in Q
      BY <2>3, <3>1
    <3> QED
      BY <2>1, <3>2
  <2> QED
    BY <1>1, <2>1, <2>2, <2>3
<1>3. \A i \in 1 .. Len(s) : i \in Q
  <2> HIDE DEF Q
  <2> QED
    BY <1>1, <1>2, DownFrom
<1> QED
  BY <1>3

\* The places from i on are no earlier.
LEMMA PlacesRange ==
  ASSUME NEW s \in Seq(Symbols), NEW i \in 1 .. Len(s)
  PROVE  i \in Places(s)[i] /\ Places(s)[i] \subseteq i .. Len(s)
<1> DEFINE P == i .. Len(s)
<1>1. Len(s) \in Nat
  OBVIOUS
<1>2. \A j \in 1 .. Len(s) : j \in P /\ After(s, j) <= Len(s) => After(s, j) \in P
  BY <1>1, LexemeLast
<1>3. i \in P
  BY <1>1
<1>4. Places(s)[i] \subseteq P
  <2> HIDE DEF P
  <2> QED
    BY <1>2, <1>3, PlacesInduction
<1> QED
  BY <1>4, PlacesFacts

\* The place after one of the places is another, up to the end.
LEMMA PlacesClosed ==
  ASSUME NEW s \in Seq(Symbols), NEW i \in Places(s)[1], After(s, i) <= Len(s)
  PROVE  i \in 1 .. Len(s) /\ After(s, i) \in Places(s)[1]
<1> DEFINE Closed(j) == \A k \in Places(s)[j] : After(s, k) <= Len(s) => After(s, k) \in Places(s)[j]
           Q == {j \in 1 .. Len(s) : Closed(j)}
<1>1. Len(s) \in Nat
  OBVIOUS
<1>2. \A j \in 1 .. Len(s) : (\A h \in 1 .. Len(s) : h > j => h \in Q) => j \in Q
  <2> TAKE j \in 1 .. Len(s)
  <2> SUFFICES ASSUME \A h \in 1 .. Len(s) : h > j => h \in Q,
                      NEW k \in Places(s)[j], After(s, k) <= Len(s)
               PROVE  After(s, k) \in Places(s)[j]
    OBVIOUS
  <2>1. /\ Places(s)[j] = {j} \cup Places(s)[After(s, j)]
        /\ After(s, j) \in j + 1 .. Len(s) + 1
    BY PlacesFacts, LexemeLast
  <2>2. CASE k = j
    <3>1. After(s, j) \in 1 .. Len(s)
      BY <1>1, <2>1, <2>2
    <3>2. After(s, j) \in Places(s)[After(s, j)]
      BY <3>1, PlacesRange
    <3> QED
      BY <2>1, <2>2, <3>2
  <2>3. CASE k \in Places(s)[After(s, j)]
    <3>1. After(s, j) # Len(s) + 1
      BY <2>3, PlacesFacts
    <3>2. After(s, j) \in 1 .. Len(s) /\ After(s, j) > j
      BY <1>1, <2>1, <3>1
    <3>3. Closed(After(s, j))
      BY <3>2
    <3> QED
      BY <2>1, <2>3, <3>3
  <2> QED
    BY <2>1, <2>2, <2>3
<1>3. \A j \in 1 .. Len(s) : j \in Q
  <2> HIDE DEF Q
  <2> QED
    BY <1>1, <1>2, DownFrom
<1>4. 1 \in 1 .. Len(s)
  <2>1. CASE Len(s) = 0
    <3>1. Len(s) + 1 = 1
      BY <2>1
    <3>2. Places(s)[1] = {}
      BY <3>1, PlacesFacts
    <3> QED
      BY <3>2
  <2> QED
    BY <1>1, <2>1
<1>5. Places(s)[1] \subseteq 1 .. Len(s)
  BY <1>4, PlacesRange
<1> QED
  BY <1>3, <1>4, <1>5

LEMMA PlacesAreInside ==
  ASSUME NEW s \in Seq(Symbols), NEW i \in Places(s)[1]
  PROVE  i \in 1 .. Len(s) /\ 1 \in 1 .. Len(s)
<1>1. Len(s) \in Nat
  OBVIOUS
<1>2. 1 \in 1 .. Len(s)
  <2>1. CASE Len(s) = 0
    <3>1. Len(s) + 1 = 1
      BY <2>1
    <3>2. Places(s)[1] = {}
      BY <3>1, PlacesFacts
    <3> QED
      BY <3>2
  <2> QED
    BY <1>1, <2>1
<1> QED
  BY <1>2, PlacesRange

(***************************************************************************)
(* Escapes: by turns in a run of backslashes.                              *)
(***************************************************************************)

\* The lengths of the runs of backslashes before a place of a literal.
Runs(s, i, j) == {k \in 0 .. (j - i - 1) : \A h \in 1 .. k : s[j - h] = "\\"}

LEMMA RunsFacts ==
  ASSUME NEW s \in Seq(Symbols), NEW i \in Nat, NEW j \in Nat, i < j
  PROVE  /\ Max(Runs(s, i, j)) \in Runs(s, i, j) /\ Max(Runs(s, i, j)) \in 0 .. (j - i - 1)
         /\ \A k \in Runs(s, i, j) : k <= Max(Runs(s, i, j))
         /\ Escaped(s, i, j) <=> s[i] # Heredoc /\ Max(Runs(s, i, j)) % 2 = 1
<1>1. j - i - 1 \in Nat /\ Runs(s, i, j) \in SUBSET (0 .. (j - i - 1))
  BY DEF Runs
<1>2. 0 \in Runs(s, i, j)
  BY <1>1 DEF Runs
<1>3. /\ Max(Runs(s, i, j)) \in Runs(s, i, j)
      /\ \A k \in Runs(s, i, j) : k <= Max(Runs(s, i, j))
  BY <1>1, <1>2, MaxFacts
<1>4. Escaped(s, i, j) <=> s[i] # Heredoc /\ Max(Runs(s, i, j)) % 2 = 1
  BY DEF Escaped, Runs
<1> QED
  BY <1>1, <1>3, <1>4

\* Nothing escapes the first symbol of a literal.
LEMMA EscapedFirst ==
  ASSUME NEW s \in Seq(Symbols), NEW i \in Nat
  PROVE  ~Escaped(s, i, i + 1)
<1>1. /\ Max(Runs(s, i, i + 1)) \in 0 .. ((i + 1) - i - 1)
      /\ Escaped(s, i, i + 1) <=> s[i] # Heredoc /\ Max(Runs(s, i, i + 1)) % 2 = 1
  BY RunsFacts, i < i + 1
<1>2. Max(Runs(s, i, i + 1)) = 0
  BY <1>1
<1> QED
  BY <1>1, <1>2

\* A symbol is escaped exactly when an unescaped backslash stands before it.
LEMMA EscapedNext ==
  ASSUME NEW s \in Seq(Symbols), NEW i \in Nat, NEW m \in Nat, i < m
  PROVE  Escaped(s, i, m + 1) <=> s[i] # Heredoc /\ s[m] = "\\" /\ ~Escaped(s, i, m)
<1> DEFINE r == Max(Runs(s, i, m))
           n == Max(Runs(s, i, m + 1))
<1>1. /\ r \in Runs(s, i, m) /\ r \in 0 .. (m - i - 1)
      /\ \A k \in Runs(s, i, m) : k <= r
      /\ Escaped(s, i, m) <=> s[i] # Heredoc /\ r % 2 = 1
  BY RunsFacts
<1>2. /\ n \in Runs(s, i, m + 1) /\ n \in 0 .. ((m + 1) - i - 1)
      /\ \A k \in Runs(s, i, m + 1) : k <= n
      /\ Escaped(s, i, m + 1) <=> s[i] # Heredoc /\ n % 2 = 1
  BY RunsFacts, m + 1 \in Nat, i < m + 1
<1> HIDE DEF r, n
<1>3. CASE s[m] # "\\"
  <2>1. ~(1 <= n)
    <3>1. 1 <= n => s[(m + 1) - 1] = "\\"
      BY <1>2 DEF Runs
    <3>2. (m + 1) - 1 = m
      OBVIOUS
    <3> QED
      BY <1>3, <3>1, <3>2
  <2>2. n = 0
    BY <1>2, <2>1
  <2> QED
    BY <1>2, <1>3, <2>2
<1>4. CASE s[m] = "\\"
  <2>1. r + 1 \in Runs(s, i, m + 1)
    <3>1. r + 1 \in 0 .. ((m + 1) - i - 1)
      BY <1>1
    <3>2. ASSUME NEW h \in 1 .. r + 1 PROVE s[(m + 1) - h] = "\\"
      <4>1. CASE h = 1
        <5>1. (m + 1) - h = m
          BY <4>1
        <5> QED
          BY <1>4, <5>1
      <4>2. CASE h # 1
        <5>1. h - 1 \in 1 .. r /\ (m + 1) - h = m - (h - 1)
          BY <1>1, <4>2
        <5>2. s[m - (h - 1)] = "\\"
          BY <1>1, <5>1 DEF Runs
        <5> QED
          BY <5>1, <5>2
      <4> QED
        BY <4>1, <4>2
    <3> QED
      BY <3>1, <3>2 DEF Runs
  <2>2. n # 0 => n - 1 \in Runs(s, i, m)
    <3> SUFFICES ASSUME n # 0 PROVE n - 1 \in Runs(s, i, m)
      OBVIOUS
    <3>1. n - 1 \in 0 .. (m - i - 1)
      BY <1>2
    <3>2. ASSUME NEW h \in 1 .. n - 1 PROVE s[m - h] = "\\"
      <4>1. h + 1 \in 1 .. n /\ (m + 1) - (h + 1) = m - h
        BY <1>2
      <4>2. s[(m + 1) - (h + 1)] = "\\"
        BY <1>2, <4>1 DEF Runs
      <4> QED
        BY <4>1, <4>2
    <3> QED
      BY <3>1, <3>2 DEF Runs
  <2>3. n = r + 1
    <3>1. r + 1 <= n
      BY <1>2, <2>1
    <3>2. n - 1 <= r
      BY <1>1, <2>2, <3>1, <1>2
    <3> QED
      BY <1>1, <1>2, <3>1, <3>2
  <2>4. n % 2 = 1 <=> ~(r % 2 = 1)
    BY <1>1, <2>3
  <2> QED
    BY <1>1, <1>2, <1>4, <2>4
<1> QED
  BY <1>3, <1>4

(***************************************************************************)
(* The scanner stands outside literals and comments wherever a lexeme      *)
(* starts, or at the end of the line a comment ran to.                     *)
(***************************************************************************)
StateAt(s, i)    == Scanned(s)[i].at
SkipsAt(s, i)    == Scanned(s)[i].skip
MultipleAt(s, i) == Scanned(s)[i].multiple

\* One turn of the loop.
LEMMA ScanStep ==
  ASSUME NEW s \in Seq(Symbols), NEW i \in 1 .. Len(s)
  PROVE  /\ StateAt(s, i - 1) \in Ats
         /\ SkipsAt(s, i - 1) =>
              StateAt(s, i) = StateAt(s, i - 1) /\ ~SkipsAt(s, i)
         /\ ~SkipsAt(s, i - 1) =>
              /\ StateAt(s, i) = Scan(s, StateAt(s, i - 1), i).at
              /\ SkipsAt(s, i) <=> Scan(s, StateAt(s, i - 1), i).skip
              /\ Separates(s, StateAt(s, i - 1), i) => MultipleAt(s, i)
         /\ MultipleAt(s, i - 1) => MultipleAt(s, i)
<1> DEFINE acc == Scanned(s)[i - 1]
<1>1. Scanned(s)[i] = Turn(s, acc, i) /\ acc \in States
  <2>1. i - 1 \in 0 .. Len(s)
    OBVIOUS
  <2> QED
    BY <2>1, ScannedFacts
<1> HIDE DEF acc
<1>2. acc.at \in Ats /\ acc.skip \in BOOLEAN /\ acc.multiple \in BOOLEAN
  BY <1>1 DEF States
<1>3. CASE acc.skip
  <2>1. Scanned(s)[i] = [acc EXCEPT !.skip = FALSE]
    BY <1>1, <1>3 DEF Turn
  <2>2. Scanned(s)[i].at = acc.at /\ Scanned(s)[i].skip = FALSE /\ Scanned(s)[i].multiple = acc.multiple
    BY <1>1, <2>1 DEF States
  <2> QED
    BY <1>2, <1>3, <2>2 DEF StateAt, SkipsAt, MultipleAt, acc
<1>4. CASE ~acc.skip
  <2>1. /\ Scanned(s)[i].at = Scan(s, acc.at, i).at
        /\ Scanned(s)[i].skip = Scan(s, acc.at, i).skip
        /\ Scanned(s)[i].multiple = (acc.multiple \/ Separates(s, acc.at, i))
    BY <1>1, <1>4 DEF Turn
  <2> QED
    BY <1>2, <1>4, <2>1 DEF StateAt, SkipsAt, MultipleAt, acc
<1> QED
  BY <1>3, <1>4

\* In the normal state a symbol that opens nothing leaves the scanner there.
LEMMA StaysNormal ==
  ASSUME NEW s \in Seq(Symbols), NEW i \in 1 .. Len(s),
         StateAt(s, i - 1) = "normal", ~SkipsAt(s, i - 1), s[i] \notin Quotes,
         ~At(s, i, <<"-", "-">>), ~At(s, i, <<"/", "*">>)
  PROVE  StateAt(s, i) = "normal" /\ ~SkipsAt(s, i)
<1>1. Opened(s, i) = "normal"
  BY DEF Opened
<1>2. Scan(s, "normal", i).at = "normal" /\ ~Scan(s, "normal", i).skip
  BY <1>1 DEF Scan, Quotes
<1> QED
  BY <1>2, ScanStep

\* Through a word.
LEMMA WordScanned ==
  ASSUME NEW s \in Seq(Symbols), NEW i \in 1 .. Len(s), s[i] \in Words,
         StateAt(s, i - 1) = "normal", ~SkipsAt(s, i - 1)
  PROVE  LET l == LexemeAt(s, i).last IN StateAt(s, l) = "normal" /\ ~SkipsAt(s, l)
<1> DEFINE l == LexemeAt(s, i).last
           P == {k \in Nat : StateAt(s, k) = "normal" /\ ~SkipsAt(s, k)}
<1>1. l \in i .. Len(s) /\ \A k \in i .. l : s[k] \in Words
  BY WordLexeme
<1> HIDE DEF l
<1>2. \A k \in i - 1 .. l : k \in P /\ k < l => k + 1 \in P
  <2> TAKE k \in i - 1 .. l
  <2> SUFFICES ASSUME k \in P, k < l PROVE k + 1 \in P
    OBVIOUS
  <2>1. k + 1 \in i .. l /\ k + 1 \in 1 .. Len(s) /\ (k + 1) - 1 = k /\ k + 1 \in Nat
    BY <1>1
  <2>2. /\ s[k + 1] \notin Quotes
        /\ ~At(s, k + 1, <<"-", "-">>) /\ ~At(s, k + 1, <<"/", "*">>)
    BY <1>1, <2>1, OneKind DEF Openers
  <2>3. StateAt(s, k + 1) = "normal" /\ ~SkipsAt(s, k + 1)
    BY <2>1, <2>2, StaysNormal
  <2> QED
    BY <2>1, <2>3
<1>3. i - 1 \in P /\ i - 1 \in Nat /\ l \in Nat /\ l \in i - 1 .. l
  BY <1>1
<1>4. l \in P
  <2> HIDE DEF P
  <2> QED
    BY <1>2, <1>3, Along
<1> QED
  BY <1>4 DEF l

\* Through a known literal that ends: the scanner skips what the reference calls escaped.
LEMMA LiteralScanned ==
  ASSUME NEW s \in Seq(Symbols), NEW i \in 1 .. Len(s), s[i] \in Quotes,
         Kind(s, i) = "literal", ~Foreign(s, i), StateAt(s, i - 1) = "normal", ~SkipsAt(s, i - 1)
  PROVE  LET l == LexemeAt(s, i).last IN StateAt(s, l) = "normal" /\ ~SkipsAt(s, l)
<1> DEFINE l == LexemeAt(s, i).last
           P == {k \in Nat : /\ StateAt(s, k) = s[i]
                             /\ SkipsAt(s, k) <=> Escaped(s, i, k + 1)}
<1>1. /\ l \in i + 1 .. Len(s) /\ l \in LiteralEnds(s, i)
      /\ \A j \in LiteralEnds(s, i) : l <= j
  BY QuoteLexeme DEF Openers
<1>2. s[l] = s[i] /\ ~Escaped(s, i, l)
  BY <1>1 DEF LiteralEnds
<1>10. s[i] # Heredoc /\ (s[i] = "bq" => \A k \in i .. l : s[k] # "\\")
  BY DEF Foreign
<1> HIDE DEF l
<1>3. i \in Nat /\ l \in Nat /\ l - 1 \in Nat /\ l - 1 \in i .. l - 1 /\ Len(s) \in Nat
  BY <1>1
<1>4. i \in P
  <2>1. Opened(s, i) = s[i] /\ s[i] \notin {"line", "block"}
    BY OneKind DEF Opened, Quotes
  <2>2. Scan(s, "normal", i).at = s[i] /\ ~Scan(s, "normal", i).skip
    BY <2>1 DEF Scan, Quotes
  <2>3. StateAt(s, i) = s[i] /\ ~SkipsAt(s, i)
    BY <2>2, ScanStep
  <2> QED
    BY <1>3, <2>3, EscapedFirst
<1>5. \A k \in i .. l - 1 : k \in P /\ k < l - 1 => k + 1 \in P
  <2> TAKE k \in i .. l - 1
  <2> SUFFICES ASSUME k \in P, k < l - 1 PROVE k + 1 \in P
    OBVIOUS
  <2>1. /\ k + 1 \in 1 .. Len(s) /\ k + 1 \in i + 1 .. Len(s) /\ (k + 1) - 1 = k
        /\ k + 1 \in Nat /\ i < k + 1 /\ ~(l <= k + 1) /\ k + 1 \in i .. l
    BY <1>1, <1>3
  <2>2. Escaped(s, i, (k + 1) + 1) <=> s[i] # "bq" /\ s[k + 1] = "\\" /\ ~Escaped(s, i, k + 1)
    <3>1. Escaped(s, i, (k + 1) + 1) <=>
            s[i] # Heredoc /\ s[k + 1] = "\\" /\ ~Escaped(s, i, k + 1)
      BY <1>3, <2>1, EscapedNext
    <3> QED
      BY <1>10, <2>1, <3>1
  <2>3. CASE Escaped(s, i, k + 1)
    <3>1. StateAt(s, k + 1) = s[i] /\ ~SkipsAt(s, k + 1)
      BY <2>1, <2>3, ScanStep
    <3> QED
      BY <2>1, <2>2, <2>3, <3>1
  <2>4. CASE ~Escaped(s, i, k + 1)
    <3>1. s[k + 1] # s[i]
      <4>1. k + 1 \notin LiteralEnds(s, i)
        BY <1>1, <2>1
      <4> QED
        BY <2>1, <2>4, <4>1 DEF LiteralEnds
    <3>2. /\ Scan(s, s[i], k + 1).at = s[i]
          /\ Scan(s, s[i], k + 1).skip <=> s[k + 1] = "\\" /\ s[i] # "bq"
      BY <3>1 DEF Scan, Quotes
    <3>3. StateAt(s, k) = s[i] /\ ~SkipsAt(s, k)
      BY <2>4
    <3>4. /\ StateAt(s, k + 1) = s[i]
          /\ SkipsAt(s, k + 1) <=> s[k + 1] = "\\" /\ s[i] # "bq"
      BY <2>1, <3>2, <3>3, ScanStep
    <3> QED
      BY <2>1, <2>2, <2>4, <3>4
  <2> QED
    BY <2>3, <2>4
<1>6. l - 1 \in P
  <2> HIDE DEF P
  <2> QED
    BY <1>3, <1>4, <1>5, Along
<1>7. StateAt(s, l - 1) = s[i] /\ ~SkipsAt(s, l - 1)
  <2>1. (l - 1) + 1 = l
    BY <1>3
  <2> QED
    BY <1>2, <1>6, <2>1
<1>8. Scan(s, s[i], l).at = "normal" /\ ~Scan(s, s[i], l).skip
  BY <1>2 DEF Scan, Quotes
<1>9. l \in 1 .. Len(s)
  BY <1>1
<1> QED
  BY <1>7, <1>8, <1>9, ScanStep DEF l

\* Through a comment of two dashes, up to the end of its line.
LEMMA LineScanned ==
  ASSUME NEW s \in Seq(Symbols), NEW i \in 1 .. Len(s), At(s, i, <<"-", "-">>),
         StateAt(s, i - 1) = "normal", ~SkipsAt(s, i - 1)
  PROVE  LET l == LexemeAt(s, i).last IN StateAt(s, l) = "line" /\ ~SkipsAt(s, l)
<1> DEFINE l == LexemeAt(s, i).last
           P == {k \in Nat : StateAt(s, k) = "line" /\ ~SkipsAt(s, k)}
<1>1. /\ l \in i + 1 .. Len(s) /\ s[i] = "-"
      /\ \A k \in i .. l : s[k] # "\n"
  <2>1. s[i] = "-" /\ LineComment(s, i)
    BY AtTwo DEF LineComment
  <2>2. l \in i .. Len(s) /\ l # i /\ \A k \in i .. l : s[k] # "\n"
    BY <2>1, LineLexeme
  <2> HIDE DEF l
  <2> QED
    BY <2>1, <2>2
<1> HIDE DEF l
<1>2. i \in Nat /\ l \in Nat /\ Len(s) \in Nat /\ i + 1 \in 1 .. Len(s) /\ (i + 1) - 1 = i
  BY <1>1
<1>3. StateAt(s, i) = "line" /\ SkipsAt(s, i)
  <2>1. Opened(s, i) = "line"
    BY OneKind DEF Opened
  <2>2. Scan(s, "normal", i).at = "line" /\ Scan(s, "normal", i).skip
    BY <2>1 DEF Scan, Quotes
  <2> QED
    BY <2>2, ScanStep
<1>4. i + 1 \in P
  BY <1>2, <1>3, ScanStep
<1>5. \A k \in i + 1 .. l : k \in P /\ k < l => k + 1 \in P
  <2> TAKE k \in i + 1 .. l
  <2> SUFFICES ASSUME k \in P, k < l PROVE k + 1 \in P
    OBVIOUS
  <2>1. /\ k + 1 \in 1 .. Len(s) /\ k + 1 \in i .. l /\ (k + 1) - 1 = k /\ k + 1 \in Nat
    BY <1>1, <1>2
  <2>2. Scan(s, "line", k + 1).at = "line" /\ ~Scan(s, "line", k + 1).skip
    BY <1>1, <2>1 DEF Scan, Quotes
  <2> QED
    BY <2>1, <2>2, ScanStep
<1>6. l \in P
  <2>1. i + 1 \in Nat /\ l \in i + 1 .. l
    BY <1>1, <1>2
  <2> HIDE DEF P
  <2> QED
    BY <1>2, <1>4, <1>5, <2>1, Along
<1> QED
  BY <1>6 DEF l

\* Through a comment of the other kind, if it ends.
LEMMA BlockScanned ==
  ASSUME NEW s \in Seq(Symbols), NEW i \in 1 .. Len(s), At(s, i, <<"/", "*">>),
         Kind(s, i) = "comment", StateAt(s, i - 1) = "normal", ~SkipsAt(s, i - 1)
  PROVE  LET l == LexemeAt(s, i).last IN StateAt(s, l) = "normal" /\ ~SkipsAt(s, l)
<1>1. PICK e \in CommentEnds(s, i) :
        /\ e \in i + 2 .. Len(s) - 1 /\ LexemeAt(s, i).last = e + 1
        /\ \A j \in CommentEnds(s, i) : e <= j
  BY BlockLexeme
<1> DEFINE P == {k \in Nat : StateAt(s, k) = "block" /\ ~SkipsAt(s, k)}
<1>2. /\ i \in Nat /\ e \in Nat /\ Len(s) \in Nat
      /\ i + 1 \in 1 .. Len(s) /\ (i + 1) - 1 = i
      /\ e \in 1 .. Len(s) /\ e + 1 \in 1 .. Len(s) /\ (e + 1) - 1 = e
      /\ i + 1 \in Nat /\ e - 1 \in Nat /\ e - 1 \in i + 1 .. e - 1
  BY <1>1
<1>3. StateAt(s, i) = "block" /\ SkipsAt(s, i)
  <2>1. Opened(s, i) = "block"
    BY OneKind DEF Opened
  <2>2. Scan(s, "normal", i).at = "block" /\ Scan(s, "normal", i).skip
    BY <2>1 DEF Scan, Quotes
  <2> QED
    BY <2>2, ScanStep
<1>4. i + 1 \in P
  BY <1>2, <1>3, ScanStep
<1>5. \A k \in i + 1 .. e - 1 : k \in P /\ k < e - 1 => k + 1 \in P
  <2> TAKE k \in i + 1 .. e - 1
  <2> SUFFICES ASSUME k \in P, k < e - 1 PROVE k + 1 \in P
    OBVIOUS
  <2>1. /\ k + 1 \in 1 .. Len(s) /\ k + 1 \in i + 2 .. Len(s) - 1 /\ ~(e <= k + 1)
        /\ (k + 1) - 1 = k /\ k + 1 \in Nat
    BY <1>1, <1>2
  <2>2. ~At(s, k + 1, <<"*", "/">>)
    BY <1>1, <2>1 DEF CommentEnds
  <2>3. Scan(s, "block", k + 1).at = "block" /\ ~Scan(s, "block", k + 1).skip
    BY <2>2 DEF Scan, Quotes
  <2> QED
    BY <2>1, <2>3, ScanStep
<1>6. e - 1 \in P
  <2> HIDE DEF P
  <2> QED
    BY <1>2, <1>4, <1>5, Along
<1>7. StateAt(s, e) = "normal" /\ SkipsAt(s, e)
  <2>1. At(s, e, <<"*", "/">>)
    BY <1>1 DEF CommentEnds
  <2>2. Scan(s, "block", e).at = "normal" /\ Scan(s, "block", e).skip
    BY <2>1 DEF Scan, Quotes
  <2> QED
    BY <1>2, <1>6, <2>2, ScanStep
<1>8. StateAt(s, e + 1) = "normal" /\ ~SkipsAt(s, e + 1)
  BY <1>2, <1>7, ScanStep
<1> QED
  BY <1>1, <1>8

\* In step with the reference.
InStep(s, i) ==
  /\ ~SkipsAt(s, i - 1)
  /\ StateAt(s, i - 1) = "normal" \/ (StateAt(s, i - 1) = "line" /\ s[i] = "\n")

LEMMA InStepFirst ==
  ASSUME NEW s \in Seq(Symbols) PROVE InStep(s, 1)
<1>1. 1 - 1 = 0
  OBVIOUS
<1> QED
  BY <1>1, ScannedFacts DEF InStep, SkipsAt, StateAt

LEMMA InStepNext ==
  ASSUME NEW s \in Seq(Symbols), NEW i \in 1 .. Len(s), InStep(s, i), After(s, i) <= Len(s),
         s[i] \in Blanks \/ ~Foreign(s, i)
  PROVE  InStep(s, After(s, i))
<1> DEFINE l == LexemeAt(s, i).last
<1>1. /\ i \in Nat /\ Len(s) \in Nat /\ (i + 1) - 1 = i
      /\ l \in i .. Len(s) /\ (l + 1) - 1 = l
  BY LexemeLast
<1>2. CASE s[i] \in Blanks
  <2>1. After(s, i) = i + 1
    BY <1>2 DEF After
  <2>2. ~SkipsAt(s, i) /\ StateAt(s, i) = "normal"
    <3>1. CASE StateAt(s, i - 1) = "normal"
      BY <1>2, <3>1, OneKind, StaysNormal DEF InStep
    <3>2. CASE StateAt(s, i - 1) = "line" /\ s[i] = "\n"
      <4>1. Scan(s, "line", i).at = "normal" /\ ~Scan(s, "line", i).skip
        BY <3>2 DEF Scan, Quotes
      <4> QED
        BY <3>2, <4>1, ScanStep DEF InStep
    <3> QED
      BY <3>1, <3>2 DEF InStep
  <2> QED
    BY <1>1, <2>1, <2>2 DEF InStep
<1>3. CASE s[i] \notin Blanks
  <2>1. After(s, i) = l + 1 /\ l < Len(s)
    BY <1>1, <1>3 DEF After
  <2>2. StateAt(s, i - 1) = "normal" /\ ~SkipsAt(s, i - 1)
    BY <1>3 DEF InStep, Blanks
  <2>3. CASE s[i] \in Words
    BY <1>1, <2>1, <2>2, <2>3, WordScanned DEF InStep
  <2>4. CASE s[i] \in Quotes
    <3>1. Kind(s, i) = "literal"
      BY <1>1, <2>1, <2>4, QuoteLexeme DEF Openers
    <3> QED
      BY <1>1, <1>3, <2>1, <2>2, <2>4, <3>1, LiteralScanned DEF InStep
  <2>5. CASE At(s, i, <<"-", "-">>)
    <3>1. s[l + 1] = "\n"
      BY <2>1, <2>5, LineLexeme DEF LineComment
    <3>2. StateAt(s, l) = "line" /\ ~SkipsAt(s, l)
      BY <2>2, <2>5, LineScanned
    <3> QED
      BY <1>1, <2>1, <3>1, <3>2 DEF InStep
  <2>6. CASE At(s, i, <<"/", "*">>)
    <3>1. Kind(s, i) = "comment"
      BY <1>1, <2>1, <2>6, BlockLexeme
    <3> QED
      BY <1>1, <2>1, <2>2, <2>6, <3>1, BlockScanned DEF InStep
  <2>7. CASE /\ s[i] \notin Words \cup Quotes
             /\ ~At(s, i, <<"-", "-">>) /\ ~At(s, i, <<"/", "*">>)
    <3>1. l = i
      BY <1>3, <2>7, SignLexeme DEF Foreign, Openers, LineComment
    <3>2. StateAt(s, i) = "normal" /\ ~SkipsAt(s, i)
      BY <2>2, <2>7, StaysNormal
    <3> QED
      BY <1>1, <2>1, <3>1, <3>2 DEF InStep
  <2> QED
    BY <2>3, <2>4, <2>5, <2>6, <2>7
<1> QED
  BY <1>2, <1>3

LEMMA InStepEverywhere ==
  ASSUME NEW s \in Seq(Symbols), KnownLexemes(s), NEW i \in Starts(s)
  PROVE  /\ i \in 1 .. Len(s) /\ s[i] \notin Blanks
         /\ StateAt(s, i - 1) = "normal" /\ ~SkipsAt(s, i - 1)
<1>1. i \in Places(s)[1] /\ s[i] \notin Blanks
  BY DEF Starts
<1>2. 1 \in 1 .. Len(s) /\ 1 \in Places(s)[1]
  BY <1>1, PlacesAreInside, PlacesRange
<1> DEFINE P == {k \in Places(s)[1] : InStep(s, k)}
<1>3. \A k \in 1 .. Len(s) : k \in P /\ After(s, k) <= Len(s) => After(s, k) \in P
  <2> TAKE k \in 1 .. Len(s)
  <2> SUFFICES ASSUME k \in P, After(s, k) <= Len(s) PROVE After(s, k) \in P
    OBVIOUS
  <2>1. After(s, k) \in Places(s)[1]
    BY PlacesClosed
  <2>2. s[k] \in Blanks \/ ~Foreign(s, k)
    BY DEF KnownLexemes, Starts
  <2> QED
    BY <2>1, <2>2, InStepNext
<1>4. 1 \in P
  BY <1>2, InStepFirst
<1>5. Places(s)[1] \subseteq P
  <2> HIDE DEF P
  <2> QED
    BY <1>2, <1>3, <1>4, PlacesInduction
<1>6. i \in 1 .. Len(s) /\ InStep(s, i)
  BY <1>1, <1>5, PlacesAreInside
<1> QED
  BY <1>1, <1>6 DEF InStep, Blanks

(***************************************************************************)
(* No statement is dropped.                                                *)
(***************************************************************************)

\* A separator that something follows is seen where it stands.
LEMMA SeparatorIsSeen ==
  ASSUME NEW s \in Seq(Symbols), KnownLexemes(s),
         NEW i \in 1 .. Len(s), i \in Starts(s), s[i] = Separator,
         NEW j \in 1 .. Len(s), i < j, s[j] \notin Blanks
  PROVE  MultipleAt(s, i)
<1>1. StateAt(s, i - 1) = "normal" /\ ~SkipsAt(s, i - 1)
  BY InStepEverywhere
<1> DEFINE rest  == SubSeq(s, i + 1, Len(s))
           solid == {k \in DOMAIN rest : rest[k] \notin Blanks}
<1>2. /\ rest \in Seq(Symbols) /\ Len(rest) = Len(s) - i
      /\ \A k \in 1 .. Len(rest) : rest[k] = s[i + k]
  <2>1. i + 1 <= Len(s) /\ i + 1 \in Int /\ Len(s) \in Int
    BY <1>1
  <2>2. \A k \in i + 1 .. Len(s) : s[k] \in Symbols
    BY <1>1
  <2>3. /\ rest \in Seq(Symbols) /\ Len(rest) = Len(s) - (i + 1) + 1
        /\ \A k \in 1 .. Len(s) - (i + 1) + 1 : rest[k] = s[(i + 1) + k - 1]
    <3>1. /\ s \in Seq(Symbols) /\ i + 1 \in 1 .. Len(s) + 1 /\ Len(s) \in i .. Len(s)
          /\ i = (i + 1) - 1
      BY <1>1, <2>1
    <3> QED
      BY ONLY <2>1, <2>2, <3>1, SubSeqProperties DEF rest
  <2>4. /\ Len(s) - (i + 1) + 1 = Len(s) - i
        /\ \A k \in 1 .. Len(s) - i : (i + 1) + k - 1 = i + k
    BY <1>1
  <2> HIDE DEF rest
  <2>5. rest \in Seq(Symbols) /\ Len(rest) = Len(s) - i
    BY <2>3, <2>4
  <2>6. \A k \in 1 .. Len(s) - i : rest[k] = s[i + k]
    BY <2>3, <2>4
  <2> QED
    BY <2>5, <2>6
<1> HIDE DEF rest
<1>3. j - i \in solid
  <2>1. j - i \in 1 .. Len(rest) /\ i + (j - i) = j
    BY <1>1, <1>2
  <2>2. rest[j - i] = s[j]
    BY <1>2, <2>1
  <2> QED
    BY <1>2, <2>1, <2>2
<1>4. /\ solid \in SUBSET (0 .. Len(rest)) /\ solid \in SUBSET Nat /\ Len(rest) \in Nat
      /\ solid # {} /\ solid \subseteq 1 .. Len(rest)
  <2>1. solid \subseteq 1 .. Len(rest) /\ Len(rest) \in Nat
    BY <1>2
  <2> HIDE DEF solid
  <2> QED
    BY <1>3, <2>1
<1>5. TrimSpace(rest) = SubSeq(rest, Min(solid), Max(solid))
  BY <1>4 DEF TrimSpace
<1>6. Min(solid) \in 1 .. Len(rest) /\ Max(solid) \in 1 .. Len(rest) /\ Min(solid) <= Max(solid)
  <2> HIDE DEF solid
  <2> QED
    BY <1>4, MinFacts, MaxFacts
<1>7. TrimSpace(rest) # <<>>
  <2>1. \A k \in Min(solid) .. Max(solid) : rest[k] \in Symbols
    BY <1>2, <1>6
  <2>2. Len(SubSeq(rest, Min(solid), Max(solid))) = Max(solid) - Min(solid) + 1
    <3> HIDE DEF solid
    <3> QED
      BY <1>6, <2>1, SubSeqProperties
  <2>3. Max(solid) - Min(solid) + 1 # 0
    BY <1>6
  <2>4. Len(<<>>) = 0
    OBVIOUS
  <2> HIDE DEF solid
  <2> QED
    BY <1>5, <2>2, <2>3, <2>4
<1>8. Separates(s, "normal", i)
  BY <1>7 DEF Separates, rest
<1> QED
  BY <1>1, <1>8, ScanStep

LEMMA SeveralAreSeen ==
  ASSUME NEW s \in Seq(Symbols), KnownLexemes(s), NEW i \in Starts(s), s[i] = Separator,
         NEW j \in 1 .. Len(s), i < j, s[j] \notin Blanks
  PROVE  ContainsMultipleStatements(s)
<1>1. i \in 1 .. Len(s)
  BY InStepEverywhere
<1>2. MultipleAt(s, i)
  BY <1>1, SeparatorIsSeen
<1> DEFINE P == {k \in Nat : MultipleAt(s, k)}
<1>3. \A k \in i .. Len(s) : k \in P /\ k < Len(s) => k + 1 \in P
  <2> TAKE k \in i .. Len(s)
  <2> SUFFICES ASSUME k \in P, k < Len(s) PROVE k + 1 \in P
    OBVIOUS
  <2>1. k + 1 \in 1 .. Len(s) /\ (k + 1) - 1 = k /\ k + 1 \in Nat
    BY <1>1
  <2> QED
    BY <2>1, ScanStep
<1>4. i \in Nat /\ Len(s) \in Nat /\ i \in P /\ Len(s) \in i .. Len(s)
  BY <1>1, <1>2
<1>5. Len(s) \in P
  <2> HIDE DEF P
  <2> QED
    BY <1>3, <1>4, Along
<1> QED
  BY <1>5 DEF MultipleAt, ContainsMultipleStatements

\* A text of known lexemes that is let through holds one statement.
LEMMA OneStatement ==
  ASSUME NEW s \in Seq(Symbols), KnownLexemes(s), HoldsSeveral(s)
  PROVE  ContainsMultipleStatements(s)
<1>1. PICK i \in Tokens(s), j \in Tokens(s) : s[i] = Separator /\ i < j
  BY DEF HoldsSeveral
<1>2. i \in Starts(s) /\ j \in Starts(s)
  BY DEF Tokens
<1>3. j \in 1 .. Len(s) /\ s[j] \notin Blanks
  BY <1>2, InStepEverywhere
<1> QED
  BY <1>1, <1>2, <1>3, SeveralAreSeen

(***************************************************************************)
(* What an agent types.                                                    *)
(***************************************************************************)
TypeOK == symbols \in Alphabets /\ sql \in Seq(Symbols)

\* An agent's text is made of symbols the scanners know.
THEOREM TypeCorrect == Spec => []TypeOK
<1>1. Init => TypeOK
  BY DEF Init, TypeOK
<1>2. TypeOK /\ [Next]_<<symbols, sql>> => TypeOK'
  <2> SUFFICES ASSUME TypeOK, [Next]_<<symbols, sql>> PROVE TypeOK'
    OBVIOUS
  <2>1. ASSUME NEW c \in symbols, Type(c) PROVE TypeOK'
    <3>1. c \in Symbols
      BY AlphabetAssumption DEF TypeOK, Symbols
    <3> QED
      BY <2>1, <3>1 DEF Type, TypeOK
  <2>2. CASE UNCHANGED <<symbols, sql>>
    BY <2>2 DEF TypeOK
  <2> QED
    BY <2>1, <2>2 DEF Next
<1> QED
  BY <1>1, <1>2, PTL DEF Spec

\* No text of the lexemes the scanner knows, of any length, that is let through as one
\* statement holds a second one (ContainsMultipleStatements in internal/query/result.go).
THEOREM OneStatementIsRun == Spec => []NoStatementIsDropped
<1>1. TypeOK => NoStatementIsDropped
  BY OneStatement DEF TypeOK, NoStatementIsDropped
<1> QED
  BY <1>1, TypeCorrect, PTL

(***************************************************************************)
(* The first token.                                                        *)
(***************************************************************************)

\* The end of a block comment is where the reference has it, but for "/*/".
LEMMA AfterCommentFacts ==
  ASSUME NEW s \in Seq(Symbols), NEW i \in 1 .. Len(s)
  PROVE  /\ At(s, i, <<"-", "-">>) =>
              /\ AfterComment(s, i) = LexemeAt(s, i).last + 2
              /\ AfterComment(s, i) \in i + 1 .. Len(s) + 2
         /\ At(s, i, <<"/", "*">>) =>
              /\ AfterComment(s, i) \in i + 1 .. Len(s) + 3
              /\ ~At(s, i, <<"/", "*", "/">>) =>
                   IF CommentEnds(s, i) = {} THEN AfterComment(s, i) = Len(s) + 3
                   ELSE AfterComment(s, i) = LexemeAt(s, i).last + 1
         /\ ~At(s, i, <<"-", "-">>) /\ ~At(s, i, <<"/", "*">>) => AfterComment(s, i) = i
<1>1. i \in Nat /\ Len(s) \in Nat
  OBVIOUS
<1>2. CASE At(s, i, <<"-", "-">>)
  <2>1. ~At(s, i, <<"/", "*">>)
    BY <1>2, OneKind
  <2>2. AfterComment(s, i) = LineEnd(s, i) + 1
    BY <1>2, <2>1 DEF AfterComment
  <2>3. /\ LexemeAt(s, i).last + 1 = LineEnd(s, i)
        /\ LexemeAt(s, i).last \in i .. Len(s)
    BY <1>2, LineLexeme DEF LineComment
  <2> QED
    BY <1>1, <1>2, <2>1, <2>2, <2>3
<1>3. CASE At(s, i, <<"/", "*">>)
  <2> DEFINE ends == {j \in i .. Len(s) : At(s, j, <<"*", "/">>)}
  <2>1. ~At(s, i, <<"-", "-">>)
    BY <1>3, OneKind
  <2>2. AfterComment(s, i) = FirstOf(s, ends) + 2
    BY <1>3, <2>1 DEF AfterComment
  <2>3. ends \in SUBSET (1 .. Len(s))
    BY <1>1
  <2>4. /\ FirstOf(s, ends) \in 1 .. Len(s) + 1
        /\ FirstOf(s, ends) <= Len(s) => FirstOf(s, ends) \in ends
        /\ \A k \in ends : FirstOf(s, ends) <= k
    <3> HIDE DEF ends
    <3> QED
      BY <2>3, FirstOfFacts
  <2>5. FirstOf(s, ends) >= i
    BY <1>1, <2>4
  <2>6. AfterComment(s, i) \in i + 1 .. Len(s) + 3
    BY <1>1, <2>2, <2>4, <2>5
  <2>7. ASSUME ~At(s, i, <<"/", "*", "/">>)
        PROVE  IF CommentEnds(s, i) = {} THEN AfterComment(s, i) = Len(s) + 3
               ELSE AfterComment(s, i) = LexemeAt(s, i).last + 1
    <3>1. s[i] = "/" /\ s[i + 1] = "*" /\ i + 1 <= Len(s)
      BY <1>3, BlockLexeme
    <3>2. ASSUME NEW j \in ends PROVE j \in CommentEnds(s, i)
      <4>1. j \in i .. Len(s) /\ j \in Nat \ {0} /\ j + 1 <= Len(s) /\ s[j] = "*" /\ s[j + 1] = "/"
        <5>1. j \in i .. Len(s) /\ j \in Nat \ {0} /\ At(s, j, <<"*", "/">>)
          BY <1>1
        <5> QED
          BY <5>1, AtTwo
      <4>2. j # i
        BY <3>1, <4>1
      <4>3. j # i + 1
        <5> SUFFICES ASSUME j = i + 1 PROVE FALSE
          OBVIOUS
        <5>1. /\ i + 3 - 1 = i + 2 /\ i + 2 <= Len(s) /\ s[i + 2] = "/"
              /\ Len(<<"/", "*", "/">>) = 3
          BY <1>1, <4>1
        <5> DEFINE t == SubSeq(s, i, i + 2)
        <5>2. \A k \in i .. i + 2 : s[k] \in Symbols
          BY <1>1, <5>1
        <5>3. /\ t \in Seq(Symbols) /\ Len(t) = (i + 2) - i + 1
              /\ \A k \in 1 .. (i + 2) - i + 1 : t[k] = s[i + k - 1]
          BY <1>1, <5>2, i <= i + 2, SubSeqProperties
        <5> HIDE DEF t
        <5>4. (i + 2) - i + 1 = 3 /\ i + 1 - 1 = i /\ i + 2 - 1 = i + 1 /\ i + 3 - 1 = i + 2
          BY <1>1
        <5>5. Len(t) = 3 /\ t[1] = "/" /\ t[2] = "*" /\ t[3] = "/"
          BY <3>1, <5>1, <5>3, <5>4
        <5>6. <<"/", "*", "/">> \in Seq(Symbols)
          BY DEF Symbols, Signs
        <5>7. t = <<"/", "*", "/">>
          BY <5>3, <5>5, <5>6, SeqEqual
        <5>8. At(s, i, <<"/", "*", "/">>)
          BY <5>1, <5>7 DEF At, t
        <5> QED
          BY <2>7, <5>8
      <4>4. j \in (i + 2) .. (Len(s) - 1)
        BY <1>1, <4>1, <4>2, <4>3
      <4> QED
        BY <4>4 DEF CommentEnds
    <3>3. CommentEnds(s, i) \subseteq ends
      BY <1>1 DEF CommentEnds
    <3>4. CASE CommentEnds(s, i) = {}
      <4>1. ends = {}
        BY <3>2, <3>4
      <4> QED
        BY <1>1, <2>2, <3>4, <4>1 DEF FirstOf
    <3>5. CASE CommentEnds(s, i) # {}
      <4>1. PICK e \in CommentEnds(s, i) :
              /\ e \in i + 2 .. Len(s) - 1 /\ LexemeAt(s, i).last = e + 1
              /\ \A j \in CommentEnds(s, i) : e <= j
        BY <1>3, <3>5, BlockLexeme
      <4>2. FirstOf(s, ends) <= e
        BY <2>4, <3>3
      <4>3. FirstOf(s, ends) \in CommentEnds(s, i)
        BY <1>1, <2>4, <3>2, <4>1, <4>2
      <4>4. FirstOf(s, ends) = e
        BY <1>1, <2>4, <4>1, <4>2, <4>3
      <4> QED
        BY <1>1, <2>2, <3>5, <4>1, <4>4
    <3> QED
      BY <3>4, <3>5
  <2> QED
    BY <1>3, <2>1, <2>6, <2>7
<1>4. CASE ~At(s, i, <<"-", "-">>) /\ ~At(s, i, <<"/", "*">>)
  BY <1>4 DEF AfterComment
<1> QED
  BY <1>2, <1>3, <1>4

\* Where the search for the first token goes on after a place, or the end.
Jump(s, i) ==
  IF s[i] \in Blanks \cup {"("} THEN i + 1
  ELSE IF AfterComment(s, i) # i THEN AfterComment(s, i)
  ELSE Len(s) + 1

StopsAt(s, i) == s[i] \notin Blanks \cup {"("} /\ AfterComment(s, i) = i

LEMMA JumpRange ==
  ASSUME NEW s \in Seq(Symbols), NEW i \in 1 .. Len(s)
  PROVE  Jump(s, i) \in i + 1 .. Len(s) + 3
<1>1. i \in Nat /\ Len(s) \in Nat
  OBVIOUS
<1>2. AfterComment(s, i) # i => AfterComment(s, i) \in i + 1 .. Len(s) + 3
  <2>1. AfterComment(s, i) \in i + 1 .. Len(s) + 2 => AfterComment(s, i) \in i + 1 .. Len(s) + 3
    BY <1>1
  <2> QED
    BY <2>1, AfterCommentFacts
<1> QED
  BY <1>1, <1>2 DEF Jump

\* The first token starts where nothing is passed over.
LEMMA TokenStartFacts ==
  ASSUME NEW s \in Seq(Symbols)
  PROVE  /\ \A i \in Len(s) + 1 .. Len(s) + 3 : TokenStart(s)[i] = Len(s) + 1
         /\ \A i \in 1 .. Len(s) :
              TokenStart(s)[i] = IF StopsAt(s, i) THEN i ELSE TokenStart(s)[Jump(s, i)]
<1> DEFINE D == 1 .. (Len(s) + 3)
           Body(f) ==
             [i \in D |->
                IF i > Len(s) THEN Len(s) + 1
                ELSE CASE s[i] \in Blanks \cup {"("}  -> f[i + 1]
                       [] AfterComment(s, i) # i      -> f[AfterComment(s, i)]
                       [] OTHER                       -> i]
           Value(f, i) ==
             IF i > Len(s) THEN Len(s) + 1 ELSE IF StopsAt(s, i) THEN i ELSE f[Jump(s, i)]
<1>1. Len(s) \in Nat /\ \A i \in 1 .. Len(s) : Jump(s, i) \in i + 1 .. Len(s) + 3
  BY JumpRange
<1>2. \A i \in D : i > Len(s) \/ (i \in 1 .. Len(s) /\ Jump(s, i) \in D)
  BY <1>1
<1>3. \A f : Body(f) = [i \in D |-> Value(f, i)]
  <2>1. ASSUME NEW i \in 1 .. Len(s), s[i] \in Blanks \cup {"("}
        PROVE  AfterComment(s, i) = i
    <3>1. ~At(s, i, <<"-", "-">>) /\ ~At(s, i, <<"/", "*">>)
      <4>1. /\ At(s, i, <<"-", "-">>) => s[i] = "-"
            /\ At(s, i, <<"/", "*">>) => s[i] = "/"
        BY i \in Nat \ {0}, AtTwo
      <4> QED
        BY <2>1, <4>1 DEF Blanks
    <3> QED
      BY <3>1, AfterCommentFacts
  <2>2. ASSUME NEW f, NEW i \in D PROVE Body(f)[i] = Value(f, i)
    <3>1. CASE i > Len(s)
      BY <3>1
    <3>2. CASE ~(i > Len(s)) /\ s[i] \in Blanks \cup {"("}
      <4>1. AfterComment(s, i) = i
        BY <1>2, <2>1, <3>2
      <4> QED
        BY <3>2, <4>1 DEF StopsAt, Jump
    <3>3. CASE ~(i > Len(s)) /\ s[i] \notin Blanks \cup {"("}
      BY <3>3 DEF StopsAt, Jump
    <3> QED
      BY <3>1, <3>2, <3>3
  <2> QED
    BY <2>2
<1>4. \E f : f = Body(f)
  <2> DEFINE V    == 1 .. Len(s) + 1
             rank == [i \in D |-> IF i > Len(s) THEN 0 ELSE Len(s) + 1 - i]
             prev == [i \in D |-> IF i > Len(s) THEN i ELSE Jump(s, i)]
             base == [i \in D |-> Len(s) + 1]
             step == [i \in D |-> [x \in V |-> IF i <= Len(s) /\ StopsAt(s, i) THEN i ELSE x]]
  <2>1. Ranked(D, V, Len(s), rank, prev, base, step)
    <3>1. rank \in [D -> 0 .. Len(s)]
      BY <1>1, <1>2
    <3>2. prev \in [D -> D] /\ base \in [D -> V]
      BY <1>1, <1>2
    <3>3. \A i \in D : rank[i] # 0 => rank[prev[i]] < rank[i]
      <4> TAKE i \in D
      <4> SUFFICES ASSUME rank[i] # 0 PROVE rank[prev[i]] < rank[i]
        OBVIOUS
      <4>1. i \in 1 .. Len(s) /\ ~(i > Len(s))
        BY <1>1, <1>2
      <4>2. prev[i] = Jump(s, i) /\ Jump(s, i) \in D /\ Jump(s, i) \in i + 1 .. Len(s) + 3
        BY <1>1, <1>2, <4>1
      <4>3. rank[i] = Len(s) + 1 - i
        BY <4>1
      <4>4. rank[Jump(s, i)] = IF Jump(s, i) > Len(s) THEN 0 ELSE Len(s) + 1 - Jump(s, i)
        BY <4>2
      <4> QED
        BY <1>1, <4>1, <4>2, <4>3, <4>4
    <3>4. step \in [D -> [V -> V]]
      <4>1. \A i \in D, x \in V : (IF i <= Len(s) /\ StopsAt(s, i) THEN i ELSE x) \in V
        BY <1>1
      <4> QED
        BY <4>1
    <3> QED
      BY <1>1, <3>1, <3>2, <3>3, <3>4 DEF Ranked
  <2>2. PICK f : Recursive(f, D, V, rank, prev, base, step)
    <3> HIDE DEF rank, prev, base, step, D, V
    <3> QED
      BY <2>1, Recursion
  <2>3. /\ f \in [D -> V]
        /\ \A i \in D : f[i] = IF rank[i] = 0 THEN base[i] ELSE step[i][f[prev[i]]]
    BY <2>2 DEF Recursive
  <2>4. \A i \in D : f[i] = Value(f, i)
    <3> TAKE i \in D
    <3>1. CASE i > Len(s)
      <4>1. rank[i] = 0
        BY <3>1
      <4> QED
        BY <2>3, <3>1, <4>1
    <3>2. CASE ~(i > Len(s))
      <4>1. /\ rank[i] = Len(s) + 1 - i /\ prev[i] = Jump(s, i) /\ Jump(s, i) \in D
            /\ i <= Len(s)
        BY <1>1, <1>2, <3>2
      <4>2. rank[i] # 0
        BY <1>1, <4>1
      <4>3. f[Jump(s, i)] \in V
        BY <2>3, <4>1
      <4>4. step[i][f[Jump(s, i)]] = IF StopsAt(s, i) THEN i ELSE f[Jump(s, i)]
        BY <4>1, <4>3
      <4> QED
        BY <2>3, <3>2, <4>1, <4>2, <4>4
    <3> QED
      BY <3>1, <3>2
  <2>5. f = [i \in D |-> Value(f, i)]
    <3> HIDE DEF Value
    <3> QED
      BY <2>3, <2>4
  <2> QED
    BY <1>3, <2>5
<1>5. TokenStart(s) = CHOOSE f : f = Body(f)
  BY DEF TokenStart
<1>6. TokenStart(s) = Body(TokenStart(s))
  BY <1>4, <1>5
<1>7. \A i \in D : TokenStart(s)[i] = Value(TokenStart(s), i)
  <2>1. TokenStart(s) = [i \in D |-> Value(TokenStart(s), i)]
    BY <1>3, <1>6
  <2> HIDE DEF Value
  <2> QED
    BY <2>1
<1>8. /\ \A i \in Len(s) + 1 .. Len(s) + 3 : i \in D /\ i > Len(s)
      /\ \A i \in 1 .. Len(s) : i \in D /\ ~(i > Len(s))
  BY <1>1
<1> QED
  <2> HIDE DEF D
  <2> QED
    BY <1>7, <1>8

\* What the search passes over.
Passed(s, k) == s[k] \in Blanks \cup {"("} \/ (Kind(s, k) = "comment" /\ s[k] # "#!")

\* What the search from i on passes over holds a comment whose end it misplaces.
MisreadFrom(s, i) ==
  \E k \in Places(s)[i] : /\ At(s, k, <<"/", "*", "/">>)
                          /\ \A j \in Places(s)[i] : j < k => Passed(s, j)

\* The search from i on ends at the first place of the reference it does not pass, or
\* at the end when there is none but a comment that is never ended.
FindsFirst(s, i) ==
  LET t == TokenStart(s)[i]
  IN \/ t = Len(s) + 1 /\ \A k \in Places(s)[i] : Passed(s, k) \/ Kind(s, k) = "broken"
     \/ /\ t \in Places(s)[i] /\ ~Passed(s, t)
        /\ \A k \in Places(s)[i] : k < t => Passed(s, k)

\* When the search goes on where the next place is.
LEMMA FindsNext ==
  ASSUME NEW s \in Seq(Symbols), NEW i \in 1 .. Len(s), Passed(s, i),
         TokenStart(s)[i] = TokenStart(s)[After(s, i)],
         After(s, i) <= Len(s) => FindsFirst(s, After(s, i))
  PROVE  FindsFirst(s, i)
<1>1. /\ i \in Nat /\ Len(s) \in Nat /\ After(s, i) \in i + 1 .. Len(s) + 1
      /\ Places(s)[i] = {i} \cup Places(s)[After(s, i)]
  BY LexemeLast, PlacesFacts
<1>2. CASE After(s, i) = Len(s) + 1
  <2>1. TokenStart(s)[i] = Len(s) + 1 /\ Places(s)[i] = {i}
    BY <1>1, <1>2, TokenStartFacts, PlacesFacts
  <2> QED
    BY <2>1 DEF FindsFirst
<1>3. CASE After(s, i) <= Len(s)
  BY <1>1, <1>3 DEF FindsFirst
<1> QED
  BY <1>1, <1>2, <1>3

LEMMA TokenStartIsFirst ==
  ASSUME NEW s \in Seq(Symbols)
  PROVE  \A i \in 1 .. Len(s) : MisreadFrom(s, i) \/ FindsFirst(s, i)
<1> DEFINE Q == {i \in 1 .. Len(s) : MisreadFrom(s, i) \/ FindsFirst(s, i)}
<1>1. Len(s) \in Nat
  OBVIOUS
<1>2. \A i \in 1 .. Len(s) : (\A j \in 1 .. Len(s) : j > i => j \in Q) => i \in Q
  <2> TAKE i \in 1 .. Len(s)
  <2> SUFFICES ASSUME \A j \in 1 .. Len(s) : j > i => j \in Q, ~MisreadFrom(s, i)
               PROVE  FindsFirst(s, i)
    OBVIOUS
  <2>7. /\ Places(s)[i] = {i} \cup Places(s)[After(s, i)]
        /\ i \in Places(s)[i] /\ \A j \in Places(s)[i] : ~(j < i)
    BY PlacesFacts, PlacesRange
  <2>1. /\ i \in Nat /\ After(s, i) \in i + 1 .. Len(s) + 1
        /\ Passed(s, i) /\ After(s, i) <= Len(s) => FindsFirst(s, After(s, i))
    <3>1. After(s, i) \in i + 1 .. Len(s) + 1
      BY LexemeLast
    <3>2. After(s, i) <= Len(s) => After(s, i) \in 1 .. Len(s) /\ After(s, i) > i
      BY <1>1, <3>1
    <3>3. Passed(s, i) => ~MisreadFrom(s, After(s, i))
      BY <2>7 DEF MisreadFrom
    <3> QED
      BY <3>1, <3>2, <3>3
  <2>8. ~At(s, i, <<"/", "*", "/">>)
    BY <2>7 DEF MisreadFrom
  <2>2. TokenStart(s)[i] = IF StopsAt(s, i) THEN i ELSE TokenStart(s)[Jump(s, i)]
    BY TokenStartFacts
  <2>3. CASE s[i] \in Blanks \cup {"("}
    <3>1. After(s, i) = i + 1
      <4>1. CASE s[i] \in Blanks
        BY <4>1 DEF After
      <4>2. CASE s[i] = "("
        <5>1. /\ s[i] \notin Blanks \cup Words \cup Openers
              /\ ~LineComment(s, i) /\ ~At(s, i, <<"/", "*">>)
          <6>1. /\ At(s, i, <<"-", "-">>) => s[i] = "-"
                /\ At(s, i, <<"/", "*">>) => s[i] = "/"
            BY i \in Nat \ {0}, AtTwo
          <6> QED
            BY <4>2, <6>1 DEF Blanks, Words, Quotes, Openers, Heredoc, LineComment
        <5> QED
          BY <5>1, SignLexeme DEF After
      <4> QED
        BY <2>3, <4>1, <4>2
    <3>2. ~StopsAt(s, i) /\ Jump(s, i) = i + 1 /\ Passed(s, i)
      BY <2>3 DEF StopsAt, Jump, Passed
    <3> QED
      BY <2>1, <2>2, <3>1, <3>2, FindsNext
  <2>4. CASE At(s, i, <<"-", "-">>)
    <3>1. /\ s[i] = "-" /\ Kind(s, i) = "comment" /\ LexemeAt(s, i).last \in i .. Len(s)
          /\ LexemeAt(s, i).last < Len(s) => s[LexemeAt(s, i).last + 1] = "\n"
      BY <2>1, <2>4, LineLexeme, AtTwo DEF LineComment
    <3>2. /\ After(s, i) = LexemeAt(s, i).last + 1
          /\ AfterComment(s, i) = After(s, i) + 1 /\ AfterComment(s, i) # i
      <4>1. After(s, i) = LexemeAt(s, i).last + 1
        BY <3>1 DEF After, Blanks
      <4>2. /\ AfterComment(s, i) = LexemeAt(s, i).last + 2
            /\ AfterComment(s, i) \in i + 1 .. Len(s) + 2
        BY <2>4, AfterCommentFacts
      <4> QED
        BY <2>1, <3>1, <4>1, <4>2
    <3>3. ~StopsAt(s, i) /\ Jump(s, i) = After(s, i) + 1 /\ Passed(s, i)
      BY <3>1, <3>2 DEF StopsAt, Jump, Passed, Blanks
    <3>4. TokenStart(s)[After(s, i) + 1] = TokenStart(s)[After(s, i)]
      <4>1. CASE After(s, i) = Len(s) + 1
        <5>1. After(s, i) \in Len(s) + 1 .. Len(s) + 3 /\ After(s, i) + 1 \in Len(s) + 1 .. Len(s) + 3
          BY <1>1, <4>1
        <5> QED
          BY <5>1, TokenStartFacts
      <4>2. CASE After(s, i) <= Len(s)
        <5>1. After(s, i) \in 1 .. Len(s) /\ s[After(s, i)] \in Blanks
          <6>1. After(s, i) \in 1 .. Len(s)
            BY <1>1, <2>1, <4>2
          <6>2. LexemeAt(s, i).last < Len(s)
            BY <1>1, <2>1, <3>1, <3>2, <4>2
          <6>3. s[After(s, i)] = "\n"
            BY <3>1, <3>2, <6>2
          <6> QED
            BY <6>1, <6>3 DEF Blanks
        <5>2. ~StopsAt(s, After(s, i)) /\ Jump(s, After(s, i)) = After(s, i) + 1
          BY <5>1 DEF StopsAt, Jump
        <5> QED
          BY <5>1, <5>2, TokenStartFacts
      <4> QED
        BY <1>1, <2>1, <4>1, <4>2
    <3> QED
      BY <2>1, <2>2, <3>3, <3>4, FindsNext
  <2>5. CASE At(s, i, <<"/", "*">>)
    <3>1. s[i] = "/" /\ After(s, i) = LexemeAt(s, i).last + 1
      BY <2>5, BlockLexeme DEF After, Blanks
    <3>2. /\ AfterComment(s, i) \in i + 1 .. Len(s) + 3
          /\ IF CommentEnds(s, i) = {} THEN AfterComment(s, i) = Len(s) + 3
             ELSE AfterComment(s, i) = LexemeAt(s, i).last + 1
      BY <2>5, <2>8, AfterCommentFacts
    <3>3. ~StopsAt(s, i) /\ Jump(s, i) = AfterComment(s, i)
      BY <2>1, <3>1, <3>2 DEF StopsAt, Jump, Blanks
    <3>4. CASE CommentEnds(s, i) = {}
      <4>1. Kind(s, i) = "broken" /\ LexemeAt(s, i).last = Len(s)
        BY <2>5, <3>4, BlockLexeme
      <4>2. After(s, i) = Len(s) + 1
        BY <3>1, <4>1
      <4>3. Places(s)[i] = {i}
        BY <4>2, PlacesFacts
      <4>4. TokenStart(s)[i] = Len(s) + 1
        <5>1. Len(s) + 3 \in Len(s) + 1 .. Len(s) + 3
          BY <1>1
        <5> QED
          BY <2>2, <3>2, <3>3, <3>4, <5>1, TokenStartFacts
      <4> QED
        BY <4>1, <4>3, <4>4 DEF FindsFirst
    <3>5. CASE CommentEnds(s, i) # {}
      <4>1. Kind(s, i) = "comment"
        BY <2>5, <3>5, BlockLexeme
      <4>2. Passed(s, i)
        BY <3>1, <4>1 DEF Passed
      <4> QED
        BY <2>1, <2>2, <3>1, <3>2, <3>3, <3>5, <4>2, FindsNext
    <3> QED
      BY <3>4, <3>5
  <2>6. CASE /\ s[i] \notin Blanks \cup {"("}
             /\ ~At(s, i, <<"-", "-">>) /\ ~At(s, i, <<"/", "*">>)
    <3>1. StopsAt(s, i)
      BY <2>6, AfterCommentFacts DEF StopsAt
    <3>2. Kind(s, i) # "comment" \/ s[i] = "#!"
      <4>1. CASE s[i] \in Words
        BY <4>1, WordLexeme
      <4>2. CASE s[i] \in Openers
        BY <4>2, QuoteLexeme
      <4>3. CASE s[i] \notin Words \cup Openers
        BY <2>6, <4>3, SignLexeme DEF LineComment
      <4> QED
        BY <4>1, <4>2, <4>3
    <3>3. Places(s)[i] \subseteq i .. Len(s) /\ i \in Places(s)[i]
      BY PlacesRange
    <3>4. \A k \in Places(s)[i] : ~(k < i)
      BY <2>1, <3>3
    <3>5. ~Passed(s, i)
      BY <2>6, <3>2 DEF Passed
    <3> QED
      BY <2>2, <3>1, <3>3, <3>4, <3>5 DEF FindsFirst
  <2> QED
    BY <2>3, <2>4, <2>5, <2>6
<1>3. \A i \in 1 .. Len(s) : i \in Q
  <2> HIDE DEF Q
  <2> QED
    BY <1>1, <1>2, DownFrom
<1> QED
  BY <1>3

\* The first word of the reference, in the places of its text.
LEMMA FirstWordFacts ==
  ASSUME NEW s \in Seq(Symbols), NEW t \in Places(s)[1], ~Passed(s, t), s[t] # "#!",
         \A k \in Places(s)[1] : k < t => Passed(s, k), Len(s) # 0
  PROVE  t \in 1 .. Len(s) /\ FirstWord(s) = Lexeme(s, t)
<1> DEFINE words == {i \in Tokens(s) : s[i] # "("}
<1>1. 1 \in 1 .. Len(s) /\ Places(s)[1] \subseteq 1 .. Len(s)
  <2>1. 1 \in 1 .. Len(s)
    BY Len(s) \in Nat
  <2> QED
    BY <2>1, PlacesRange
<1>2. words \subseteq {k \in Places(s)[1] : ~Passed(s, k)} /\ t \in words
  BY DEF Tokens, Starts, Passed
<1>3. words # {} /\ words \in SUBSET Nat /\ t \in words
  BY <1>1, <1>2
<1>4. Min(words) \in words /\ Min(words) <= t
  <2> HIDE DEF words
  <2> QED
    BY <1>3, MinFacts
<1>5. ~(Min(words) < t)
  BY <1>2, <1>4
<1>6. Min(words) \in Nat /\ t \in Nat
  BY <1>1, <1>3, <1>4
<1>7. Min(words) = t
  BY <1>4, <1>5, <1>6
<1> QED
  BY <1>1, <1>3, <1>7 DEF FirstWord

\* The first token: from its start to whitespace, a parenthesis or the end.
LEMMA KeywordFacts ==
  ASSUME NEW s \in Seq(Symbols), NEW t \in 1 .. Len(s), TokenStart(s)[1] = t,
         s[t] \notin Blanks \cup {"("}
  PROVE  \E e \in t .. Len(s) :
           /\ leadingKeyword(s) = SubSeq(s, t, e)
           /\ e < Len(s) => s[e + 1] \in Blanks \cup {"("}
<1> DEFINE ends == {j \in t .. Len(s) : s[j] \in Blanks \cup {"("}}
           e    == FirstOf(s, ends)
<1>1. t \in Nat /\ Len(s) \in Nat /\ ends \in SUBSET (1 .. Len(s))
  OBVIOUS
<1>2. leadingKeyword(s) = SubSeq(s, t, e - 1)
  BY DEF leadingKeyword
<1>3. /\ e \in 1 .. Len(s) + 1
      /\ e <= Len(s) => e \in ends
  <2> HIDE DEF ends
  <2> QED
    BY <1>1, FirstOfFacts
<1> HIDE DEF e
<1>4. e > t
  BY <1>1, <1>3
<1>5. e - 1 \in t .. Len(s) /\ (e - 1) + 1 = e
  BY <1>1, <1>3, <1>4
<1>6. e - 1 < Len(s) => s[e] \in Blanks \cup {"("}
  BY <1>1, <1>3
<1> QED
  BY <1>2, <1>5, <1>6

\* A piece of a text.
LEMMA PieceFacts ==
  ASSUME NEW s \in Seq(Symbols), NEW a \in 1 .. Len(s), NEW b \in a .. Len(s)
  PROVE  /\ SubSeq(s, a, b) \in Seq(Symbols) /\ Len(SubSeq(s, a, b)) = b - a + 1
         /\ SubSeq(s, a, b) # <<>>
         /\ \A k \in 1 .. b - a + 1 : SubSeq(s, a, b)[k] = s[a + k - 1]
<1>1. a \in Int /\ b \in Int /\ a <= b /\ \A k \in a .. b : s[k] \in Symbols
  OBVIOUS
<1>2. /\ SubSeq(s, a, b) \in Seq(Symbols) /\ Len(SubSeq(s, a, b)) = b - a + 1
      /\ \A k \in 1 .. b - a + 1 : SubSeq(s, a, b)[k] = s[a + k - 1]
  BY <1>1, SubSeqProperties
<1>3. SubSeq(s, a, b) # <<>>
  <2>1. Len(<<>>) = 0 /\ b - a + 1 # 0
    BY <1>1
  <2> QED
    BY <1>2, <2>1
<1> QED
  BY <1>2, <1>3

\* Nothing is found in a text without a word.
LEMMA NothingFound ==
  ASSUME NEW s \in Seq(Symbols), TokenStart(s)[1] = Len(s) + 1
  PROVE  leadingKeyword(s) = <<>>
<1>1. Len(s) \in Nat
  OBVIOUS
<1>2. {j \in Len(s) + 1 .. Len(s) : s[j] \in Blanks \cup {"("}} = {}
  BY <1>1
<1>3. leadingKeyword(s) = SubSeq(s, Len(s) + 1, Len(s) + 1 - 1)
  <2>1. FirstOf(s, {}) = Len(s) + 1
    BY DEF FirstOf
  <2> DEFINE start == TokenStart(s)[1]
             ends  == {j \in start .. Len(s) : s[j] \in Blanks \cup {"("}}
  <2>2. leadingKeyword(s) = SubSeq(s, start, FirstOf(s, ends) - 1)
    BY DEF leadingKeyword
  <2>3. ends = {}
    BY <1>2
  <2> HIDE DEF ends
  <2>4. FirstOf(s, ends) = Len(s) + 1
    BY <2>1, <2>3
  <2> QED
    BY <2>2, <2>4
<1>4. Len(s) + 1 - 1 < Len(s) + 1 /\ Len(s) + 1 - 1 \in Int /\ Len(s) + 1 \in Int
  BY <1>1
<1> QED
  BY <1>3, <1>4, SubSeqEmpty

\* The search from the start on misplaces no end of a text that is not misread.
LEMMA ReadFromTheStart ==
  ASSUME NEW s \in Seq(Symbols), ~Misread(s), Len(s) # 0
  PROVE  FindsFirst(s, 1)
<1>1. 1 \in 1 .. Len(s)
  BY Len(s) \in Nat
<1>2. ASSUME NEW k \in Places(s)[1], At(s, k, <<"/", "*", "/">>),
             \A j \in Places(s)[1] : j < k => Passed(s, j)
      PROVE  FALSE
  <2>1. k \in 1 .. Len(s)
    BY <1>1, PlacesRange
  <2>2. s[k] = "/"
    <3>1. /\ k + 3 - 1 = k + 2 /\ k + 2 \in k .. Len(s) /\ k + 2 - k + 1 = 3
          /\ 1 \in 1 .. 3 /\ k + 1 - 1 = k
      BY <1>2, <2>1 DEF At
    <3>2. SubSeq(s, k, k + 2) = <<"/", "*", "/">>
      BY <1>2, <3>1 DEF At
    <3>3. \A m \in 1 .. 3 : SubSeq(s, k, k + 2)[m] = s[k + m - 1]
      BY <2>1, <3>1, PieceFacts
    <3>4. SubSeq(s, k, k + 2)[1] = s[k]
      BY <3>1, <3>3
    <3>5. <<"/", "*", "/">>[1] = "/"
      OBVIOUS
    <3> QED
      BY <3>2, <3>4, <3>5
  <2>3. k \in Starts(s)
    BY <2>2 DEF Starts, Blanks
  <2>4. \A j \in Starts(s) : j < k => Kind(s, j) = "comment" \/ s[j] = "("
    BY <1>2 DEF Starts, Passed
  <2> QED
    BY <1>2, <2>3, <2>4 DEF Misread
<1>3. ~MisreadFrom(s, 1)
  BY <1>2 DEF MisreadFrom
<1> QED
  BY <1>1, <1>3, TokenStartIsFirst

\* A row-returning text starts with a row-returning word.
LEMMA SelectComesFirst ==
  ASSUME NEW s \in Seq(Symbols), leadingKeyword(s) = <<"SELECT">>, ~Misread(s)
  PROVE  FirstWord(s) = <<"SELECT">>
<1> DEFINE t == TokenStart(s)[1]
<1>1. t # Len(s) + 1
  <2>1. <<"SELECT">> # <<>>
    OBVIOUS
  <2> QED
    BY <2>1, NothingFound
<1>2. Len(s) # 0
  <2>1. Len(s) = 0 => 1 \in Len(s) + 1 .. Len(s) + 3
    OBVIOUS
  <2> QED
    BY <1>1, <2>1, TokenStartFacts
<1>3. 1 \in 1 .. Len(s)
  BY <1>2, Len(s) \in Nat
<1>4. /\ t \in Places(s)[1] /\ ~Passed(s, t)
      /\ \A k \in Places(s)[1] : k < t => Passed(s, k)
  BY <1>1, <1>2, ReadFromTheStart DEF FindsFirst
<1>5. t \in 1 .. Len(s)
  <2> HIDE DEF t
  <2> QED
    BY <1>3, <1>4, PlacesRange
<1> HIDE DEF t
<1>6. PICK e \in t .. Len(s) : /\ leadingKeyword(s) = SubSeq(s, t, e)
                               /\ e < Len(s) => s[e + 1] \in Blanks \cup {"("}
  BY <1>4, <1>5, KeywordFacts DEF t, Passed
<1>7. Len(SubSeq(s, t, e)) = e - t + 1 /\ SubSeq(s, t, e)[1] = s[t]
  <2>1. /\ Len(SubSeq(s, t, e)) = e - t + 1
        /\ \A k \in 1 .. e - t + 1 : SubSeq(s, t, e)[k] = s[t + k - 1]
    BY <1>5, <1>6, PieceFacts
  <2>2. 1 \in 1 .. e - t + 1 /\ t + 1 - 1 = t
    BY <1>5, <1>6
  <2>3. SubSeq(s, t, e)[1] = s[t + 1 - 1]
    BY <2>1, <2>2
  <2> QED
    BY <2>1, <2>2, <2>3
<1>8. e = t /\ s[t] = "SELECT"
  <2>1. Len(<<"SELECT">>) = 1 /\ <<"SELECT">>[1] = "SELECT"
    OBVIOUS
  <2>2. e - t + 1 = 1 /\ s[t] = "SELECT"
    BY <1>6, <1>7, <2>1
  <2> QED
    BY <1>5, <1>6, <2>2
<1>9. LexemeAt(s, t).last = t
  <2>1. /\ LexemeAt(s, t).last \in t .. Len(s)
        /\ \A k \in t .. LexemeAt(s, t).last : s[k] \in Words
    BY <1>5, <1>8, WordLexeme DEF Words
  <2> SUFFICES ASSUME LexemeAt(s, t).last # t PROVE FALSE
    OBVIOUS
  <2>2. t + 1 \in t .. LexemeAt(s, t).last /\ t < Len(s)
    BY <1>5, <2>1
  <2>3. s[t + 1] \in Words
    BY <2>1, <2>2
  <2>4. s[t + 1] \in Blanks \cup {"("}
    BY <1>6, <1>8, <2>2
  <2> QED
    BY <2>3, <2>4 DEF Words, Blanks
<1>10. FirstWord(s) = Lexeme(s, t)
  BY <1>2, <1>4, <1>8, FirstWordFacts
<1> QED
  BY <1>5, <1>6, <1>8, <1>9, <1>10 DEF Lexeme

\* A text is blank exactly when it has no word.
LEMMA BlankHasNoWord ==
  ASSUME NEW s \in Seq(Symbols), ~Misread(s), Complete(s), KnownLexemes(s)
  PROVE  IsBlank(s) <=> FirstWord(s) = <<>>
<1> DEFINE t == TokenStart(s)[1]
<1>1. CASE Len(s) = 0
  <2>1. 1 \in Len(s) + 1 .. Len(s) + 3
    BY <1>1
  <2>2. IsBlank(s)
    BY <2>1, TokenStartFacts, NothingFound DEF IsBlank
  <2>3. Places(s)[1] = {}
    <3>1. Len(s) + 1 = 1
      BY <1>1
    <3> QED
      BY <3>1, PlacesFacts
  <2>4. {i \in Tokens(s) : s[i] # "("} = {}
    BY <2>3 DEF Tokens, Starts
  <2> QED
    BY <2>2, <2>4 DEF FirstWord
<1>2. CASE Len(s) # 0
  <2>1. \A k \in Places(s)[1] : s[k] # "#!"
    BY DEF KnownLexemes, Foreign, Starts, Blanks
  <2>2. FindsFirst(s, 1)
    BY <1>2, ReadFromTheStart
  <2>3. CASE t = Len(s) + 1 /\ \A k \in Places(s)[1] : Passed(s, k) \/ Kind(s, k) = "broken"
    <3>1. IsBlank(s)
      BY <2>3, NothingFound DEF IsBlank
    <3>2. {i \in Tokens(s) : s[i] # "("} = {}
      BY <2>3 DEF Tokens, Starts, Passed, Complete
    <3> QED
      BY <3>1, <3>2 DEF FirstWord
  <2>4. CASE /\ t \in Places(s)[1] /\ ~Passed(s, t)
             /\ \A k \in Places(s)[1] : k < t => Passed(s, k)
    <3>1. t \in 1 .. Len(s) /\ FirstWord(s) = Lexeme(s, t)
      <4> HIDE DEF t
      <4> QED
        BY <1>2, <2>1, <2>4, FirstWordFacts
    <3>2. \E e \in t .. Len(s) : leadingKeyword(s) = SubSeq(s, t, e)
      <4>1. s[t] \notin Blanks \cup {"("}
        BY <2>4 DEF Passed
      <4>2. TokenStart(s)[1] = t
        OBVIOUS
      <4> HIDE DEF t
      <4> QED
        BY <3>1, <4>1, <4>2, KeywordFacts
    <3>3. leadingKeyword(s) # <<>>
      <4> HIDE DEF t
      <4> QED
        BY <3>1, <3>2, PieceFacts
    <3>4. Lexeme(s, t) # <<>>
      <4> HIDE DEF t
      <4> QED
        BY <3>1, LexemeLast, PieceFacts DEF Lexeme
    <3> QED
      BY <3>1, <3>3, <3>4 DEF IsBlank
  <2> QED
    BY <2>2, <2>3, <2>4 DEF FindsFirst
<1> QED
  BY <1>1, <1>2

\* What is routed to run_query starts with a row-returning word, comments and parentheses
\* passed over, but behind a comment whose end is misread (IsRowReturning in
\* internal/query/result.go).
THEOREM QueriesStartWithSelect == Spec => []RoutedByTheFirstWord
<1>1. TypeOK => RoutedByTheFirstWord
  BY SelectComesFirst DEF TypeOK, RoutedByTheFirstWord, IsRowReturning
<1> QED
  BY <1>1, TypeCorrect, PTL

\* Of the texts of known lexemes that are not misread, those refused as blank are exactly
\* those without a word (IsBlank in internal/query/result.go).
THEOREM BlankTextsAreRefused == Spec => []BlankMeansNothingToRun
<1>1. TypeOK => BlankMeansNothingToRun
  BY BlankHasNoWord DEF TypeOK, BlankMeansNothingToRun
<1> QED
  BY <1>1, TypeCorrect, PTL

(***************************************************************************)
(* What the server reads, place by place.                                  *)
(***************************************************************************)

\* What is read from a place on.
LEMMA TextsFacts ==
  ASSUME NEW s \in Seq(Symbols)
  PROVE  /\ TextsFrom(s)[Len(s) + 1] = <<>>
         /\ \A i \in 1 .. Len(s) :
              TextsFrom(s)[i] =
                IF s[i] \in Blanks \/ Kind(s, i) = "comment" THEN TextsFrom(s)[After(s, i)]
                ELSE <<Lexeme(s, i)>> \o TextsFrom(s)[After(s, i)]
         /\ \A i \in 1 .. Len(s) + 1 : TextsFrom(s)[i] \in Seq(Seq(Symbols))
         /\ \A i \in 1 .. Len(s) : Lexeme(s, i) \in Seq(Symbols)
<1> DEFINE D == 1 .. (Len(s) + 1)
           V == Seq(Seq(Symbols))
           Silent(i) == s[i] \in Blanks \/ Kind(s, i) = "comment"
           Value(f, i) == IF i > Len(s) THEN <<>>
                          ELSE IF Silent(i) THEN f[After(s, i)]
                          ELSE <<Lexeme(s, i)>> \o f[After(s, i)]
           Body(f) == [i \in D |-> Value(f, i)]
<1>1. Len(s) \in Nat /\ \A i \in 1 .. Len(s) : After(s, i) \in i + 1 .. Len(s) + 1
  BY LexemeLast
<1>2. \A i \in D : i > Len(s) \/ (i \in 1 .. Len(s) /\ After(s, i) \in D)
  BY <1>1
<1>3. \A i \in 1 .. Len(s) : Lexeme(s, i) \in Seq(Symbols)
  BY LexemeLast, PieceFacts DEF Lexeme
<1>4. \A i \in 1 .. Len(s), x \in V : (IF Silent(i) THEN x ELSE <<Lexeme(s, i)>> \o x) \in V
  <2>1. \A i \in 1 .. Len(s) : <<Lexeme(s, i)>> \in V
    BY <1>3
  <2> HIDE DEF V
  <2>2. \A i \in 1 .. Len(s), x \in V : <<Lexeme(s, i)>> \o x \in V
    BY <2>1, ConcatProperties DEF V
  <2> QED
    BY <2>2
<1>5. \E f : f \in [D -> V] /\ f = Body(f)
  <2> DEFINE rank == [i \in D |-> Len(s) + 1 - i]
             prev == [i \in D |-> IF i > Len(s) THEN i ELSE After(s, i)]
             base == [i \in D |-> <<>>]
             step == [i \in D |-> [x \in V |->
                        IF i > Len(s) THEN <<>>
                        ELSE IF Silent(i) THEN x ELSE <<Lexeme(s, i)>> \o x]]
  <2>1. <<>> \in V
    OBVIOUS
  <2> HIDE DEF V, Silent
  <2>2. Ranked(D, V, Len(s), rank, prev, base, step)
    <3>1. rank \in [D -> 0 .. Len(s)] /\ prev \in [D -> D] /\ base \in [D -> V]
      BY <1>1, <1>2, <2>1
    <3>2. \A i \in D : rank[i] # 0 => rank[prev[i]] < rank[i]
      <4> TAKE i \in D
      <4> SUFFICES ASSUME rank[i] # 0 PROVE rank[prev[i]] < rank[i]
        OBVIOUS
      <4>1. i \in 1 .. Len(s)
        BY <1>1, <1>2
      <4>2. /\ prev[i] = After(s, i) /\ After(s, i) \in D /\ After(s, i) > i
            /\ rank[After(s, i)] = Len(s) + 1 - After(s, i)
        BY <1>1, <1>2, <4>1
      <4> QED
        BY <1>1, <4>1, <4>2
    <3>3. step \in [D -> [V -> V]]
      <4>1. \A i \in D, x \in V :
              (IF i > Len(s) THEN <<>> ELSE IF Silent(i) THEN x ELSE <<Lexeme(s, i)>> \o x) \in V
        BY <1>2, <1>4, <2>1
      <4> QED
        BY <4>1
    <3> QED
      BY <1>1, <3>1, <3>2, <3>3 DEF Ranked
  <2>3. PICK f : Recursive(f, D, V, rank, prev, base, step)
    <3> HIDE DEF rank, prev, base, step, D
    <3> QED
      BY <2>2, Recursion
  <2>4. /\ f \in [D -> V]
        /\ \A i \in D : f[i] = IF rank[i] = 0 THEN base[i] ELSE step[i][f[prev[i]]]
    BY <2>3 DEF Recursive
  <2>5. \A i \in D : f[i] = Value(f, i)
    <3> TAKE i \in D
    <3>1. CASE i > Len(s)
      <4>1. rank[i] = 0
        BY <1>1, <3>1
      <4> QED
        BY <2>4, <3>1, <4>1
    <3>2. CASE ~(i > Len(s))
      <4>1. rank[i] # 0 /\ prev[i] = After(s, i) /\ After(s, i) \in D
        BY <1>1, <1>2, <3>2
      <4>2. f[After(s, i)] \in V
        BY <2>4, <4>1
      <4>3. step[i][f[After(s, i)]] = Value(f, i)
        BY <3>2, <4>2
      <4> QED
        BY <2>4, <4>1, <4>3
    <3> QED
      BY <3>1, <3>2
  <2>6. f = [i \in D |-> Value(f, i)]
    <3> HIDE DEF Value, D
    <3> QED
      BY <2>4, <2>5
  <2> QED
    BY <2>4, <2>6, Zenon
<1>6. TextsFrom(s) = CHOOSE f : f = Body(f)
  BY Zenon DEF TextsFrom
<1>7. TextsFrom(s) = Body(TextsFrom(s))
  BY <1>5, <1>6, Zenon
<1>8. \A i \in D : TextsFrom(s)[i] = Value(TextsFrom(s), i)
  <2> HIDE DEF Value
  <2> QED
    BY <1>7
<1>9. Len(s) + 1 \in D /\ Len(s) + 1 > Len(s) /\ \A i \in 1 .. Len(s) : i \in D /\ ~(i > Len(s))
  BY <1>1
<1>10. /\ TextsFrom(s)[Len(s) + 1] = <<>>
       /\ \A i \in 1 .. Len(s) :
            TextsFrom(s)[i] = IF Silent(i) THEN TextsFrom(s)[After(s, i)]
                              ELSE <<Lexeme(s, i)>> \o TextsFrom(s)[After(s, i)]
  <2> HIDE DEF D, Silent
  <2> QED
    BY <1>8, <1>9
<1> DEFINE P == {i \in D : TextsFrom(s)[i] \in V}
<1>11. \A i \in D : i \in P
  <2>1. Len(s) + 1 \in P
    <3>1. <<>> \in V
      OBVIOUS
    <3> HIDE DEF V, D
    <3> QED
      BY <1>9, <1>10, <3>1
  <2>2. \A i \in 1 .. Len(s) : (\A j \in 1 .. Len(s) : j > i => j \in P) => i \in P
    <3> TAKE i \in 1 .. Len(s)
    <3> SUFFICES ASSUME \A j \in 1 .. Len(s) : j > i => j \in P PROVE i \in P
      OBVIOUS
    <3>1. After(s, i) = Len(s) + 1 \/ (After(s, i) \in 1 .. Len(s) /\ After(s, i) > i)
      <4>1. After(s, i) \in i + 1 .. Len(s) + 1 /\ i \in 1 .. Len(s) /\ Len(s) \in Nat
        BY <1>1
      <4> HIDE DEF P
      <4> QED
        BY <4>1
    <3>2. TextsFrom(s)[After(s, i)] \in V
      <4> HIDE DEF V, Silent
      <4> QED
        BY <2>1, <3>1
    <3>3. i \in D
      BY <1>9
    <3> HIDE DEF V, Silent, D
    <3> QED
      BY <1>4, <1>10, <3>2, <3>3
  <2>3. \A i \in 1 .. Len(s) : i \in P
    <3> HIDE DEF P
    <3> QED
      BY <1>1, <2>2, DownFrom
  <2>4. \A i \in D : i = Len(s) + 1 \/ i \in 1 .. Len(s)
    BY <1>1
  <2> HIDE DEF P, D
  <2> QED
    BY <2>1, <2>3, <2>4
<1> QED
  BY <1>3, <1>10, <1>11

(***************************************************************************)
(* A stretch that two texts share.                                         *)
(***************************************************************************)

\* The n symbols of s after place p are those of w after place q; nothing but
\* separators and blanks stands after them in s, and a line break in w.
Shared(s, p, w, q, n) ==
  /\ s \in Seq(Symbols) /\ w \in Seq(Symbols)
  /\ p \in Nat /\ q \in Nat /\ n \in Nat
  /\ p + n <= Len(s) /\ q + n + 1 <= Len(w)
  /\ \A j \in 1 .. n : s[p + j] = w[q + j]
  /\ w[q + n + 1] = "\n"
  /\ \A k \in p + n + 1 .. Len(s) : s[k] \in Blanks \cup {Separator}

LEMMA SharedPlaces ==
  ASSUME NEW s, NEW p, NEW w, NEW q, NEW n, Shared(s, p, w, q, n), NEW j \in 1 .. n
  PROVE  /\ p + j \in 1 .. Len(s) /\ q + j \in 1 .. Len(w) /\ q + j + 1 \in 1 .. Len(w)
         /\ s[p + j] = w[q + j] /\ j \in Nat
         /\ Len(s) \in Nat /\ Len(w) \in Nat /\ n \in Nat /\ p \in Nat /\ q \in Nat
         /\ s \in Seq(Symbols) /\ w \in Seq(Symbols)
  BY DEF Shared

LEMMA SharedSymbol ==
  ASSUME NEW s, NEW p, NEW w, NEW q, NEW n, Shared(s, p, w, q, n), NEW j \in 1 .. n
  PROVE  s[p + j] = w[q + j]
  BY DEF Shared

\* A symbol of s that is neither a blank nor a separator stands in the stretch or before.
LEMMA SharedInside ==
  ASSUME NEW s, NEW p, NEW w, NEW q, NEW n, Shared(s, p, w, q, n),
         NEW k \in 1 .. Len(s), s[k] \notin Blanks \cup {Separator}
  PROVE  k <= p + n
  BY DEF Shared

\* Marks stand in both or in neither.
LEMMA AtShared ==
  ASSUME NEW s, NEW p, NEW w, NEW q, NEW n, Shared(s, p, w, q, n), NEW j \in 1 .. n,
         NEW a, NEW b, b \notin Blanks \cup {Separator}
  PROVE  /\ At(s, p + j, <<a, b>>) <=> At(w, q + j, <<a, b>>)
         /\ At(s, p + j, <<a, b>>) => j + 1 \in 1 .. n
<1>1. /\ p + j \in Nat \ {0} /\ q + j \in Nat \ {0} /\ j \in Nat /\ n \in Nat
      /\ s \in Seq(Symbols) /\ w \in Seq(Symbols)
      /\ Len(s) \in Nat /\ p \in Nat /\ q \in Nat /\ Len(w) \in Nat
      /\ p + j <= Len(s) /\ q + j + 1 <= Len(w) /\ s[p + j] = w[q + j]
  <2>1. /\ p + j \in 1 .. Len(s) /\ q + j \in 1 .. Len(w) /\ q + j + 1 \in 1 .. Len(w)
        /\ s[p + j] = w[q + j] /\ j \in Nat
        /\ Len(s) \in Nat /\ Len(w) \in Nat /\ n \in Nat /\ p \in Nat /\ q \in Nat
        /\ s \in Seq(Symbols) /\ w \in Seq(Symbols)
    BY SharedPlaces
  <2> QED
    BY ONLY <2>1
<1>2. /\ At(s, p + j, <<a, b>>) <=> p + j + 1 <= Len(s) /\ s[p + j] = a /\ s[p + j + 1] = b
      /\ At(w, q + j, <<a, b>>) <=> q + j + 1 <= Len(w) /\ w[q + j] = a /\ w[q + j + 1] = b
  BY ONLY <1>1, AtTwo
<1>3. CASE j = n
  <2>1. w[q + j + 1] # b
    BY <1>3 DEF Shared, Blanks
  <2>2. ~(p + j + 1 <= Len(s) /\ s[p + j + 1] = b)
    <3> SUFFICES ASSUME p + j + 1 <= Len(s), s[p + j + 1] = b PROVE FALSE
      OBVIOUS
    <3>1. p + j + 1 \in 1 .. Len(s)
      BY <1>1
    <3>2. p + j + 1 <= p + n
      BY <3>1, SharedInside
    <3> QED
      BY <1>1, <1>3, <3>2
  <2> QED
    BY <1>2, <2>1, <2>2
<1>4. CASE j # n
  <2>1. j + 1 \in 1 .. n
    BY <1>1, <1>4
  <2>2. s[p + (j + 1)] = w[q + (j + 1)] /\ p + (j + 1) \in 1 .. Len(s)
    BY <2>1, SharedPlaces
  <2>3. p + (j + 1) = p + j + 1 /\ q + (j + 1) = q + j + 1
    BY <1>1
  <2>4. s[p + j + 1] = w[q + j + 1] /\ p + j + 1 <= Len(s)
    BY <2>2, <2>3
  <2> QED
    BY <1>1, <1>2, <2>1, <2>4
<1> QED
  BY <1>3, <1>4

\* What is escaped in one is escaped in the other.
LEMMA EscapedShared ==
  ASSUME NEW s, NEW p, NEW w, NEW q, NEW n, Shared(s, p, w, q, n),
         NEW j \in 1 .. n, NEW k \in 1 .. n, j < k
  PROVE  Escaped(s, p + j, p + k) <=> Escaped(w, q + j, q + k)
<1>1. /\ p \in Nat /\ q \in Nat /\ n \in Nat /\ j \in Nat /\ k \in Nat
      /\ s \in Seq(Symbols) /\ w \in Seq(Symbols) /\ s[p + j] = w[q + j]
  BY SharedPlaces
<1>2. (p + k) - (p + j) - 1 = k - j - 1 /\ (q + k) - (q + j) - 1 = k - j - 1
  BY <1>1
<1>3. \A r \in 0 .. (k - j - 1), h \in Nat : h \in 1 .. r => s[p + k - h] = w[q + k - h]
  <2> TAKE r \in 0 .. (k - j - 1), h \in Nat
  <2> SUFFICES ASSUME h \in 1 .. r PROVE s[p + k - h] = w[q + k - h]
    OBVIOUS
  <2>1. k - h \in 1 .. n /\ p + (k - h) = p + k - h /\ q + (k - h) = q + k - h
    BY <1>1
  <2>2. s[p + (k - h)] = w[q + (k - h)]
    BY <2>1, SharedPlaces
  <2> QED
    BY <2>1, <2>2
<1>4. Runs(s, p + j, p + k) = Runs(w, q + j, q + k)
  <2>1. \A r \in 0 .. (k - j - 1) :
          (\A h \in 1 .. r : s[p + k - h] = "\\") <=> (\A h \in 1 .. r : w[q + k - h] = "\\")
    BY <1>3
  <2>2. \A r : r \in Runs(s, p + j, p + k)
                 <=> r \in 0 .. (k - j - 1) /\ \A h \in 1 .. r : s[p + k - h] = "\\"
    BY <1>1, <1>2 DEF Runs
  <2>3. \A r : r \in Runs(w, q + j, q + k)
                 <=> r \in 0 .. (k - j - 1) /\ \A h \in 1 .. r : w[q + k - h] = "\\"
    BY <1>1, <1>2 DEF Runs
  <2>4. \A r : r \in Runs(s, p + j, p + k) <=> r \in Runs(w, q + j, q + k)
    BY <2>1, <2>2, <2>3
  <2> QED
    BY <2>4 DEF Runs
<1>5. p + j \in Nat /\ p + k \in Nat /\ q + j \in Nat /\ q + k \in Nat
      /\ p + j < p + k /\ q + j < q + k
  <2>1. j \in Nat /\ k \in Nat /\ p \in Nat /\ q \in Nat /\ j < k
    BY <1>1
  <2> QED
    BY ONLY <2>1
<1>6. /\ Escaped(s, p + j, p + k) <=> s[p + j] # Heredoc /\ Max(Runs(s, p + j, p + k)) % 2 = 1
      /\ Escaped(w, q + j, q + k) <=> w[q + j] # Heredoc /\ Max(Runs(w, q + j, q + k)) % 2 = 1
  <2> HIDE DEF Runs
  <2>1. s \in Seq(Symbols) /\ w \in Seq(Symbols)
    BY <1>1
  <2> QED
    BY ONLY <1>5, <2>1, RunsFacts
<1> QED
  BY <1>1, <1>4, <1>6

\* The lexeme that starts at a place of the stretch is the same in both, and ends in it;
\* only a line comment may run on in s, over separators and blanks.
SameLexeme(s, p, w, q, n, j) ==
  \E l \in j .. n :
    /\ LexemeAt(w, q + j).last = q + l /\ Kind(w, q + j) = Kind(s, p + j)
    /\ \/ LexemeAt(s, p + j).last = p + l
       \/ l = n /\ Kind(s, p + j) = "comment" /\ LexemeAt(s, p + j).last > p + n

LEMMA WordShared ==
  ASSUME NEW s, NEW p, NEW w, NEW q, NEW n, Shared(s, p, w, q, n), NEW j \in 1 .. n,
         s[p + j] \in Words
  PROVE  SameLexeme(s, p, w, q, n, j)
<1> DEFINE ls == LexemeAt(s, p + j).last
           lw == LexemeAt(w, q + j).last
<1>1. /\ p + j \in 1 .. Len(s) /\ q + j \in 1 .. Len(w) /\ w[q + j] \in Words
      /\ s \in Seq(Symbols) /\ w \in Seq(Symbols) /\ Len(s) \in Nat /\ Len(w) \in Nat
      /\ n \in Nat /\ p \in Nat /\ q \in Nat /\ j \in Nat
      /\ p + n <= Len(s) /\ q + n + 1 <= Len(w)
  BY SharedPlaces DEF Shared
<1>2. /\ Kind(s, p + j) = "word" /\ ls \in p + j .. Len(s)
      /\ \A k \in p + j .. ls : s[k] \in Words
      /\ ls < Len(s) => s[ls + 1] \notin Words
  BY <1>1, WordLexeme
<1>3. /\ Kind(w, q + j) = "word" /\ lw \in q + j .. Len(w)
      /\ \A k \in q + j .. lw : w[k] \in Words
      /\ lw < Len(w) => w[lw + 1] \notin Words
  BY <1>1, WordLexeme
<1> HIDE DEF ls, lw
<1>4. ls <= p + n
  <2>1. ls \in 1 .. Len(s) /\ ls \in p + j .. ls
    BY <1>1, <1>2
  <2>2. s[ls] \notin Blanks \cup {Separator}
    <3>1. s[ls] \in Words /\ s[ls] \notin Blanks
      BY <1>1, <1>2, <2>1, OneKind
    <3> QED
      BY <3>1, SeparatorFacts
  <2> QED
    BY <2>1, <2>2, SharedInside
<1>5. PICK l \in j .. n : ls = p + l
  <2>1. ls - p \in j .. n /\ ls = p + (ls - p)
    <3>1. /\ ls \in p + j .. Len(s) /\ ls <= p + n
          /\ n \in Nat /\ p \in Nat /\ j \in Nat /\ Len(s) \in Nat
      BY <1>1, <1>2, <1>4
    <3> QED
      BY ONLY <3>1
  <2> QED
    BY <2>1
<1>6. ~(lw < q + l)
  <2> SUFFICES ASSUME lw < q + l PROVE FALSE
    OBVIOUS
  <2>1. lw - q + 1 \in 1 .. n /\ p + (lw - q + 1) \in p + j .. ls /\ q + (lw - q + 1) = lw + 1
        /\ lw < Len(w)
    BY <1>1, <1>3, <1>5
  <2>2. PICK m \in 1 .. n : p + m \in p + j .. ls /\ q + m = lw + 1
    BY <2>1
  <2>3. s[p + m] = w[q + m]
    BY SharedSymbol
  <2> QED
    BY <1>2, <1>3, <2>1, <2>2, <2>3
<1>7. ~(lw > q + l)
  <2> SUFFICES ASSUME lw > q + l PROVE FALSE
    OBVIOUS
  <2>1. q + l + 1 \in q + j .. lw
    BY <1>1, <1>3, <1>5
  <2>2. w[q + l + 1] \in Words
    BY <1>3, <2>1
  <2>3. CASE l = n
    BY <2>2, <2>3 DEF Shared, Words
  <2>4. CASE l # n
    <3>1. l + 1 \in 1 .. n /\ ls + 1 = p + (l + 1) /\ q + (l + 1) = q + l + 1 /\ ls < Len(s)
      <4>1. /\ l \in Int /\ j \in Int /\ n \in Int /\ p \in Int /\ q \in Int /\ Len(s) \in Int
            /\ j >= 1 /\ l >= j /\ l <= n /\ p + n <= Len(s) /\ ls = p + l
        BY <1>1, <1>5
      <4> QED
        BY ONLY <2>4, <4>1
    <3>2. PICK m \in 1 .. n : ls + 1 = p + m /\ q + m = q + l + 1
      BY <3>1
    <3>3. s[p + m] = w[q + m]
      BY SharedSymbol
    <3> QED
      BY <1>2, <2>2, <3>1, <3>2, <3>3
  <2> QED
    BY <2>3, <2>4
<1>8. lw = q + l
  <2>1. lw \in q + j .. Len(w) /\ q + j \in Int /\ Len(w) \in Int /\ q + l \in Int
    BY <1>1, <1>3, <1>5
  <2> QED
    BY <1>6, <1>7, <2>1
<1> QED
  BY <1>2, <1>3, <1>5, <1>8 DEF SameLexeme, ls, lw

LEMMA LiteralShared ==
  ASSUME NEW s, NEW p, NEW w, NEW q, NEW n, Shared(s, p, w, q, n), NEW j \in 1 .. n,
         s[p + j] \in Openers, Kind(s, p + j) # "broken"
  PROVE  SameLexeme(s, p, w, q, n, j)
<1> DEFINE ls == LexemeAt(s, p + j).last
           lw == LexemeAt(w, q + j).last
<1>1. /\ p + j \in 1 .. Len(s) /\ q + j \in 1 .. Len(w) /\ w[q + j] \in Openers
      /\ s \in Seq(Symbols) /\ w \in Seq(Symbols) /\ Len(s) \in Nat /\ Len(w) \in Nat
      /\ n \in Nat /\ p \in Nat /\ q \in Nat /\ j \in Nat
      /\ p + n <= Len(s) /\ q + n + 1 <= Len(w)
  BY SharedPlaces DEF Shared
<1>2. /\ Kind(s, p + j) = "literal" /\ ls \in LiteralEnds(s, p + j)
      /\ \A k \in LiteralEnds(s, p + j) : ls <= k
  BY <1>1, QuoteLexeme
<1>3. \/ LiteralEnds(w, q + j) = {}
      \/ /\ Kind(w, q + j) = "literal" /\ lw \in LiteralEnds(w, q + j)
         /\ \A k \in LiteralEnds(w, q + j) : lw <= k
  BY <1>1, QuoteLexeme
<1> HIDE DEF ls, lw
\* The ends of the literal in the stretch are the same.
<1>4. \A k \in 1 .. n : p + k \in LiteralEnds(s, p + j) <=> q + k \in LiteralEnds(w, q + j)
  <2> TAKE k \in 1 .. n
  <2>1. /\ p + k \in LiteralEnds(s, p + j)
             <=> p + k \in p + j + 1 .. Len(s) /\ s[p + k] = s[p + j] /\ ~Escaped(s, p + j, p + k)
        /\ q + k \in LiteralEnds(w, q + j)
             <=> q + k \in q + j + 1 .. Len(w) /\ w[q + k] = w[q + j] /\ ~Escaped(w, q + j, q + k)
    BY DEF LiteralEnds
  <2>2. /\ p + k \in p + j + 1 .. Len(s) <=> j < k
        /\ q + k \in q + j + 1 .. Len(w) <=> j < k
    BY <1>1
  <2>3. s[p + k] = w[q + k] /\ s[p + j] = w[q + j]
    BY SharedPlaces
  <2> QED
    BY <2>1, <2>2, <2>3, EscapedShared
<1>5. \A k \in LiteralEnds(s, p + j) : k \in p + j + 1 .. p + n
  <2> TAKE k \in LiteralEnds(s, p + j)
  <2>1. k \in p + j + 1 .. Len(s) /\ s[k] \in Openers
    BY <1>1 DEF LiteralEnds
  <2>2. s[k] \notin Blanks \cup {Separator} /\ k \in 1 .. Len(s)
    <3>1. k \in 1 .. Len(s)
      BY <1>1, <2>1
    <3> QED
      BY <1>1, <2>1, <3>1, OneKind, SeparatorFacts DEF Openers, Heredoc
  <2>3. k <= p + n
    BY <2>2, SharedInside
  <2>4. p + j + 1 \in Int /\ p + n \in Int /\ Len(s) \in Int
    BY <1>1
  <2> QED
    BY ONLY <2>1, <2>3, <2>4
<1>6. PICK l \in j .. n : ls = p + l
  <2>1. ls - p \in j .. n /\ ls = p + (ls - p)
    <3>1. ls \in p + j + 1 .. p + n
      BY <1>2, <1>5
    <3> QED
      BY ONLY <1>1, <3>1
  <2> QED
    BY <2>1
<1>7. l \in 1 .. n /\ q + l \in LiteralEnds(w, q + j)
  BY <1>1, <1>2, <1>4, <1>6
<1>8. lw <= q + l /\ lw \in LiteralEnds(w, q + j) /\ Kind(w, q + j) = "literal"
  BY <1>3, <1>7
<1>9. lw \in q + j + 1 .. q + l
  BY <1>1, <1>8 DEF LiteralEnds
<1>10. lw - q \in 1 .. n /\ q + (lw - q) = lw
  BY <1>1, <1>6, <1>9
<1>11. ls <= p + (lw - q)
  BY <1>2, <1>4, <1>8, <1>10
<1>12. lw = q + l
  BY <1>1, <1>6, <1>9, <1>11
<1> QED
  BY <1>2, <1>6, <1>8, <1>12 DEF SameLexeme, ls, lw

LEMMA LineShared ==
  ASSUME NEW s, NEW p, NEW w, NEW q, NEW n, Shared(s, p, w, q, n), NEW j \in 1 .. n,
         LineComment(s, p + j)
  PROVE  SameLexeme(s, p, w, q, n, j)
<1> DEFINE ls == LexemeAt(s, p + j).last
           lw == LexemeAt(w, q + j).last
<1>1. /\ p + j \in 1 .. Len(s) /\ q + j \in 1 .. Len(w)
      /\ s \in Seq(Symbols) /\ w \in Seq(Symbols) /\ Len(s) \in Nat /\ Len(w) \in Nat
      /\ n \in Nat /\ p \in Nat /\ q \in Nat /\ j \in Nat
      /\ p + n <= Len(s) /\ q + n + 1 <= Len(w) /\ w[q + n + 1] = "\n"
  BY SharedPlaces DEF Shared
<1>2. "-" \notin Blanks \cup {Separator}
  BY SeparatorFacts DEF Blanks
<1>3. LineComment(w, q + j)
  BY <1>2, AtShared, SharedPlaces DEF LineComment
<1>4. /\ Kind(s, p + j) = "comment" /\ ls \in p + j .. Len(s)
      /\ \A k \in p + j .. ls : s[k] # "\n"
      /\ ls < Len(s) => s[ls + 1] = "\n"
  BY <1>1, LineLexeme
<1>5. /\ Kind(w, q + j) = "comment" /\ lw \in q + j .. Len(w)
      /\ \A k \in q + j .. lw : w[k] # "\n"
      /\ lw < Len(w) => w[lw + 1] = "\n"
  BY <1>1, <1>3, LineLexeme
<1> HIDE DEF ls, lw
<1>6. lw < q + n + 1
  <2> SUFFICES ASSUME ~(lw < q + n + 1) PROVE FALSE
    OBVIOUS
  <2>1. q + n + 1 \in q + j .. lw
    BY <1>1, <1>5
  <2> QED
    BY <1>1, <1>5, <2>1
<1>7. PICK l \in j .. n : lw = q + l
  <2>1. lw - q \in j .. n /\ lw = q + (lw - q)
    BY <1>1, <1>5, <1>6
  <2> QED
    BY <2>1
\* It ends no earlier in s, for the line does not.
<1>8. ~(ls < p + l)
  <2> SUFFICES ASSUME ls < p + l PROVE FALSE
    OBVIOUS
  <2>1. ls - p + 1 \in 1 .. n /\ p + (ls - p + 1) = ls + 1 /\ q + (ls - p + 1) \in q + j .. lw
        /\ ls < Len(s)
    BY <1>1, <1>4, <1>7
  <2>2. PICK m \in 1 .. n : p + m = ls + 1 /\ q + m \in q + j .. lw
    BY <2>1
  <2>3. s[p + m] = w[q + m]
    BY SharedSymbol
  <2> QED
    BY <1>4, <1>5, <2>1, <2>2, <2>3
<1>9. CASE l = n
  <2>1. ls = p + l \/ ls > p + n
    <3>1. ls \in Int /\ p + l \in Int
      BY <1>1, <1>4, <1>7
    <3> QED
      BY <1>8, <1>9, <3>1
  <2> QED
    BY <1>4, <1>5, <1>7, <1>9, <2>1 DEF SameLexeme, ls, lw
<1>10. CASE l # n
  <2>1. ~(ls > p + l)
    <3> SUFFICES ASSUME ls > p + l PROVE FALSE
      OBVIOUS
    <3>1. l + 1 \in 1 .. n /\ p + (l + 1) \in p + j .. ls /\ q + (l + 1) = lw + 1 /\ lw < Len(w)
      BY <1>1, <1>4, <1>7, <1>10
    <3>2. PICK m \in 1 .. n : p + m \in p + j .. ls /\ q + m = lw + 1
      BY <3>1
    <3>3. s[p + m] = w[q + m]
      BY SharedSymbol
    <3> QED
      BY <1>4, <1>5, <3>1, <3>2, <3>3
  <2>2. ls = p + l
    <3>1. ls \in Int /\ p + l \in Int
      BY <1>1, <1>4, <1>7
    <3> QED
      BY <1>8, <2>1, <3>1
  <2> QED
    BY <1>4, <1>5, <1>7, <2>2 DEF SameLexeme, ls, lw
<1> QED
  BY <1>9, <1>10

LEMMA BlockShared ==
  ASSUME NEW s, NEW p, NEW w, NEW q, NEW n, Shared(s, p, w, q, n), NEW j \in 1 .. n,
         At(s, p + j, <<"/", "*">>), Kind(s, p + j) # "broken"
  PROVE  SameLexeme(s, p, w, q, n, j)
<1> DEFINE ls == LexemeAt(s, p + j).last
           lw == LexemeAt(w, q + j).last
<1>1. /\ p + j \in 1 .. Len(s) /\ q + j \in 1 .. Len(w)
      /\ s \in Seq(Symbols) /\ w \in Seq(Symbols) /\ Len(s) \in Nat /\ Len(w) \in Nat
      /\ n \in Nat /\ p \in Nat /\ q \in Nat /\ j \in Nat
      /\ p + n <= Len(s) /\ q + n + 1 <= Len(w)
  BY SharedPlaces DEF Shared
<1>2. "*" \notin Blanks \cup {Separator} /\ "/" \notin Blanks \cup {Separator}
  BY SeparatorFacts DEF Blanks
<1>3. At(w, q + j, <<"/", "*">>)
  BY <1>2, AtShared
<1>4. PICK e \in CommentEnds(s, p + j) :
        /\ Kind(s, p + j) = "comment" /\ ls = e + 1
        /\ \A k \in CommentEnds(s, p + j) : e <= k
  BY <1>1, BlockLexeme
<1>5. \/ CommentEnds(w, q + j) = {}
      \/ \E f \in CommentEnds(w, q + j) :
           /\ Kind(w, q + j) = "comment" /\ lw = f + 1
           /\ \A k \in CommentEnds(w, q + j) : f <= k
  BY <1>1, <1>3, BlockLexeme
<1> HIDE DEF ls, lw
\* The ends of the comment in the stretch are the same.
<1>6. \A k \in 1 .. n : /\ p + k \in CommentEnds(s, p + j) <=> q + k \in CommentEnds(w, q + j)
                        /\ p + k \in CommentEnds(s, p + j) => k + 1 \in 1 .. n
  <2> TAKE k \in 1 .. n
  <2>1. /\ At(s, p + k, <<"*", "/">>) <=> At(w, q + k, <<"*", "/">>)
        /\ At(s, p + k, <<"*", "/">>) => k + 1 \in 1 .. n
    BY <1>2, AtShared
  <2>2. /\ p + k \in CommentEnds(s, p + j)
             <=> p + k \in p + j + 2 .. Len(s) - 1 /\ At(s, p + k, <<"*", "/">>)
        /\ q + k \in CommentEnds(w, q + j)
             <=> q + k \in q + j + 2 .. Len(w) - 1 /\ At(w, q + k, <<"*", "/">>)
    BY DEF CommentEnds
  <2>3. k + 1 \in 1 .. n => /\ p + k \in p + j + 2 .. Len(s) - 1 <=> j + 2 <= k
                            /\ q + k \in q + j + 2 .. Len(w) - 1 <=> j + 2 <= k
    BY <1>1
  <2> QED
    BY <2>1, <2>2, <2>3
<1>7. e \in p + j + 2 .. Len(s) - 1 /\ s[e] = "*"
  <2>1. e \in p + j + 2 .. Len(s) - 1 /\ At(s, e, <<"*", "/">>)
    BY DEF CommentEnds
  <2>2. e \in Nat \ {0}
    BY <1>1, <2>1
  <2> QED
    BY <1>1, <2>1, <2>2, AtTwo
<1>8. PICK m \in 1 .. n : e = p + m /\ j + 2 <= m
  <2>1. e \in 1 .. Len(s)
    BY <1>1, <1>7
  <2>2. e <= p + n
    BY <1>2, <1>7, <2>1, SharedInside
  <2>3. e - p \in 1 .. n /\ e = p + (e - p) /\ j + 2 <= e - p
    BY <1>1, <1>7, <2>2
  <2> QED
    BY <2>3
<1>9. q + m \in CommentEnds(w, q + j) /\ m + 1 \in 1 .. n
  BY <1>6, <1>8
<1>10. PICK f \in CommentEnds(w, q + j) :
         /\ Kind(w, q + j) = "comment" /\ lw = f + 1
         /\ \A k \in CommentEnds(w, q + j) : f <= k
  BY <1>5, <1>9
<1>11. f \in q + j + 2 .. Len(w) - 1 /\ f <= q + m
  BY <1>9, <1>10 DEF CommentEnds
<1>12. PICK r \in 1 .. n : f = q + r
  <2>1. f - q \in 1 .. n /\ f = q + (f - q)
    BY <1>1, <1>11
  <2> QED
    BY <2>1
<1>13. p + r \in CommentEnds(s, p + j)
  BY <1>6, <1>10, <1>12
<1>14. e <= p + r
  BY <1>4, <1>13
<1>15. m \in Nat /\ r \in Nat
  BY <1>1
<1>16. m = r
  BY <1>1, <1>8, <1>11, <1>12, <1>14, <1>15
<1>17. m + 1 \in j .. n /\ lw = q + (m + 1) /\ ls = p + (m + 1)
  BY <1>1, <1>4, <1>8, <1>9, <1>10, <1>12, <1>15, <1>16
<1> QED
  BY <1>4, <1>10, <1>17 DEF SameLexeme, ls, lw

LEMMA LexemeShared ==
  ASSUME NEW s, NEW p, NEW w, NEW q, NEW n, Shared(s, p, w, q, n), NEW j \in 1 .. n,
         Kind(s, p + j) # "broken"
  PROVE  SameLexeme(s, p, w, q, n, j)
<1>1. CASE s[p + j] \in Words
  BY <1>1, WordShared
<1>2. CASE s[p + j] \in Openers
  BY <1>2, LiteralShared
<1>3. CASE LineComment(s, p + j)
  BY <1>3, LineShared
<1>4. CASE At(s, p + j, <<"/", "*">>)
  BY <1>4, BlockShared
<1>5. CASE /\ s[p + j] \notin Words \cup Openers
           /\ ~LineComment(s, p + j) /\ ~At(s, p + j, <<"/", "*">>)
  <2>1. /\ p + j \in 1 .. Len(s) /\ q + j \in 1 .. Len(w) /\ w[q + j] = s[p + j]
        /\ s \in Seq(Symbols) /\ w \in Seq(Symbols) /\ j \in j .. n
    BY SharedPlaces
  <2>2. "-" \notin Blanks \cup {Separator} /\ "*" \notin Blanks \cup {Separator}
    BY SeparatorFacts DEF Blanks
  <2>3. ~LineComment(w, q + j) /\ ~At(w, q + j, <<"/", "*">>)
    BY <1>5, <2>1, <2>2, AtShared DEF LineComment
  <2>4. Kind(s, p + j) = "sign" /\ LexemeAt(s, p + j).last = p + j
    BY <1>5, <2>1, SignLexeme
  <2>5. Kind(w, q + j) = "sign" /\ LexemeAt(w, q + j).last = q + j
    BY <1>5, <2>1, <2>3, SignLexeme
  <2> QED
    BY <2>1, <2>4, <2>5 DEF SameLexeme
<1> QED
  BY <1>1, <1>2, <1>3, <1>4, <1>5

\* The same symbols make the same lexeme.
LEMMA PieceShared ==
  ASSUME NEW s, NEW p, NEW w, NEW q, NEW n, Shared(s, p, w, q, n), NEW j \in 1 .. n,
         NEW l \in j .. n, LexemeAt(s, p + j).last = p + l, LexemeAt(w, q + j).last = q + l
  PROVE  Lexeme(w, q + j) = Lexeme(s, p + j)
<1> DEFINE u == SubSeq(s, p + j, p + l)
           v == SubSeq(w, q + j, q + l)
<1>1. /\ s \in Seq(Symbols) /\ w \in Seq(Symbols) /\ Len(s) \in Nat /\ Len(w) \in Nat
      /\ n \in Nat /\ p \in Nat /\ q \in Nat /\ j \in Nat /\ l \in Nat
      /\ p + n <= Len(s) /\ q + n + 1 <= Len(w)
  BY SharedPlaces DEF Shared
<1>2. /\ p + j \in 1 .. Len(s) /\ p + l \in p + j .. Len(s)
      /\ q + j \in 1 .. Len(w) /\ q + l \in q + j .. Len(w)
      /\ (p + l) - (p + j) + 1 = l - j + 1 /\ (q + l) - (q + j) + 1 = l - j + 1
  BY <1>1
<1>3. /\ u \in Seq(Symbols) /\ Len(u) = l - j + 1
      /\ \A k \in 1 .. l - j + 1 : u[k] = s[p + j + k - 1]
  BY <1>1, <1>2, PieceFacts
<1>4. /\ v \in Seq(Symbols) /\ Len(v) = l - j + 1
      /\ \A k \in 1 .. l - j + 1 : v[k] = w[q + j + k - 1]
  BY <1>1, <1>2, PieceFacts
<1> HIDE DEF u, v
<1>5. \A k \in 1 .. l - j + 1 : u[k] = v[k]
  <2> TAKE k \in 1 .. l - j + 1
  <2>1. PICK m \in 1 .. n : p + m = p + j + k - 1 /\ q + m = q + j + k - 1
    <3>1. j + k - 1 \in 1 .. n /\ p + (j + k - 1) = p + j + k - 1 /\ q + (j + k - 1) = q + j + k - 1
      BY <1>1
    <3> QED
      BY <3>1
  <2>2. s[p + m] = w[q + m]
    BY SharedPlaces
  <2> QED
    BY <1>3, <1>4, <2>1, <2>2
<1>6. u = v
  BY <1>3, <1>4, <1>5, SeqEqual
<1>7. Lexeme(w, q + j) = v /\ Lexeme(s, p + j) = u
  BY Zenon DEF Lexeme, u, v
<1> QED
  BY <1>6, <1>7

(***************************************************************************)
(* Reading on.                                                             *)
(***************************************************************************)
TextSeqs == Seq(Seq(Symbols))

\* Texts one after the other.
LEMMA JoinTexts ==
  ASSUME NEW t \in TextSeqs, NEW u \in TextSeqs
  PROVE  /\ t \o u \in TextSeqs
         /\ \A v \in TextSeqs : (t \o u) \o v = t \o (u \o v)
<1> DEFINE W == Seq(Symbols)
<1>1. TextSeqs = Seq(W)
  BY DEF TextSeqs
<1> HIDE DEF W
<1>2. t \in Seq(W) /\ u \in Seq(W)
  BY <1>1
<1>3. t \o u \in Seq(W)
  BY ONLY <1>2, ConcatProperties
<1>4. \A v \in Seq(W) : (t \o u) \o v = t \o (u \o v)
  BY ONLY <1>2, ConcatAssociative
<1> QED
  BY <1>1, <1>3, <1>4

\* A lexeme of one symbol.
LEMMA OneSymbol ==
  ASSUME NEW s \in Seq(Symbols), NEW i \in 1 .. Len(s), LexemeAt(s, i).last = i
  PROVE  Lexeme(s, i) = <<s[i]>>
<1>1. i \in i .. Len(s) /\ i - i + 1 = 1 /\ i + 1 - 1 = i /\ 1 \in 1 .. 1
  OBVIOUS
<1>2. /\ SubSeq(s, i, i) \in Seq(Symbols) /\ Len(SubSeq(s, i, i)) = 1
      /\ SubSeq(s, i, i)[1] = s[i]
  <2>1. /\ SubSeq(s, i, i) \in Seq(Symbols) /\ Len(SubSeq(s, i, i)) = i - i + 1
        /\ \A k \in 1 .. i - i + 1 : SubSeq(s, i, i)[k] = s[i + k - 1]
    BY <1>1, PieceFacts
  <2>2. SubSeq(s, i, i)[1] = s[i + 1 - 1]
    BY <1>1, <2>1
  <2> QED
    BY <1>1, <2>1, <2>2
<1>3. s[i] \in Symbols
  BY ElementOfSeq
<1>4. <<s[i]>> \in Seq(Symbols) /\ Len(<<s[i]>>) = 1 /\ <<s[i]>>[1] = s[i]
  <2> HIDE DEF Symbols
  <2> QED
    BY <1>3
<1>5. SubSeq(s, i, i) = <<s[i]>>
  <2> DEFINE u == SubSeq(s, i, i)
             v == <<s[i]>>
  <2>1. u \in Seq(Symbols) /\ v \in Seq(Symbols) /\ Len(u) = Len(v)
        /\ \A k \in 1 .. Len(u) : u[k] = v[k]
    BY <1>2, <1>4
  <2> HIDE DEF u, v
  <2>2. u = v
    BY <2>1, SeqEqual
  <2> QED
    BY <2>2 DEF u, v
<1> QED
  BY <1>5 DEF Lexeme

\* A blank is not read.
LEMMA BlankRead ==
  ASSUME NEW s \in Seq(Symbols), NEW i \in 1 .. Len(s), s[i] \in Blanks
  PROVE  After(s, i) = i + 1 /\ TextsFrom(s)[i] = TextsFrom(s)[i + 1]
<1>1. After(s, i) = i + 1
  BY DEF After
<1> QED
  BY <1>1, TextsFacts

\* A word of one symbol, and a sign that starts no comment, are read as they are.
LEMMA SymbolRead ==
  ASSUME NEW s \in Seq(Symbols), NEW i \in 1 .. Len(s),
         \/ s[i] \in Words /\ (i < Len(s) => s[i + 1] \notin Words)
         \/ s[i] \in {"*", "(", ")", Separator}
  PROVE  /\ s[i] \notin Blanks /\ Kind(s, i) # "comment" /\ Lexeme(s, i) = <<s[i]>>
         /\ After(s, i) = i + 1
         /\ TextsFrom(s)[i] = <<<<s[i]>>>> \o TextsFrom(s)[i + 1]
<1>1. s[i] \notin Blanks /\ Kind(s, i) \in {"word", "sign"} /\ LexemeAt(s, i).last = i
  <2>1. CASE s[i] \in Words /\ (i < Len(s) => s[i + 1] \notin Words)
    <3>1. /\ Kind(s, i) = "word" /\ LexemeAt(s, i).last \in i .. Len(s)
          /\ \A k \in i .. LexemeAt(s, i).last : s[k] \in Words
      BY <2>1, WordLexeme
    <3>2. LexemeAt(s, i).last = i
      <4> SUFFICES ASSUME LexemeAt(s, i).last # i PROVE FALSE
        OBVIOUS
      <4>1. i + 1 \in i .. LexemeAt(s, i).last /\ i < Len(s)
        BY <3>1
      <4> QED
        BY <2>1, <3>1, <4>1
    <3> QED
      BY <2>1, <3>1, <3>2, OneKind
  <2>2. CASE s[i] \in {"*", "(", ")", Separator}
    <3>1. s[i] \notin Blanks \cup Words \cup Openers \cup {"-", "/", "#!"}
      <4>1. CASE s[i] = Separator
        BY <4>1, SeparatorFacts DEF Openers, Heredoc
      <4>2. CASE s[i] \in {"*", "(", ")"}
        BY <4>2 DEF Blanks, Words, Quotes, Openers, Heredoc
      <4> QED
        BY <2>2, <4>1, <4>2
    <3>2. ~LineComment(s, i) /\ ~At(s, i, <<"/", "*">>)
      <4>1. i \in Nat \ {0}
        OBVIOUS
      <4> QED
        BY <3>1, <4>1, AtTwo DEF LineComment
    <3> QED
      BY <3>1, <3>2, SignLexeme
  <2> QED
    BY <2>1, <2>2
<1>2. After(s, i) = i + 1
  BY <1>1 DEF After
<1>3. Lexeme(s, i) = <<s[i]>>
  BY <1>1, OneSymbol
<1> QED
  BY <1>1, <1>2, <1>3, TextsFacts

\* The text of a statement's end.
End == <<Separator>>

\* What is read where nothing but blanks and separators is left, in a text let through as
\* one statement: the statement's end, or nothing.
LEMMA TailTexts ==
  ASSUME NEW s \in Seq(Symbols), KnownLexemes(s), ~ContainsMultipleStatements(s),
         NEW a \in 1 .. Len(s) + 1,
         \A k \in a .. Len(s) : s[k] \in Blanks \cup {Separator},
         NEW g \in a .. Len(s) + 1, g <= Len(s) => g \in Places(s)[1]
  PROVE  TextsFrom(s)[g] \in {<<>>, <<End>>}
<1> DEFINE Void(f) == \A k \in f .. Len(s) : s[k] \in Blanks
           Holds(f) == /\ Void(f) => TextsFrom(s)[f] = <<>>
                       /\ ~Void(f) => TextsFrom(s)[f] = <<End>>
           P == {f \in 1 .. Len(s) : f >= a /\ f \in Places(s)[1] => Holds(f)}
<1>1. Len(s) \in Nat /\ a \in Nat
  OBVIOUS
<1>2. Holds(Len(s) + 1)
  <2>1. Void(Len(s) + 1)
    OBVIOUS
  <2> QED
    BY <2>1, TextsFacts
<1>3. \A f \in 1 .. Len(s) : (\A h \in 1 .. Len(s) : h > f => h \in P) => f \in P
  <2> TAKE f \in 1 .. Len(s)
  <2> SUFFICES ASSUME \A h \in 1 .. Len(s) : h > f => h \in P, f >= a, f \in Places(s)[1]
               PROVE  Holds(f)
    OBVIOUS
  <2>1. s[f] \in Blanks \cup {Separator} /\ f \in a .. Len(s)
    BY <1>1
  <2>2. After(s, f) = f + 1
    BY <2>1, BlankRead, SymbolRead
  <2>3. Holds(f + 1)
    <3>1. CASE f + 1 = Len(s) + 1
      BY <1>2, <3>1
    <3>2. CASE f + 1 # Len(s) + 1
      <4>1. f + 1 \in 1 .. Len(s) /\ f + 1 > f /\ f + 1 >= a
        BY <1>1, <2>1, <3>2
      <4>2. f + 1 \in Places(s)[1]
        BY <2>2, <4>1, PlacesClosed
      <4>3. f + 1 \in P
        BY <4>1
      <4> QED
        BY <4>1, <4>2, <4>3
    <3> QED
      BY <3>1, <3>2
  <2>4. CASE s[f] \in Blanks
    <3>1. Void(f) <=> Void(f + 1)
      <4>1. f .. Len(s) = {f} \cup (f + 1 .. Len(s))
        OBVIOUS
      <4> QED
        BY <2>4, <4>1
    <3>2. TextsFrom(s)[f] = TextsFrom(s)[f + 1]
      BY <2>4, BlankRead
    <3> HIDE DEF Void
    <3> QED
      BY <2>3, <3>1, <3>2
  <2>5. CASE s[f] = Separator
    <3>1. s[f] \notin Blanks
      BY <2>5, SeparatorFacts
    <3>2. Void(f + 1)
      <4> SUFFICES ASSUME NEW k \in f + 1 .. Len(s), s[k] \notin Blanks PROVE FALSE
        OBVIOUS
      <4>1. f \in Starts(s)
        BY <3>1 DEF Starts
      <4>2. k \in 1 .. Len(s) /\ f < k
        OBVIOUS
      <4> QED
        BY <2>5, <4>1, <4>2, SeveralAreSeen
    <3>3. ~Void(f)
      BY <2>1, <3>1
    <3>4. TextsFrom(s)[f] = <<<<s[f]>>>> \o TextsFrom(s)[f + 1]
      BY <2>5, SymbolRead
    <3>5. TextsFrom(s)[f] = <<End>> \o <<>>
      <4> HIDE DEF Void
      <4> QED
        BY <2>3, <2>5, <3>2, <3>4 DEF End
    <3>6. <<End>> \o <<>> = <<End>>
      OBVIOUS
    <3> HIDE DEF Void
    <3> QED
      BY <3>3, <3>5, <3>6
  <2> QED
    BY <2>1, <2>4, <2>5
<1>4. \A f \in 1 .. Len(s) : f \in P
  <2> HIDE DEF P
  <2> QED
    BY <1>1, <1>3, DownFrom
<1>5. Holds(g)
  <2>1. CASE g = Len(s) + 1
    BY <1>2, <2>1
  <2>2. CASE g # Len(s) + 1
    <3>1. g \in 1 .. Len(s) /\ g >= a /\ g <= Len(s)
      BY <1>1, <2>2
    <3>2. g \in P
      BY <1>4, <3>1
    <3> QED
      BY <3>1, <3>2
  <2> QED
    BY <2>1, <2>2
<1> HIDE DEF Void
<1> QED
  BY <1>5

\* What is passed over in reading.
Silent(s, i) == s[i] \in Blanks \/ Kind(s, i) = "comment"

\* Both are read on from the same place of the stretch, or past it.
LEMMA NextShared ==
  ASSUME NEW s, NEW p, NEW w, NEW q, NEW n, Shared(s, p, w, q, n), NEW j \in 1 .. n,
         s[p + j] \in Blanks \/ Kind(s, p + j) # "broken"
  PROVE  /\ Silent(s, p + j) <=> Silent(w, q + j)
         /\ \E l \in j .. n :
              /\ After(w, q + j) = q + l + 1
              /\ After(s, p + j) = p + l + 1 \/ (l = n /\ After(s, p + j) > p + n + 1)
         /\ ~Silent(s, p + j) => Lexeme(w, q + j) = Lexeme(s, p + j)
<1>1. /\ s[p + j] = w[q + j] /\ p + j \in 1 .. Len(s) /\ q + j \in 1 .. Len(w)
      /\ n \in Nat /\ p \in Nat /\ q \in Nat /\ j \in Nat
      /\ s \in Seq(Symbols) /\ w \in Seq(Symbols) /\ Len(s) \in Nat
  BY SharedPlaces
<1>2. CASE s[p + j] \in Blanks
  <2>1. After(w, q + j) = q + j + 1 /\ After(s, p + j) = p + j + 1 /\ j \in j .. n
    BY <1>1, <1>2 DEF After
  <2>2. Silent(s, p + j) /\ Silent(w, q + j)
    BY <1>1, <1>2 DEF Silent
  <2> QED
    BY <2>1, <2>2
<1>3. CASE s[p + j] \notin Blanks
  <2>1. PICK l \in j .. n :
          /\ LexemeAt(w, q + j).last = q + l /\ Kind(w, q + j) = Kind(s, p + j)
          /\ \/ LexemeAt(s, p + j).last = p + l
             \/ l = n /\ Kind(s, p + j) = "comment" /\ LexemeAt(s, p + j).last > p + n
    BY <1>3, LexemeShared DEF SameLexeme
  <2>2. /\ After(s, p + j) = LexemeAt(s, p + j).last + 1
        /\ After(w, q + j) = LexemeAt(w, q + j).last + 1
        /\ LexemeAt(s, p + j).last \in p + j .. Len(s)
    BY <1>1, <1>3, LexemeLast DEF After
  <2>3. After(s, p + j) = p + l + 1 \/ (l = n /\ After(s, p + j) > p + n + 1)
    <3>1. LexemeAt(s, p + j).last \in Int /\ p \in Int /\ n \in Int /\ l \in Int
      BY <1>1, <2>2
    <3> QED
      BY <2>1, <2>2, <3>1
  <2>4. Silent(s, p + j) <=> Silent(w, q + j)
    BY <1>1, <1>3, <2>1 DEF Silent
  <2>5. ~Silent(s, p + j) => Lexeme(w, q + j) = Lexeme(s, p + j)
    <3> SUFFICES ASSUME ~Silent(s, p + j) PROVE Lexeme(w, q + j) = Lexeme(s, p + j)
      OBVIOUS
    <3>1. LexemeAt(s, p + j).last = p + l
      BY <2>1 DEF Silent
    <3> QED
      BY <2>1, <3>1, PieceShared
  <2>6. After(w, q + j) = q + l + 1
    BY <2>1, <2>2
  <2> QED
    BY <2>3, <2>4, <2>5, <2>6
<1> QED
  BY <1>2, <1>3

\* From a place of the stretch on, both read the same texts to its end, none of them the
\* statement's end; then s ends its statement or not, and w goes on after the line break.
ReadAlike(s, w, i, g, rest) ==
  \E T \in TextSeqs, R \in {<<>>, <<End>>} :
    /\ TextsFrom(s)[i] = T \o R
    /\ TextsFrom(w)[g] = T \o TextsFrom(w)[rest]
    /\ \A k \in 1 .. Len(T) : T[k] # End

LEMMA EndTexts ==
  End \in Seq(Symbols) /\ <<>> \in TextSeqs /\ <<End>> \in TextSeqs
<1>1. End \in Seq(Symbols)
  BY DEF End, Symbols, Signs
<1> HIDE DEF End
<1> QED
  BY <1>1 DEF TextSeqs

\* Nothing more in the stretch.
LEMMA ReadAlikeEnd ==
  ASSUME NEW s, NEW w, NEW i, NEW rest,
         TextsFrom(s)[i] \in {<<>>, <<End>>}, TextsFrom(w)[rest] \in TextSeqs
  PROVE  ReadAlike(s, w, i, rest, rest)
<1>1. <<>> \in TextSeqs /\ Len(<<>>) = 0
  BY EndTexts
<1>2. <<>> \o TextsFrom(s)[i] = TextsFrom(s)[i] /\ <<>> \o TextsFrom(w)[rest] = TextsFrom(w)[rest]
  <2>1. TextsFrom(s)[i] \in TextSeqs
    BY EndTexts
  <2> QED
    BY <2>1, ConcatEmptySeq DEF TextSeqs
<1>3. \A k \in 1 .. Len(<<>>) : <<>>[k] # End
  BY <1>1
<1> HIDE DEF End
<1> QED
  BY <1>1, <1>2, <1>3 DEF ReadAlike

\* One more text read.
LEMMA ReadAlikeMore ==
  ASSUME NEW s, NEW w, NEW i, NEW g, NEW i2, NEW g2, NEW rest, NEW x \in Seq(Symbols),
         x # End, ReadAlike(s, w, i2, g2, rest), TextsFrom(w)[rest] \in TextSeqs,
         TextsFrom(s)[i] = <<x>> \o TextsFrom(s)[i2],
         TextsFrom(w)[g] = <<x>> \o TextsFrom(w)[g2]
  PROVE  ReadAlike(s, w, i, g, rest)
<1>1. PICK T \in TextSeqs, R \in {<<>>, <<End>>} :
        /\ TextsFrom(s)[i2] = T \o R
        /\ TextsFrom(w)[g2] = T \o TextsFrom(w)[rest]
        /\ \A k \in 1 .. Len(T) : T[k] # End
  BY DEF ReadAlike
<1>2. R \in TextSeqs
  BY EndTexts
<1>3. <<x>> \in TextSeqs /\ Len(<<x>>) = 1 /\ <<x>>[1] = x
  BY DEF TextSeqs
<1>4. /\ <<x>> \o T \in TextSeqs /\ Len(<<x>> \o T) = 1 + Len(T) /\ Len(T) \in Nat
      /\ \A k \in 1 .. 1 + Len(T) :
           (<<x>> \o T)[k] = IF k <= 1 THEN <<x>>[k] ELSE T[k - 1]
  BY <1>3, ConcatProperties DEF TextSeqs
<1>5. \A k \in 1 .. Len(<<x>> \o T) : (<<x>> \o T)[k] # End
  <2> TAKE k \in 1 .. Len(<<x>> \o T)
  <2>1. CASE k = 1
    <3>1. (<<x>> \o T)[k] = <<x>>[k]
      BY <1>4, <2>1
    <3> QED
      BY <1>3, <2>1, <3>1
  <2>2. CASE k # 1
    <3>1. k - 1 \in 1 .. Len(T) /\ (<<x>> \o T)[k] = T[k - 1]
      BY <1>4, <2>2
    <3> QED
      BY <1>1, <3>1
  <2> QED
    BY <2>1, <2>2
<1>6. /\ (<<x>> \o T) \o R = <<x>> \o (T \o R)
      /\ (<<x>> \o T) \o TextsFrom(w)[rest] = <<x>> \o (T \o TextsFrom(w)[rest])
  <2>1. \A t, u, v \in TextSeqs : (t \o u) \o v = t \o (u \o v)
    BY JoinTexts
  <2> QED
    BY <1>1, <1>2, <1>3, <2>1
<1>7. /\ TextsFrom(s)[i] = (<<x>> \o T) \o R
      /\ TextsFrom(w)[g] = (<<x>> \o T) \o TextsFrom(w)[rest]
  BY <1>1, <1>6
<1> QED
  BY <1>4, <1>5, <1>7 DEF ReadAlike

LEMMA StretchReadAlike ==
  ASSUME NEW s, NEW p, NEW w, NEW q, NEW n, Shared(s, p, w, q, n),
         ~ContainsMultipleStatements(s), Complete(s), KnownLexemes(s),
         n # 0, s[p + n] \notin Blanks,
         s[p + n] = Separator => \E k \in p + n + 1 .. Len(s) : s[k] \notin Blanks
  PROVE  \A j \in 1 .. n :
           p + j \in Places(s)[1] => ReadAlike(s, w, p + j, q + j, q + n + 1)
<1> DEFINE P == {j \in 1 .. n : p + j \in Places(s)[1] =>
                                  ReadAlike(s, w, p + j, q + j, q + n + 1)}
<1>1. /\ n \in Nat /\ p \in Nat /\ q \in Nat /\ Len(s) \in Nat /\ Len(w) \in Nat
      /\ s \in Seq(Symbols) /\ w \in Seq(Symbols) /\ p + n <= Len(s) /\ q + n + 1 <= Len(w)
      /\ \A k \in p + n + 1 .. Len(s) : s[k] \in Blanks \cup {Separator}
  BY DEF Shared
<1>2. TextsFrom(w)[q + n + 1] \in TextSeqs
  <2>1. q + n + 1 \in 1 .. Len(w) + 1
    BY <1>1
  <2> QED
    BY <1>1, <2>1, TextsFacts DEF TextSeqs
<1>3. \A j \in 1 .. n : (\A h \in 1 .. n : h > j => h \in P) => j \in P
  <2> TAKE j \in 1 .. n
  <2> SUFFICES ASSUME \A h \in 1 .. n : h > j => h \in P, p + j \in Places(s)[1]
               PROVE  ReadAlike(s, w, p + j, q + j, q + n + 1)
    OBVIOUS
  <2>1. p + j \in 1 .. Len(s) /\ q + j \in 1 .. Len(w) /\ s[p + j] = w[q + j] /\ j \in Nat
    BY SharedPlaces
  <2>2. s[p + j] \in Blanks \/ Kind(s, p + j) # "broken"
    BY DEF Complete, Starts
  <2>3. /\ Silent(s, p + j) <=> Silent(w, q + j)
        /\ ~Silent(s, p + j) => Lexeme(w, q + j) = Lexeme(s, p + j)
    BY <2>2, NextShared
  <2>4. PICK l \in j .. n :
          /\ After(w, q + j) = q + l + 1
          /\ After(s, p + j) = p + l + 1 \/ (l = n /\ After(s, p + j) > p + n + 1)
    BY <2>2, NextShared
  <2>5. After(s, p + j) \in p + j + 1 .. Len(s) + 1
    BY <1>1, <2>1, LexemeLast
  <2>6. After(s, p + j) <= Len(s) => After(s, p + j) \in Places(s)[1]
    BY <1>1, PlacesClosed
  <2>7. ReadAlike(s, w, After(s, p + j), After(w, q + j), q + n + 1)
    <3>1. CASE l = n
      <4>1. /\ p + n + 1 \in 1 .. Len(s) + 1
            /\ After(s, p + j) \in p + n + 1 .. Len(s) + 1
        BY <1>1, <2>4, <2>5, <3>1
      <4>2. TextsFrom(s)[After(s, p + j)] \in {<<>>, <<End>>}
        BY <1>1, <2>6, <4>1, TailTexts
      <4> QED
        BY <1>2, <2>4, <3>1, <4>2, ReadAlikeEnd
    <3>2. CASE l # n
      <4>1. l + 1 \in 1 .. n /\ l + 1 > j /\ p + l + 1 = p + (l + 1) /\ q + l + 1 = q + (l + 1)
            /\ p + l + 1 <= Len(s)
        <5>1. l \in j .. n
          BY <2>4
        <5> QED
          BY <1>1, <2>1, <3>2, <5>1
      <4>2. After(s, p + j) = p + (l + 1) /\ p + (l + 1) \in Places(s)[1]
        BY <2>4, <2>6, <3>2, <4>1
      <4>3. l + 1 \in P
        BY <4>1
      <4> QED
        BY <2>4, <4>1, <4>2, <4>3
    <3> QED
      BY <3>1, <3>2
  <2>8. CASE Silent(s, p + j)
    <3>1. /\ TextsFrom(s)[p + j] = TextsFrom(s)[After(s, p + j)]
          /\ TextsFrom(w)[q + j] = TextsFrom(w)[After(w, q + j)]
      BY <1>1, <2>1, <2>3, <2>8, TextsFacts DEF Silent
    <3> QED
      BY <2>7, <3>1 DEF ReadAlike
  <2>9. CASE ~Silent(s, p + j)
    <3> DEFINE x == Lexeme(s, p + j)
    <3>1. /\ TextsFrom(s)[p + j] = <<x>> \o TextsFrom(s)[After(s, p + j)]
          /\ TextsFrom(w)[q + j] = <<Lexeme(w, q + j)>> \o TextsFrom(w)[After(w, q + j)]
          /\ x \in Seq(Symbols)
      BY <1>1, <2>1, <2>3, <2>9, TextsFacts DEF Silent
    <3>2. TextsFrom(w)[q + j] = <<x>> \o TextsFrom(w)[After(w, q + j)]
      BY <2>3, <2>9, <3>1
    <3>3. x # End
      <4> SUFFICES ASSUME x = End PROVE FALSE
        OBVIOUS
      <4>1. s[p + j] = Separator
        <5>1. /\ LexemeAt(s, p + j).last \in p + j .. Len(s)
          BY <1>1, <2>1, LexemeLast
        <5>2. \A k \in 1 .. LexemeAt(s, p + j).last - (p + j) + 1 : x[k] = s[p + j + k - 1]
          <6>1. /\ s \in Seq(Symbols) /\ p + j \in 1 .. Len(s)
                /\ LexemeAt(s, p + j).last \in p + j .. Len(s)
            BY <1>1, <2>1, <5>1
          <6> QED
            BY ONLY <6>1, PieceFacts DEF Lexeme, x
        <5>3. 1 \in 1 .. LexemeAt(s, p + j).last - (p + j) + 1 /\ p + j + 1 - 1 = p + j
          BY <1>1, <2>1, <5>1
        <5>4. x[1] = s[p + j]
          <6>1. x[1] = s[p + j + 1 - 1]
            BY <5>2, <5>3
          <6> QED
            BY <5>3, <6>1
        <5>5. End[1] = Separator
          BY DEF End
        <5> HIDE DEF x
        <5> QED
          BY <5>4, <5>5
      <4>2. p + j \in Starts(s)
        BY <2>9 DEF Silent, Starts
      <4>3. \E k \in 1 .. Len(s) : p + j < k /\ s[k] \notin Blanks
        <5>1. CASE j = n
          <6>1. PICK k \in p + n + 1 .. Len(s) : s[k] \notin Blanks
            BY <4>1, <5>1
          <6>2. k \in 1 .. Len(s) /\ p + j < k
            BY <1>1, <5>1
          <6> QED
            BY <6>1, <6>2
        <5>2. CASE j # n
          <6>1. p + n \in 1 .. Len(s) /\ p + j < p + n
            BY <1>1, <5>2
          <6> QED
            BY <6>1
        <5> QED
          BY <5>1, <5>2
      <4> QED
        BY <1>1, <4>1, <4>2, <4>3, SeveralAreSeen
    <3> HIDE DEF x
    <3> QED
      BY <1>2, <2>7, <3>1, <3>2, <3>3, ReadAlikeMore
  <2> QED
    BY <2>8, <2>9
<1>4. \A j \in 1 .. n : j \in P
  <2> HIDE DEF P
  <2> QED
    BY <1>1, <1>3, DownFrom
<1> QED
  BY <1>4

(***************************************************************************)
(* The wrap.                                                               *)
(***************************************************************************)

\* u is what stands in s at the n places after p.
Cut(s, u, p, n) ==
  /\ u \in Seq(Symbols) /\ Len(u) = n /\ p \in Nat /\ n \in Nat /\ p + n <= Len(s)
  /\ \A j \in 1 .. n : u[j] = s[p + j]

LEMMA SubSeqCuts ==
  ASSUME NEW s \in Seq(Symbols), NEW a \in 1 .. Len(s), NEW b \in a .. Len(s)
  PROVE  Cut(s, SubSeq(s, a, b), a - 1, b - a + 1)
<1> DEFINE u == SubSeq(s, a, b)
<1>1. /\ u \in Seq(Symbols) /\ Len(u) = b - a + 1
      /\ \A k \in 1 .. b - a + 1 : u[k] = s[a + k - 1]
  BY PieceFacts
<1> HIDE DEF u
<1>2. /\ a - 1 \in Nat /\ b - a + 1 \in Nat /\ a - 1 + (b - a + 1) <= Len(s)
      /\ \A k \in 1 .. b - a + 1 : a + k - 1 = a - 1 + k
  OBVIOUS
<1>3. \A k \in 1 .. b - a + 1 : u[k] = s[a - 1 + k]
  BY <1>1, <1>2
<1>4. Cut(s, u, a - 1, b - a + 1)
  BY <1>1, <1>2, <1>3 DEF Cut
<1> QED
  BY <1>4 DEF u

\* strings.TrimSpace takes the blanks at both ends.
LEMMA TrimSpaceCuts ==
  ASSUME NEW s \in Seq(Symbols), NEW k \in 1 .. Len(s), s[k] \notin Blanks
  PROVE  \E p \in Nat, n \in Nat \ {0} :
           /\ Cut(s, TrimSpace(s), p, n)
           /\ s[p + 1] \notin Blanks /\ s[p + n] \notin Blanks
           /\ \A i \in 1 .. Len(s) : i <= p \/ i > p + n => s[i] \in Blanks
<1> DEFINE solid == {i \in DOMAIN s : s[i] \notin Blanks}
           a == Min(solid)
           b == Max(solid)
<1>1. DOMAIN s = 1 .. Len(s) /\ Len(s) \in Nat
  OBVIOUS
<1>2. solid \in SUBSET (0 .. Len(s)) /\ solid \in SUBSET Nat /\ solid # {}
  BY <1>1
<1>3. /\ a \in solid /\ b \in solid /\ \A x \in solid : a <= x /\ x <= b
  <2> HIDE DEF solid
  <2> QED
    BY <1>1, <1>2, MinFacts, MaxFacts
<1>4. TrimSpace(s) = SubSeq(s, a, b)
  BY <1>2 DEF TrimSpace
<1> HIDE DEF a, b
<1>5. a \in 1 .. Len(s) /\ b \in a .. Len(s) /\ s[a] \notin Blanks /\ s[b] \notin Blanks
  BY <1>1, <1>3
<1>6. \A i \in 1 .. Len(s) : i < a \/ i > b => s[i] \in Blanks
  BY <1>1, <1>3, <1>5
<1>7. Cut(s, TrimSpace(s), a - 1, b - a + 1)
  <2>1. Cut(s, SubSeq(s, a, b), a - 1, b - a + 1)
    BY <1>5, SubSeqCuts
  <2> QED
    BY <1>4, <2>1
<1>8. /\ a - 1 \in Nat /\ b - a + 1 \in Nat \ {0} /\ (a - 1) + 1 = a
      /\ (a - 1) + (b - a + 1) = b
      /\ \A i \in 1 .. Len(s) : i <= a - 1 => i < a
  BY <1>1, <1>5
<1>9. \A i \in 1 .. Len(s) : i <= a - 1 \/ i > (a - 1) + (b - a + 1) => s[i] \in Blanks
  BY <1>6, <1>8
<1> DEFINE p == a - 1
           n == b - a + 1
<1>10. /\ p \in Nat /\ n \in Nat \ {0} /\ Cut(s, TrimSpace(s), p, n)
       /\ s[p + 1] \notin Blanks /\ s[p + n] \notin Blanks
       /\ \A i \in 1 .. Len(s) : i <= p \/ i > p + n => s[i] \in Blanks
  BY <1>5, <1>7, <1>8, <1>9
<1> HIDE DEF p, n
<1> QED
  BY <1>10

\* strings.TrimRight takes the separators and spaces at the end.
LEMMA TrimTailCuts ==
  ASSUME NEW s \in Seq(Symbols), NEW k \in 1 .. Len(s), s[k] \notin Trailers
  PROVE  \E n \in Nat \ {0} :
           /\ Cut(s, TrimTail(s), 0, n) /\ s[n] \notin Trailers /\ k <= n
           /\ \A i \in n + 1 .. Len(s) : s[i] \in Trailers
<1> DEFINE kept == {i \in DOMAIN s : s[i] \notin Trailers}
           b == Max(kept)
<1>1. DOMAIN s = 1 .. Len(s) /\ Len(s) \in Nat
  OBVIOUS
<1>2. kept \in SUBSET (0 .. Len(s)) /\ kept # {} /\ k \in kept
  BY <1>1
<1>3. b \in kept /\ \A x \in kept : x <= b
  <2> HIDE DEF kept
  <2> QED
    BY <1>1, <1>2, MaxFacts
<1>4. TrimTail(s) = SubSeq(s, 1, b)
  BY <1>2 DEF TrimTail
<1> HIDE DEF b
<1>5. b \in 1 .. Len(s) /\ s[b] \notin Trailers /\ k <= b
  BY <1>1, <1>2, <1>3
<1>6. \A i \in b + 1 .. Len(s) : s[i] \in Trailers
  BY <1>1, <1>3, <1>5
<1>7. 1 \in 1 .. Len(s) /\ 1 - 1 = 0 /\ b - 1 + 1 = b /\ b \in Nat \ {0}
  BY <1>1, <1>5
<1>8. Cut(s, SubSeq(s, 1, b), 1 - 1, b - 1 + 1)
  BY <1>5, <1>7, SubSeqCuts
<1>9. Cut(s, TrimTail(s), 0, b)
  BY <1>4, <1>7, <1>8
<1> QED
  BY <1>5, <1>6, <1>7, <1>9

\* What Bound keeps of a text with a word in it: all but blanks before, and blanks and
\* separators after; it ends in a separator only if more than blanks is cut.
Kept(s, p, n) ==
  /\ n # 0 /\ \A i \in 1 .. p : s[i] \in Blanks
  /\ \A i \in p + n + 1 .. Len(s) : s[i] \in Blanks \cup {Separator}
  /\ s[p + n] \notin Blanks
  /\ s[p + n] = Separator => \E i \in p + n + 1 .. Len(s) : s[i] \notin Blanks

LEMMA BoundKeeps ==
  ASSUME NEW s \in Seq(Symbols), NEW k \in 1 .. Len(s), s[k] \notin Blanks \cup {Separator}
  PROVE  \E p, n \in Nat :
           Cut(s, TrimSpace(TrimTail(TrimSpace(s))), p, n) /\ Kept(s, p, n)
<1> DEFINE u == TrimSpace(s)
           v == TrimTail(u)
           t == TrimSpace(v)
<1>1. PICK p \in Nat, m \in Nat \ {0} :
        /\ Cut(s, u, p, m)
        /\ s[p + 1] \notin Blanks /\ s[p + m] \notin Blanks
        /\ \A i \in 1 .. Len(s) : i <= p \/ i > p + m => s[i] \in Blanks
  BY TrimSpaceCuts
<1> HIDE DEF u
<1>2. /\ u \in Seq(Symbols) /\ Len(u) = m /\ p + m <= Len(s) /\ Len(s) \in Nat
      /\ \A j \in 1 .. m : u[j] = s[p + j]
  BY <1>1 DEF Cut
<1>3. PICK k1 \in 1 .. m : k = p + k1
  <2>1. k > p /\ k <= p + m
    BY <1>1, <1>2
  <2>2. k - p \in 1 .. m /\ k = p + (k - p)
    BY <1>2, <2>1
  <2> QED
    BY <2>2
<1>4. Trailers \subseteq Blanks \cup {Separator} /\ u[k1] \notin Trailers
  <2>1. Trailers \subseteq Blanks \cup {Separator}
    BY Zenon DEF Trailers, Blanks, Space
  <2> QED
    BY <1>2, <1>3, <2>1
<1>5. PICK r \in Nat \ {0} :
        /\ Cut(u, v, 0, r) /\ u[r] \notin Trailers /\ k1 <= r
        /\ \A i \in r + 1 .. m : u[i] \in Trailers
  BY <1>2, <1>3, <1>4, TrimTailCuts
<1> HIDE DEF v
<1>6. /\ v \in Seq(Symbols) /\ Len(v) = r /\ r <= m
      /\ \A j \in 1 .. r : v[j] = u[j]
  <2>1. /\ v \in Seq(Symbols) /\ Len(v) = r /\ 0 + r <= Len(u)
        /\ \A j \in 1 .. r : v[j] = u[0 + j]
    BY <1>5 DEF Cut
  <2>2. \A j \in 1 .. r : 0 + j = j
    OBVIOUS
  <2> QED
    BY <1>2, <2>1, <2>2
<1>7. 1 \in 1 .. r /\ 1 \in 1 .. m /\ v[1] \notin Blanks
  BY <1>1, <1>2, <1>6
<1>8. PICK o \in Nat, n \in Nat \ {0} :
        /\ Cut(v, t, o, n)
        /\ v[o + 1] \notin Blanks /\ v[o + n] \notin Blanks
        /\ \A i \in 1 .. r : i <= o \/ i > o + n => v[i] \in Blanks
  BY <1>6, <1>7, TrimSpaceCuts
<1> HIDE DEF t
<1>9. o = 0
  BY <1>7, <1>8
<1>10. /\ t \in Seq(Symbols) /\ Len(t) = n /\ n <= r
       /\ \A j \in 1 .. n : t[j] = v[j]
       /\ v[n] \notin Blanks /\ \A i \in 1 .. r : i > n => v[i] \in Blanks
  <2>1. /\ t \in Seq(Symbols) /\ Len(t) = n /\ o + n <= Len(v)
        /\ \A j \in 1 .. n : t[j] = v[o + j]
    BY <1>8 DEF Cut
  <2>2. o + n = n /\ \A j \in 1 .. n : o + j = j
    BY <1>9
  <2> QED
    BY <1>6, <1>8, <2>1, <2>2
<1>11. Cut(s, t, p, n)
  <2>1. p + n <= Len(s)
    BY <1>2, <1>6, <1>10
  <2>2. \A j \in 1 .. n : t[j] = s[p + j]
    BY <1>2, <1>6, <1>10
  <2> QED
    BY <1>10, <2>1, <2>2 DEF Cut
<1>12. \A i \in 1 .. p : s[i] \in Blanks
  BY <1>1, <1>2
<1>13. \A i \in p + n + 1 .. Len(s) : s[i] \in Blanks \cup {Separator}
  <2> TAKE i \in p + n + 1 .. Len(s)
  <2>1. CASE i > p + m
    BY <1>1, <2>1
  <2>2. CASE ~(i > p + m)
    <3>1. PICK j \in n + 1 .. m : i = p + j
      <4>1. i - p \in n + 1 .. m /\ i = p + (i - p)
        BY <1>2, <2>2
      <4> QED
        BY <4>1
    <3>2. s[i] = u[j] /\ j \in 1 .. m
      BY <1>2, <3>1
    <3>3. CASE j > r
      BY <1>4, <1>5, <3>2, <3>3
    <3>4. CASE ~(j > r)
      BY <1>6, <1>10, <3>1, <3>2, <3>4
    <3> QED
      BY <3>3, <3>4
  <2> QED
    BY <2>1, <2>2
<1>14. s[p + n] = v[n]
  BY <1>2, <1>6, <1>10
<1>15. s[p + n] = Separator => \E i \in p + n + 1 .. Len(s) : s[i] \notin Blanks
  <2> SUFFICES ASSUME s[p + n] = Separator
               PROVE  \E i \in p + n + 1 .. Len(s) : s[i] \notin Blanks
    OBVIOUS
  <2>1. n # r
    <3>1. Separator \in Trailers
      BY Zenon DEF Trailers
    <3>2. r \in 1 .. r
      OBVIOUS
    <3> QED
      BY <1>5, <1>6, <1>14, <3>1, <3>2
  <2>2. v[r] \in Blanks
    <3>1. r \in 1 .. r /\ r > n
      BY <1>10, <2>1
    <3> QED
      BY <1>10, <3>1
  <2>3. u[m] \notin Blanks /\ u[r] \in Blanks
    BY <1>1, <1>2, <1>6, <2>2
  <2>4. r # m
    BY <2>3
  <2>5. p + m \in p + n + 1 .. Len(s)
    <3>1. /\ n <= r /\ r <= m /\ n # m /\ p + m <= Len(s)
          /\ n \in Int /\ r \in Int /\ m \in Int /\ p \in Int /\ Len(s) \in Int
      BY <1>2, <1>6, <1>10, <2>4
    <3> QED
      BY ONLY <3>1
  <2> QED
    BY <1>1, <2>5
<1>16. Kept(s, p, n)
  BY <1>10, <1>12, <1>13, <1>14, <1>15 DEF Kept
<1> QED
  BY <1>11, <1>16 DEF t, v, u

\* What can be bound has a word in it.
LEMMA SelectStands ==
  ASSUME NEW s \in Seq(Symbols), canBound(s)
  PROVE  \E k \in 1 .. Len(s) : s[k] = "SELECT"
<1> DEFINE t == TokenStart(s)[1]
           P == {i \in 1 .. Len(s) : TokenStart(s)[i] \in 1 .. Len(s) + 1 /\
                                     (TokenStart(s)[i] <= Len(s) => StopsAt(s, TokenStart(s)[i]))}
<1>1. Len(s) \in Nat /\ leadingKeyword(s) = <<"SELECT">>
  BY DEF canBound
<1>2. t # Len(s) + 1
  <2>1. <<"SELECT">> # <<>>
    OBVIOUS
  <2> QED
    BY <1>1, <2>1, NothingFound
<1>3. \A i \in 1 .. Len(s) : (\A j \in 1 .. Len(s) : j > i => j \in P) => i \in P
  <2> TAKE i \in 1 .. Len(s)
  <2> SUFFICES ASSUME \A j \in 1 .. Len(s) : j > i => j \in P PROVE i \in P
    OBVIOUS
  <2>1. TokenStart(s)[i] = IF StopsAt(s, i) THEN i ELSE TokenStart(s)[Jump(s, i)]
    BY TokenStartFacts
  <2>2. CASE StopsAt(s, i)
    BY <2>1, <2>2
  <2>3. CASE ~StopsAt(s, i)
    <3>1. Jump(s, i) \in i + 1 .. Len(s) + 3
      BY JumpRange
    <3>2. CASE Jump(s, i) \in Len(s) + 1 .. Len(s) + 3
      <4>1. TokenStart(s)[i] = Len(s) + 1
        BY <2>1, <2>3, <3>2, TokenStartFacts
      <4>2. Len(s) + 1 \in 1 .. Len(s) + 1 /\ ~(Len(s) + 1 <= Len(s))
        BY <1>1
      <4> QED
        BY <4>1, <4>2
    <3>3. CASE Jump(s, i) \notin Len(s) + 1 .. Len(s) + 3
      <4>1. Jump(s, i) \in 1 .. Len(s) /\ Jump(s, i) > i
        BY <1>1, <3>1, <3>3
      <4>2. Jump(s, i) \in P
        BY <4>1
      <4> QED
        BY <2>1, <2>3, <4>2
    <3> QED
      BY <3>2, <3>3
  <2> QED
    BY <2>2, <2>3
<1>4. \A i \in 1 .. Len(s) : i \in P
  <2> HIDE DEF P
  <2> QED
    BY <1>1, <1>3, DownFrom
<1>5. Len(s) # 0
  <2>1. Len(s) = 0 => 1 \in Len(s) + 1 .. Len(s) + 3
    OBVIOUS
  <2> QED
    BY <1>2, <2>1, TokenStartFacts
<1>6. t \in 1 .. Len(s) /\ StopsAt(s, t)
  <2>1. 1 \in P
    BY <1>1, <1>4, <1>5
  <2> QED
    BY <1>1, <1>2, <2>1
<1> HIDE DEF t
<1>7. PICK e \in t .. Len(s) : leadingKeyword(s) = SubSeq(s, t, e)
  BY <1>6, KeywordFacts DEF t, StopsAt
<1>8. SubSeq(s, t, e)[1] = s[t]
  <2>1. \A k \in 1 .. e - t + 1 : SubSeq(s, t, e)[k] = s[t + k - 1]
    BY <1>6, <1>7, PieceFacts
  <2>2. 1 \in 1 .. e - t + 1 /\ t + 1 - 1 = t
    BY <1>6, <1>7
  <2>3. SubSeq(s, t, e)[1] = s[t + 1 - 1]
    BY <2>1, <2>2
  <2> QED
    BY <2>2, <2>3
<1>9. <<"SELECT">>[1] = "SELECT"
  OBVIOUS
<1>10. s[t] = "SELECT"
  BY <1>1, <1>7, <1>8, <1>9
<1> QED
  BY <1>6, <1>10

\* What the server reads of the wrap before the query, and after it.
Opening(t) == <<<<"SELECT">>>> \o (<<<<"*">>>> \o (<<<<"FROM">>>> \o (<<<<"(">>>> \o t)))
Closing    == <<<<")">>, <<"LIMIT">>, <<"n">>>>

LEMMA WrapWords ==
  /\ <<<<"SELECT">>>> \in TextSeqs /\ <<<<"*">>>> \in TextSeqs /\ <<<<"FROM">>>> \in TextSeqs
  /\ <<<<"(">>>> \in TextSeqs
  /\ <<")">> \in Seq(Symbols) /\ <<"LIMIT">> \in Seq(Symbols) /\ <<"n">> \in Seq(Symbols)
<1> DEFINE V == Seq(Symbols)
<1>1. /\ <<"SELECT">> \in V /\ <<"*">> \in V /\ <<"FROM">> \in V /\ <<"(">> \in V
      /\ <<")">> \in V /\ <<"LIMIT">> \in V /\ <<"n">> \in V
  BY DEF Symbols, Words, Signs
<1> HIDE DEF V
<1>2. \A x \in V : <<x>> \in Seq(V)
  OBVIOUS
<1>3. TextSeqs = Seq(V)
  BY DEF TextSeqs, V
<1> QED
  BY <1>1, <1>2, <1>3 DEF V

LEMMA OpeningFacts ==
  ASSUME NEW t \in TextSeqs, NEW u \in TextSeqs
  PROVE  Opening(t) \in TextSeqs /\ Opening(t \o u) = Opening(t) \o u
<1> DEFINE a == <<<<"SELECT">>>>
           b == <<<<"*">>>>
           c == <<<<"FROM">>>>
           d == <<<<"(">>>>
<1>1. a \in TextSeqs /\ b \in TextSeqs /\ c \in TextSeqs /\ d \in TextSeqs
  BY WrapWords
<1>2. Opening(t) = a \o (b \o (c \o (d \o t))) /\ Opening(t \o u) = a \o (b \o (c \o (d \o (t \o u))))
  BY DEF Opening
<1> HIDE DEF a, b, c, d
<1>3. \A x, y \in TextSeqs : x \o y \in TextSeqs
  BY JoinTexts
<1>4. \A x, y, z \in TextSeqs : (x \o y) \o z = x \o (y \o z)
  BY JoinTexts
<1> DEFINE d1 == d \o t
           c1 == c \o d1
           b1 == b \o c1
           a1 == a \o b1
<1>5. d1 \in TextSeqs /\ d1 \o u = d \o (t \o u)
  <2>1. d \in TextSeqs /\ t \in TextSeqs
    BY <1>1
  <2>2. d \o t \in TextSeqs
    BY <1>3, <2>1, Zenon
  <2>3. (d \o t) \o u = d \o (t \o u)
    BY <1>4, <2>1, Zenon
  <2> QED
    BY <2>2, <2>3, Zenon
<1> HIDE DEF d1
<1>6. c1 \in TextSeqs /\ c1 \o u = c \o (d1 \o u)
  <2>1. c \in TextSeqs /\ d1 \in TextSeqs
    BY <1>1, <1>5
  <2>2. c \o d1 \in TextSeqs
    BY <1>3, <2>1, Zenon
  <2>3. (c \o d1) \o u = c \o (d1 \o u)
    BY <1>4, <2>1, Zenon
  <2> QED
    BY <2>2, <2>3, Zenon
<1> HIDE DEF c1
<1>7. b1 \in TextSeqs /\ b1 \o u = b \o (c1 \o u)
  <2>1. b \in TextSeqs /\ c1 \in TextSeqs
    BY <1>1, <1>6
  <2>2. b \o c1 \in TextSeqs
    BY <1>3, <2>1, Zenon
  <2>3. (b \o c1) \o u = b \o (c1 \o u)
    BY <1>4, <2>1, Zenon
  <2> QED
    BY <2>2, <2>3, Zenon
<1> HIDE DEF b1
<1>8. a1 \in TextSeqs /\ a1 \o u = a \o (b1 \o u)
  <2>1. a \in TextSeqs /\ b1 \in TextSeqs
    BY <1>1, <1>7
  <2>2. a \o b1 \in TextSeqs
    BY <1>3, <2>1, Zenon
  <2>3. (a \o b1) \o u = a \o (b1 \o u)
    BY <1>4, <2>1, Zenon
  <2> QED
    BY <2>2, <2>3, Zenon
<1> HIDE DEF a1
<1>9. Opening(t) = a1
  BY <1>2 DEF a1, b1, c1, d1
<1> QED
  BY <1>2, <1>5, <1>6, <1>7, <1>8, <1>9

\* Three texts, one after the other.
LEMMA ThreeTexts ==
  ASSUME NEW V, NEW a \in V, NEW b \in V, NEW c \in V
  PROVE  /\ <<a, b, c>> \in Seq(V)
         /\ <<a, b, c>> = <<a>> \o (<<b>> \o (<<c>> \o <<>>))
<1> DEFINE a1 == <<a>>
           b1 == <<b>>
           c1 == <<c>>
           y  == b1 \o c1
           x  == a1 \o y
           z  == <<a, b, c>>
<1>1. a1 \in Seq(V) /\ b1 \in Seq(V) /\ c1 \in Seq(V) /\ c1 \o <<>> = c1
  BY ConcatEmptySeq
<1>2. /\ Len(a1) = 1 /\ Len(b1) = 1 /\ Len(c1) = 1
      /\ a1[1] = a /\ b1[1] = b /\ c1[1] = c
  OBVIOUS
<1> HIDE DEF a1, b1, c1
<1>3. y \in Seq(V) /\ Len(y) = 2 /\ y[1] = b /\ y[2] = c
  <2>1. /\ y \in Seq(V) /\ Len(y) = 1 + 1
        /\ \A i \in 1 .. 1 + 1 : y[i] = IF i <= 1 THEN b1[i] ELSE c1[i - 1]
    BY <1>1, <1>2, ConcatProperties
  <2> HIDE DEF y
  <2>2. y[1] = b1[1]
    BY <2>1
  <2>3. y[2] = c1[1]
    <3>1. y[2] = c1[2 - 1]
      BY <2>1
    <3> QED
      BY <3>1
  <2> QED
    BY <1>2, <2>1, <2>2, <2>3
<1> HIDE DEF y
<1>4. x \in Seq(V) /\ Len(x) = 3 /\ x[1] = a /\ x[2] = b /\ x[3] = c
  <2>1. /\ x \in Seq(V) /\ Len(x) = 1 + 2
        /\ \A i \in 1 .. 1 + 2 : x[i] = IF i <= 1 THEN a1[i] ELSE y[i - 1]
    <3>1. a1 \in Seq(V) /\ y \in Seq(V) /\ Len(a1) = 1 /\ Len(y) = 2
      BY <1>1, <1>2, <1>3
    <3> QED
      BY ONLY <3>1, ConcatProperties
  <2> HIDE DEF x
  <2>2. x[1] = a1[1]
    BY <2>1
  <2>3. x[2] = y[1] /\ x[3] = y[2]
    <3>1. x[2] = y[2 - 1] /\ x[3] = y[3 - 1]
      BY <2>1
    <3> QED
      BY <3>1
  <2> QED
    BY <1>2, <1>3, <2>1, <2>2, <2>3
<1>5. z \in Seq(V) /\ Len(z) = 3 /\ z[1] = a /\ z[2] = b /\ z[3] = c
  OBVIOUS
<1> HIDE DEF x, z
<1>6. \A i \in 1 .. 3 : i = 1 \/ i = 2 \/ i = 3
  OBVIOUS
<1>7. \A i \in 1 .. 3 : x[i] = z[i]
  BY <1>4, <1>5, <1>6
<1>8. x = z
  BY <1>4, <1>5, <1>7, SeqEqual
<1> QED
  BY <1>1, <1>5, <1>8 DEF x, y, z, a1, b1, c1

\* A text that starts as the wrap does.
LEMMA OpeningRead ==
  ASSUME NEW w \in Seq(Symbols), Len(w) >= 7,
         w[1] = "SELECT", w[2] \in Blanks, w[3] = "*", w[4] \in Blanks, w[5] = "FROM",
         w[6] \in Blanks, w[7] = "("
  PROVE  TextsFrom(w)[1] = Opening(TextsFrom(w)[8])
<1>1. /\ 1 \in 1 .. Len(w) /\ 2 \in 1 .. Len(w) /\ 3 \in 1 .. Len(w) /\ 4 \in 1 .. Len(w)
      /\ 5 \in 1 .. Len(w) /\ 6 \in 1 .. Len(w) /\ 7 \in 1 .. Len(w)
  OBVIOUS
<1>2. /\ 1 + 1 = 2 /\ 2 + 1 = 3 /\ 3 + 1 = 4 /\ 4 + 1 = 5 /\ 5 + 1 = 6 /\ 6 + 1 = 7
      /\ 7 + 1 = 8
  OBVIOUS
<1>3. w[1] \in Words /\ w[2] \notin Words /\ w[5] \in Words /\ w[6] \notin Words
  BY DEF Words, Blanks
<1>4. /\ TextsFrom(w)[1] = <<<<w[1]>>>> \o TextsFrom(w)[1 + 1]
      /\ TextsFrom(w)[5] = <<<<w[5]>>>> \o TextsFrom(w)[5 + 1]
  BY <1>1, <1>2, <1>3, SymbolRead
<1>5. /\ TextsFrom(w)[3] = <<<<w[3]>>>> \o TextsFrom(w)[3 + 1]
      /\ TextsFrom(w)[7] = <<<<w[7]>>>> \o TextsFrom(w)[7 + 1]
  BY <1>1, SymbolRead
<1>6. /\ TextsFrom(w)[2] = TextsFrom(w)[2 + 1] /\ TextsFrom(w)[4] = TextsFrom(w)[4 + 1]
      /\ TextsFrom(w)[6] = TextsFrom(w)[6 + 1]
  BY <1>1, BlankRead
<1> QED
  BY <1>2, <1>4, <1>5, <1>6, Zenon DEF Opening

\* A text that ends as the wrap does.
LEMMA ClosingRead ==
  ASSUME NEW w \in Seq(Symbols), NEW g \in Nat \ {0}, Len(w) = g + 5,
         w[g] \in Blanks, w[g + 1] = ")", w[g + 2] \in Blanks, w[g + 3] = "LIMIT",
         w[g + 4] \in Blanks, w[g + 5] = "n"
  PROVE  TextsFrom(w)[g] = Closing
<1>1. /\ g \in 1 .. Len(w) /\ g + 1 \in 1 .. Len(w) /\ g + 2 \in 1 .. Len(w)
      /\ g + 3 \in 1 .. Len(w) /\ g + 4 \in 1 .. Len(w) /\ g + 5 \in 1 .. Len(w)
      /\ g + 5 + 1 = Len(w) + 1 /\ ~(g + 5 < Len(w)) /\ g + 3 + 1 = g + 4
      /\ g + 1 + 1 = g + 2 /\ g + 2 + 1 = g + 3 /\ g + 4 + 1 = g + 5
  OBVIOUS
<1>2. w[g] \in Blanks /\ w[g + 2] \in Blanks /\ w[g + 4] \in Blanks
  OBVIOUS
<1>3. w[g + 3] \in Words /\ w[g + 4] \notin Words /\ w[g + 5] \in Words
  BY DEF Words, Blanks
<1>4. TextsFrom(w)[g] = TextsFrom(w)[g + 1]
  BY <1>1, <1>2, BlankRead
<1>5. TextsFrom(w)[g + 1] = <<<<")">>>> \o TextsFrom(w)[g + 2]
  <2>1. TextsFrom(w)[g + 1] = <<<<w[g + 1]>>>> \o TextsFrom(w)[g + 1 + 1]
    BY <1>1, SymbolRead
  <2> QED
    BY <1>1, <2>1
<1>6. TextsFrom(w)[g + 2] = TextsFrom(w)[g + 3]
  <2>1. TextsFrom(w)[g + 2] = TextsFrom(w)[g + 2 + 1]
    BY <1>1, <1>2, BlankRead
  <2> QED
    BY <1>1, <2>1
<1>7. TextsFrom(w)[g + 3] = <<<<"LIMIT">>>> \o TextsFrom(w)[g + 4]
  <2>1. TextsFrom(w)[g + 3] = <<<<w[g + 3]>>>> \o TextsFrom(w)[g + 3 + 1]
    BY <1>1, <1>3, SymbolRead
  <2> QED
    BY <1>1, <2>1
<1>8. TextsFrom(w)[g + 4] = TextsFrom(w)[g + 5]
  <2>1. TextsFrom(w)[g + 4] = TextsFrom(w)[g + 4 + 1]
    BY <1>1, <1>2, BlankRead
  <2> QED
    BY <1>1, <2>1
<1>9. TextsFrom(w)[g + 5] = <<<<"n">>>> \o TextsFrom(w)[g + 5 + 1]
  BY <1>1, <1>3, SymbolRead
<1>10. TextsFrom(w)[g + 5 + 1] = <<>>
  BY <1>1, TextsFacts
<1> QED
  <2>1. Closing = <<<<")">>>> \o (<<<<"LIMIT">>>> \o (<<<<"n">>>> \o <<>>))
    <3>1. <<")">> \in Seq(Symbols) /\ <<"LIMIT">> \in Seq(Symbols) /\ <<"n">> \in Seq(Symbols)
      BY WrapWords
    <3> DEFINE a == <<")">>
               b == <<"LIMIT">>
               c == <<"n">>
    <3> DEFINE V == Seq(Symbols)
    <3>2. a \in V /\ b \in V /\ c \in V
      BY <3>1
    <3>3. Closing = <<a, b, c>>
      BY DEF Closing
    <3> HIDE DEF a, b, c, V
    <3>4. <<a, b, c>> = <<a>> \o (<<b>> \o (<<c>> \o <<>>))
      BY ONLY <3>2, ThreeTexts
    <3>5. Closing = <<a>> \o (<<b>> \o (<<c>> \o <<>>))
      BY <3>3, <3>4
    <3> QED
      BY <3>5 DEF a, b, c
  <2> QED
    BY <1>4, <1>5, <1>6, <1>7, <1>8, <1>9, <1>10, <2>1

\* Leading blanks are passed over.
LEMMA LeadingBlanks ==
  ASSUME NEW s \in Seq(Symbols), NEW p \in Nat, p + 1 <= Len(s),
         \A i \in 1 .. p : s[i] \in Blanks
  PROVE  p + 1 \in Places(s)[1] /\ Texts(s) = TextsFrom(s)[p + 1]
<1> DEFINE P == {i \in 1 .. p + 1 : i \in Places(s)[1] /\ TextsFrom(s)[1] = TextsFrom(s)[i]}
<1>1. Len(s) \in Nat /\ 1 \in 1 .. Len(s) /\ 1 \in 1 .. p + 1 /\ p + 1 \in 1 .. p + 1
  OBVIOUS
<1>2. 1 \in P
  BY <1>1, PlacesRange
<1>3. \A i \in 1 .. p + 1 : i \in P /\ i < p + 1 => i + 1 \in P
  <2> TAKE i \in 1 .. p + 1
  <2> SUFFICES ASSUME i \in P, i < p + 1 PROVE i + 1 \in P
    OBVIOUS
  <2>1. i \in 1 .. p /\ i \in 1 .. Len(s) /\ i + 1 <= Len(s) /\ i + 1 \in 1 .. p + 1
    BY <1>1
  <2>2. After(s, i) = i + 1 /\ TextsFrom(s)[i] = TextsFrom(s)[i + 1]
    BY <2>1, BlankRead
  <2>3. i + 1 \in Places(s)[1]
    BY <2>1, <2>2, PlacesClosed
  <2> QED
    BY <2>1, <2>2, <2>3
<1>4. p + 1 \in P
  <2> HIDE DEF P
  <2>1. 1 \in Nat /\ p + 1 \in Nat
    OBVIOUS
  <2> QED
    BY <1>1, <1>2, <1>3, <2>1, Along
<1> QED
  BY <1>4 DEF Texts

\* The last text and those before it.
LEMMA FrontAndLast ==
  ASSUME NEW V, NEW T \in Seq(V), NEW x \in V
  PROVE  T \o <<x>> # <<>> /\ Last(T \o <<x>>) = x /\ Front(T \o <<x>>) = T
<1> DEFINE x1 == <<x>>
           y  == T \o x1
<1>1. x1 \in Seq(V) /\ Len(x1) = 1 /\ x1[1] = x
  OBVIOUS
<1> HIDE DEF x1
<1>2. /\ y \in Seq(V) /\ Len(y) = Len(T) + 1 /\ Len(T) \in Nat
      /\ \A i \in 1 .. Len(T) + 1 : y[i] = IF i <= Len(T) THEN T[i] ELSE x1[i - Len(T)]
  <2>1. T \in Seq(V) /\ Len(T) \in Nat /\ x1 \in Seq(V) /\ Len(x1) = 1
    BY <1>1
  <2>2. /\ y \in Seq(V) /\ Len(y) = Len(T) + Len(x1)
        /\ \A i \in 1 .. Len(T) + Len(x1) :
             y[i] = IF i <= Len(T) THEN T[i] ELSE x1[i - Len(T)]
    BY ONLY <2>1, ConcatProperties DEF y
  <2> HIDE DEF y
  <2> QED
    BY <2>1, <2>2
<1> HIDE DEF y
<1>3. y[Len(T) + 1] = x
  <2>1. /\ Len(T) + 1 \in 1 .. Len(T) + 1 /\ ~(Len(T) + 1 <= Len(T))
        /\ Len(T) + 1 - Len(T) = 1
    BY <1>2
  <2> QED
    BY <1>1, <1>2, <2>1
<1>4. Last(y) = x
  BY <1>2, <1>3 DEF Last
<1>5. y # <<>>
  <2>1. Len(<<>>) = 0 /\ Len(T) + 1 # 0
    BY <1>2
  <2> QED
    BY <1>2, <2>1
<1>6. Front(y) = T
  <2> DEFINE f == SubSeq(y, 1, Len(y) - 1)
  <2>1. /\ 1 \in Int /\ Len(y) - 1 = Len(T) /\ Len(T) \in Int
        /\ \A i \in 1 .. Len(T) : y[i] \in V
    BY <1>2
  <2>2. /\ f \in Seq(V) /\ Len(f) = IF 1 <= Len(T) THEN Len(T) - 1 + 1 ELSE 0
        /\ \A i \in 1 .. Len(T) - 1 + 1 : f[i] = y[1 + i - 1]
    BY <2>1, SubSeqProperties
  <2> HIDE DEF f
  <2>3. Len(f) = Len(T)
    BY <1>2, <2>2
  <2>4. \A i \in 1 .. Len(T) : f[i] = T[i]
    <3> TAKE i \in 1 .. Len(T)
    <3>1. i \in 1 .. Len(T) - 1 + 1 /\ 1 + i - 1 = i /\ i \in 1 .. Len(T) + 1 /\ i <= Len(T)
      BY <1>2
    <3> QED
      BY <1>2, <2>2, <3>1
  <2>5. f = T
    BY <2>2, <2>3, <2>4, SeqEqual
  <2> QED
    BY <2>5, Zenon DEF Front, f
<1> QED
  BY <1>4, <1>5, <1>6 DEF y, x1

\* The symbols the wrap puts before the query, and after it.
Before == <<"SELECT", Space, "*", Space, "FROM", Space, "(">>
Behind == <<"\n", ")", Space, "LIMIT", Space, "n">>

LEMMA WrapSymbols ==
  /\ Before \in Seq(Symbols) /\ Len(Before) = 7 /\ Behind \in Seq(Symbols) /\ Len(Behind) = 6
  /\ Before[1] = "SELECT" /\ Before[2] \in Blanks /\ Before[3] = "*" /\ Before[4] \in Blanks
  /\ Before[5] = "FROM" /\ Before[6] \in Blanks /\ Before[7] = "("
  /\ Behind[1] = "\n" /\ Behind[2] = ")" /\ Behind[3] \in Blanks /\ Behind[4] = "LIMIT"
  /\ Behind[5] \in Blanks /\ Behind[6] = "n"
<1>1. Space \in Blanks
  BY Zenon DEF Space, Blanks
<1>2. /\ "SELECT" \in Symbols /\ "*" \in Symbols /\ "FROM" \in Symbols /\ "(" \in Symbols
      /\ "\n" \in Symbols /\ ")" \in Symbols /\ "LIMIT" \in Symbols /\ "n" \in Symbols
  BY Zenon DEF Symbols, Blanks, Words, Signs
<1>3. Space \in Symbols
  BY <1>1 DEF Symbols
<1> HIDE DEF Symbols
<1> QED
  BY <1>1, <1>2, <1>3 DEF Before, Behind

\* The wrapped text, place by place.
LEMMA BoundIsShared ==
  ASSUME NEW s \in Seq(Symbols), canBound(s), NEW p \in Nat, NEW n \in Nat,
         Cut(s, TrimSpace(TrimTail(TrimSpace(s))), p, n), Kept(s, p, n)
  PROVE  LET w == Bound(s)
         IN /\ Shared(s, p, w, 7, n) /\ Len(w) = n + 8 + 5
            /\ \A i \in 1 .. 7 : w[i] = Before[i]
            /\ \A i \in 1 .. 6 : w[n + 7 + i] = Behind[i]
<1> DEFINE u == TrimSpace(TrimTail(TrimSpace(s)))
           h == Before \o u
           w == h \o Behind
<1>1. Bound(s) = w
  BY Zenon DEF Bound, Prefix, Before, Behind
<1>2. /\ u \in Seq(Symbols) /\ Len(u) = n /\ p + n <= Len(s) /\ Len(s) \in Nat
      /\ \A j \in 1 .. n : u[j] = s[p + j]
  BY DEF Cut
<1> HIDE DEF u
<1>3. /\ h \in Seq(Symbols) /\ Len(h) = 7 + n
      /\ \A i \in 1 .. 7 + n : h[i] = IF i <= 7 THEN Before[i] ELSE u[i - 7]
  <2>1. /\ Before \in Seq(Symbols) /\ Len(Before) = 7
    BY WrapSymbols
  <2>2. /\ Before \o u \in Seq(Symbols) /\ Len(Before \o u) = Len(Before) + Len(u)
        /\ \A i \in 1 .. Len(Before) + Len(u) :
             (Before \o u)[i] = IF i <= Len(Before) THEN Before[i] ELSE u[i - Len(Before)]
    <3>1. Before \in Seq(Symbols) /\ u \in Seq(Symbols)
      BY <1>2, <2>1
    <3> QED
      BY ONLY <3>1, ConcatProperties
  <2> QED
    BY <1>2, <2>1, <2>2
<1> HIDE DEF h
<1>4. /\ w \in Seq(Symbols) /\ Len(w) = 7 + n + 6
      /\ \A i \in 1 .. 7 + n + 6 : w[i] = IF i <= 7 + n THEN h[i] ELSE Behind[i - (7 + n)]
  <2>1. /\ Behind \in Seq(Symbols) /\ Len(Behind) = 6
    BY WrapSymbols
  <2>2. /\ h \o Behind \in Seq(Symbols) /\ Len(h \o Behind) = Len(h) + Len(Behind)
        /\ \A i \in 1 .. Len(h) + Len(Behind) :
             (h \o Behind)[i] = IF i <= Len(h) THEN h[i] ELSE Behind[i - Len(h)]
    BY <1>3, <2>1, ConcatProperties, Zenon
  <2> QED
    BY <1>3, <2>1, <2>2
<1> HIDE DEF w
<1>5. \A i \in 1 .. 7 : w[i] = Before[i]
  <2> TAKE i \in 1 .. 7
  <2>1. i \in 1 .. 7 + n + 6 /\ i <= 7 + n /\ i \in 1 .. 7 + n /\ i <= 7
    OBVIOUS
  <2> QED
    BY <1>3, <1>4, <2>1
<1>6. \A i \in 1 .. 6 : w[n + 7 + i] = Behind[i]
  <2> TAKE i \in 1 .. 6
  <2>1. /\ n + 7 + i \in 1 .. 7 + n + 6 /\ ~(n + 7 + i <= 7 + n)
        /\ n + 7 + i - (7 + n) = i
    OBVIOUS
  <2> QED
    BY <1>4, <2>1
<1>7. \A j \in 1 .. n : s[p + j] = w[7 + j]
  <2> TAKE j \in 1 .. n
  <2>1. /\ 7 + j \in 1 .. 7 + n + 6 /\ 7 + j <= 7 + n /\ 7 + j \in 1 .. 7 + n
        /\ ~(7 + j <= 7) /\ 7 + j - 7 = j
    OBVIOUS
  <2>2. w[7 + j] = u[j]
    BY <1>3, <1>4, <2>1
  <2> QED
    BY <1>2, <2>2
<1>8. w[7 + n + 1] = "\n"
  <2>1. 1 \in 1 .. 6 /\ n + 7 + 1 = 7 + n + 1
    OBVIOUS
  <2>2. w[n + 7 + 1] = Behind[1]
    BY <1>6, <2>1
  <2> QED
    BY <2>1, <2>2, WrapSymbols
<1>9. 7 \in Nat /\ 7 + n + 1 <= Len(w) /\ Len(w) = n + 8 + 5
  BY <1>4
<1>10. \A k \in p + n + 1 .. Len(s) : s[k] \in Blanks \cup {Separator}
  BY DEF Kept
<1>11. Shared(s, p, w, 7, n)
  BY <1>2, <1>4, <1>7, <1>8, <1>9, <1>10 DEF Shared
<1> QED
  BY <1>1, <1>5, <1>6, <1>9, <1>11

\* The wrap changes nothing of the query.
LEMMA WrapReads ==
  ASSUME NEW s \in Seq(Symbols), canBound(s), ~ContainsMultipleStatements(s), Complete(s),
         KnownLexemes(s)
  PROVE  LET ts   == Texts(s)
             body == IF ts # <<>> /\ Last(ts) = <<Separator>> THEN Front(ts) ELSE ts
         IN Texts(Bound(s)) = Texts(Prefix(<<>>)) \o body \o Closing
<1> DEFINE w  == Bound(s)
           ts == Texts(s)
           u  == TrimSpace(TrimTail(TrimSpace(s)))
<1>1. PICK k \in 1 .. Len(s) : s[k] \notin Blanks \cup {Separator}
  <2>1. PICK k \in 1 .. Len(s) : s[k] = "SELECT"
    BY SelectStands
  <2>2. "SELECT" \in Words
    BY DEF Words
  <2>3. s[k] \notin Blanks \cup {Separator}
    BY <2>1, <2>2, OneKind, SeparatorFacts
  <2> QED
    BY <2>1, <2>3
<1>2. PICK p \in Nat, n \in Nat : Cut(s, u, p, n) /\ Kept(s, p, n)
  BY <1>1, BoundKeeps
<1>3. /\ Shared(s, p, w, 7, n) /\ Len(w) = n + 8 + 5
      /\ \A i \in 1 .. 7 : w[i] = Before[i]
      /\ \A i \in 1 .. 6 : w[n + 7 + i] = Behind[i]
  BY <1>2, BoundIsShared
<1> HIDE DEF w, u
<1>4. /\ n # 0 /\ 1 \in 1 .. n /\ p + 1 <= Len(s) /\ s[p + n] \notin Blanks
      /\ s[p + n] = Separator => \E i \in p + n + 1 .. Len(s) : s[i] \notin Blanks
      /\ \A i \in 1 .. p : s[i] \in Blanks
      /\ w \in Seq(Symbols)
  BY <1>2, <1>3 DEF Kept, Shared
<1>5. p + 1 \in Places(s)[1] /\ ts = TextsFrom(s)[p + 1]
  BY <1>4, LeadingBlanks
<1>6. ReadAlike(s, w, p + 1, 7 + 1, 7 + n + 1)
  BY <1>3, <1>4, <1>5, StretchReadAlike
<1>7. 7 + 1 = 8 /\ 7 + n + 1 = n + 8
  OBVIOUS
<1> HIDE DEF ts
<1>8. PICK T \in TextSeqs, R \in {<<>>, <<End>>} :
        /\ ts = T \o R
        /\ TextsFrom(w)[8] = T \o TextsFrom(w)[n + 8]
        /\ \A i \in 1 .. Len(T) : T[i] # End
  BY <1>5, <1>6, <1>7 DEF ReadAlike
<1>9. TextsFrom(w)[n + 8] = Closing
  <2>1. /\ n + 8 \in Nat \ {0} /\ n + 7 + 1 = n + 8 /\ n + 7 + 2 = n + 8 + 1
        /\ n + 7 + 3 = n + 8 + 2 /\ n + 7 + 4 = n + 8 + 3 /\ n + 7 + 5 = n + 8 + 4
        /\ n + 7 + 6 = n + 8 + 5
    OBVIOUS
  <2>2. /\ w[n + 7 + 1] = Behind[1] /\ w[n + 7 + 2] = Behind[2] /\ w[n + 7 + 3] = Behind[3]
        /\ w[n + 7 + 4] = Behind[4] /\ w[n + 7 + 5] = Behind[5] /\ w[n + 7 + 6] = Behind[6]
    BY <1>3
  <2>3. /\ w[n + 8] \in Blanks /\ w[n + 8 + 1] = ")" /\ w[n + 8 + 2] \in Blanks
        /\ w[n + 8 + 3] = "LIMIT" /\ w[n + 8 + 4] \in Blanks /\ w[n + 8 + 5] = "n"
    BY <2>1, <2>2, WrapSymbols DEF Blanks
  <2> QED
    BY <1>3, <1>4, <2>1, <2>3, ClosingRead
<1>10. Closing \in TextSeqs /\ <<>> \in TextSeqs
  <2>1. \A a, b, c \in Seq(Symbols) : <<a, b, c>> \in Seq(Seq(Symbols))
    BY ThreeTexts
  <2> QED
    BY <2>1, WrapWords, EndTexts DEF Closing, TextSeqs
<1>11. Texts(w) = Opening(T \o Closing)
  <2>1. /\ w[1] = "SELECT" /\ w[2] \in Blanks /\ w[3] = "*" /\ w[4] \in Blanks
        /\ w[5] = "FROM" /\ w[6] \in Blanks /\ w[7] = "(" /\ Len(w) >= 7
    BY <1>3, WrapSymbols
  <2>2. TextsFrom(w)[1] = Opening(TextsFrom(w)[8])
    BY <1>4, <2>1, OpeningRead
  <2> QED
    BY <1>8, <1>9, <2>2, Zenon DEF Texts
<1>12. Texts(Prefix(<<>>)) = Opening(<<>>)
  <2>1. Prefix(<<>>) = Before
    <3>1. Prefix(<<>>) = Before \o <<>>
      BY Zenon DEF Prefix, Before
    <3>2. Before \in Seq(Symbols)
      BY WrapSymbols
    <3> QED
      BY ONLY <3>1, <3>2, ConcatEmptySeq
  <2>2. TextsFrom(Before)[1] = Opening(TextsFrom(Before)[8])
    <3>1. Len(Before) >= 7
      BY WrapSymbols
    <3> QED
      BY <3>1, WrapSymbols, OpeningRead, Zenon
  <2>3. TextsFrom(Before)[8] = <<>>
    <3>1. Before \in Seq(Symbols) /\ Len(Before) = 7
      BY WrapSymbols
    <3>2. TextsFrom(Before)[Len(Before) + 1] = <<>>
      BY <3>1, TextsFacts
    <3>3. Len(Before) + 1 = 8
      BY <3>1
    <3> QED
      BY <3>2, <3>3
  <2> QED
    BY <2>1, <2>2, <2>3 DEF Texts
<1>13. Texts(w) = Texts(Prefix(<<>>)) \o T \o Closing
  <2>1. Opening(T \o Closing) = Opening(T) \o Closing
    BY <1>10, OpeningFacts
  <2>2. Opening(<<>> \o T) = Opening(<<>>) \o T /\ <<>> \o T = T
    BY <1>10, OpeningFacts, ConcatEmptySeq DEF TextSeqs
  <2> QED
    BY <1>11, <1>12, <2>1, <2>2
<1>14. T = IF ts # <<>> /\ Last(ts) = End THEN Front(ts) ELSE ts
  <2>1. CASE R = <<End>>
    <3>1. End \in Seq(Symbols) /\ T \in Seq(Seq(Symbols))
      BY EndTexts DEF TextSeqs
    <3> HIDE DEF End
    <3>2. ts # <<>> /\ Last(ts) = End /\ Front(ts) = T
      BY <1>8, <2>1, <3>1, FrontAndLast
    <3> QED
      BY <3>2
  <2>2. CASE R = <<>>
    <3>1. ts = T
      BY <1>8, <2>2, ConcatEmptySeq DEF TextSeqs
    <3>2. T # <<>> => Last(T) # End
      <4> SUFFICES ASSUME T # <<>> PROVE Last(T) # End
        OBVIOUS
      <4>1. Len(T) \in Nat \ {0}
        BY EmptySeq DEF TextSeqs
      <4>2. Len(T) \in 1 .. Len(T)
        BY <4>1
      <4> QED
        BY <1>8, <4>2 DEF Last
    <3> QED
      BY <3>1, <3>2
  <2> QED
    BY <2>1, <2>2
<1>15. Texts(w) = Texts(Prefix(<<>>))
                    \o (IF ts # <<>> /\ Last(ts) = End THEN Front(ts) ELSE ts) \o Closing
  BY <1>13, <1>14
<1> QED
  BY <1>15, Zenon DEF w, ts, End

\* The server reads the same tokens between the wrap's, whatever the query ends in (Bound in
\* internal/query/result.go).
THEOREM WrapIsTransparent == Spec => []WrapKeepsTheQuery
<1>1. TypeOK => WrapKeepsTheQuery
  <2> SUFFICES ASSUME TypeOK, canBound(sql), ~ContainsMultipleStatements(sql), Complete(sql),
                      KnownLexemes(sql)
               PROVE  WrapKeepsTheQuery
    BY DEF WrapKeepsTheQuery
  <2>1. sql \in Seq(Symbols)
    BY DEF TypeOK
  <2> QED
    BY <2>1, WrapReads, Zenon DEF WrapKeepsTheQuery, Closing
<1> QED
  BY <1>1, TypeCorrect, PTL

(***************************************************************************)
(* Every symbol stands in one lexeme, or is a blank.                       *)
(***************************************************************************)

LEMMA Covered ==
  ASSUME NEW s \in Seq(Symbols), NEW k \in 1 .. Len(s)
  PROVE  \E c \in Places(s)[1] : c \in 1 .. k /\ k < After(s, c)
<1> DEFINE Inside(m) == \E c \in Places(s)[1] : c \in 1 .. m /\ m < After(s, c)
           P == {m \in 1 .. Len(s) : Inside(m)}
<1>1. Len(s) \in Nat /\ 1 \in 1 .. Len(s) /\ k \in 1 .. Len(s)
  OBVIOUS
<1>2. 1 \in P
  <2>1. 1 \in Places(s)[1] /\ After(s, 1) \in 1 + 1 .. Len(s) + 1
    BY <1>1, PlacesRange, LexemeLast
  <2>2. 1 \in 1 .. 1 /\ 1 < After(s, 1)
    BY <2>1
  <2> QED
    BY <1>1, <2>1, <2>2
<1>3. \A m \in 1 .. Len(s) : m \in P /\ m < Len(s) => m + 1 \in P
  <2> TAKE m \in 1 .. Len(s)
  <2> SUFFICES ASSUME m \in P, m < Len(s) PROVE m + 1 \in P
    OBVIOUS
  <2>1. PICK c \in Places(s)[1] : c \in 1 .. m /\ m < After(s, c)
    OBVIOUS
  <2>2. c \in 1 .. Len(s) /\ After(s, c) \in c + 1 .. Len(s) + 1 /\ m + 1 \in 1 .. Len(s)
    <3>1. c \in 1 .. Len(s)
      BY PlacesAreInside
    <3> QED
      BY <1>1, <3>1, LexemeLast
  <2>3. CASE m + 1 < After(s, c)
    <3>1. c \in 1 .. m + 1
      BY <2>1
    <3> QED
      BY <2>2, <2>3, <3>1
  <2>4. CASE ~(m + 1 < After(s, c))
    <3>1. After(s, c) = m + 1 /\ After(s, c) <= Len(s)
      BY <1>1, <2>1, <2>2, <2>4
    <3>2. m + 1 \in Places(s)[1]
      BY <3>1, PlacesClosed
    <3>3. After(s, m + 1) \in m + 1 + 1 .. Len(s) + 1
      BY <2>2, LexemeLast
    <3>4. m + 1 \in 1 .. m + 1 /\ m + 1 < After(s, m + 1)
      BY <3>3
    <3> QED
      BY <2>2, <3>2, <3>4
  <2> QED
    BY <2>3, <2>4
<1>4. k \in P
  <2> HIDE DEF P
  <2>1. 1 \in Nat /\ Len(s) \in Nat
    OBVIOUS
  <2> QED
    BY <1>1, <1>2, <1>3, <2>1, Along
<1> QED
  BY <1>4

\* No lexeme starts inside another.
LEMMA PlacesApart ==
  ASSUME NEW s \in Seq(Symbols), NEW c \in Places(s)[1], NEW d \in Places(s)[1], c < d
  PROVE  After(s, c) <= d
<1> DEFINE Apart(j) == \A x \in Places(s)[j] : \A y \in Places(s)[j] : x < y => After(s, x) <= y
           P == {j \in 1 .. Len(s) : Apart(j)}
<1>1. Len(s) \in Nat /\ c \in 1 .. Len(s) /\ 1 \in 1 .. Len(s)
  BY PlacesAreInside
<1>2. \A j \in 1 .. Len(s) : (\A h \in 1 .. Len(s) : h > j => h \in P) => j \in P
  <2> TAKE j \in 1 .. Len(s)
  <2> SUFFICES ASSUME \A h \in 1 .. Len(s) : h > j => h \in P,
                      NEW x \in Places(s)[j], NEW y \in Places(s)[j], x < y
               PROVE  After(s, x) <= y
    OBVIOUS
  <2>1. /\ Places(s)[j] = {j} \cup Places(s)[After(s, j)]
        /\ After(s, j) \in j + 1 .. Len(s) + 1
        /\ x \in j .. Len(s) /\ y \in j .. Len(s)
    BY PlacesFacts, LexemeLast, PlacesRange
  <2>2. y # j
    BY <2>1
  <2>3. y \in Places(s)[After(s, j)]
    BY <2>1, <2>2
  <2>4. After(s, j) # Len(s) + 1
    BY <2>3, PlacesFacts
  <2>5. After(s, j) \in 1 .. Len(s) /\ After(s, j) > j
    BY <1>1, <2>1, <2>4
  <2>6. CASE x = j
    <3>1. y \in After(s, j) .. Len(s)
      BY <2>3, <2>5, PlacesRange
    <3> QED
      BY <2>5, <2>6, <3>1
  <2>7. CASE x # j
    <3>1. x \in Places(s)[After(s, j)] /\ Apart(After(s, j))
      BY <2>1, <2>5, <2>7
    <3> QED
      BY <2>3, <3>1
  <2> QED
    BY <2>6, <2>7
<1>3. \A j \in 1 .. Len(s) : j \in P
  <2> HIDE DEF P
  <2> QED
    BY <1>1, <1>2, DownFrom
<1> QED
  BY <1>1, <1>3

\* What stands in a lexeme.
Within(s, c, k) == /\ c \in Places(s)[1] /\ c \in 1 .. Len(s) /\ s[c] \notin Blanks
                   /\ k \in c .. LexemeAt(s, c).last

\* A symbol that is no blank stands in a lexeme.
LEMMA WithinSome ==
  ASSUME NEW s \in Seq(Symbols), NEW k \in 1 .. Len(s), s[k] \notin Blanks
  PROVE  \E c : Within(s, c, k)
<1>1. PICK c \in Places(s)[1] : c \in 1 .. k /\ k < After(s, c)
  BY Covered
<1>2. c \in 1 .. Len(s)
  BY PlacesAreInside
<1>3. s[c] \notin Blanks
  <2> SUFFICES ASSUME s[c] \in Blanks PROVE FALSE
    OBVIOUS
  <2>1. After(s, c) = c + 1
    BY DEF After
  <2>2. c = k
    BY <1>1, <2>1
  <2> QED
    BY <2>2
<1>4. LexemeAt(s, c).last \in c .. Len(s) /\ After(s, c) = LexemeAt(s, c).last + 1
  BY <1>2, <1>3, LexemeLast DEF After
<1>5. k \in c .. LexemeAt(s, c).last
  BY <1>1, <1>4
<1> QED
  BY <1>1, <1>2, <1>3, <1>5 DEF Within

\* It stands in no other.
LEMMA WithinOne ==
  ASSUME NEW s \in Seq(Symbols), NEW c, NEW d, NEW k, Within(s, c, k), Within(s, d, k)
  PROVE  c = d
<1>1. /\ c \in Places(s)[1] /\ d \in Places(s)[1] /\ c \in 1 .. Len(s) /\ d \in 1 .. Len(s)
      /\ s[c] \notin Blanks /\ s[d] \notin Blanks
      /\ k \in c .. LexemeAt(s, c).last /\ k \in d .. LexemeAt(s, d).last
  BY DEF Within
<1>2. /\ After(s, c) = LexemeAt(s, c).last + 1 /\ After(s, d) = LexemeAt(s, d).last + 1
      /\ LexemeAt(s, c).last \in c .. Len(s) /\ LexemeAt(s, d).last \in d .. Len(s)
  BY <1>1, LexemeLast DEF After
<1>3. ~(c < d) /\ ~(d < c)
  <2>1. c < d => After(s, c) <= d
    BY <1>1, PlacesApart
  <2>2. d < c => After(s, d) <= c
    BY <1>1, PlacesApart
  <2> QED
    BY <1>1, <1>2, <2>1, <2>2
<1> QED
  BY <1>1, <1>3

\* Two dashes inside a lexeme.
LEMMA DashesInside ==
  ASSUME NEW s \in Seq(Symbols), NEW c \in 1 .. Len(s), NEW j \in c .. LexemeAt(s, c).last,
         j < LexemeAt(s, c).last, At(s, j, <<"-", "-">>)
  PROVE  \E m \in DOMAIN Lexeme(s, c) : At(Lexeme(s, c), m, <<"-", "-">>)
<1> DEFINE l == LexemeAt(s, c).last
           u == Lexeme(s, c)
<1>1. /\ l \in c .. Len(s) /\ j \in Nat \ {0} /\ c \in Nat \ {0} /\ l \in Nat
      /\ c <= j /\ j < l
  BY LexemeLast
<1>2. s[j] = "-" /\ s[j + 1] = "-"
  BY <1>1, AtTwo
<1>3. /\ u \in Seq(Symbols) /\ Len(u) = l - c + 1
      /\ \A k \in 1 .. l - c + 1 : u[k] = s[c + k - 1]
  BY <1>1, PieceFacts DEF Lexeme
<1> HIDE DEF u, l
<1>4. j - c + 1 \in 1 .. l - c + 1 /\ c + (j - c + 1) - 1 = j
  BY <1>1
<1>5. j - c + 2 \in 1 .. l - c + 1 /\ c + (j - c + 2) - 1 = j + 1
  BY <1>1
<1>6. PICK m \in 1 .. l - c + 1 : m = j - c + 1 /\ c + m - 1 = j
  BY <1>4
<1>7. PICK m2 \in 1 .. l - c + 1 : m2 = j - c + 2 /\ c + m2 - 1 = j + 1
  BY <1>5
<1>8. u[m] = "-" /\ u[m2] = "-"
  BY <1>2, <1>3, <1>6, <1>7
<1>9. m2 = m + 1 /\ m \in Nat \ {0} /\ m + 1 <= Len(u) /\ m \in 1 .. Len(u)
  BY <1>1, <1>3, <1>6, <1>7
<1>10. At(u, m, <<"-", "-">>)
  BY <1>3, <1>8, <1>9, AtTwo
<1>11. DOMAIN u = 1 .. Len(u)
  BY <1>3
<1> QED
  BY <1>9, <1>10, <1>11 DEF u

\* The dash at j starts a comment, or is inside one, when no literal hides it.
LEMMA DashesStand ==
  ASSUME NEW s \in Seq(Symbols), Complete(s), KnownLexemes(s), ~HiddenDashes(s),
         NEW j \in 1 .. Len(s),
         At(s, j, <<"-", "-">>), NEW c, Within(s, c, j)
  PROVE  At(s, c, <<"-", "-">>)
<1> DEFINE l == LexemeAt(s, c).last
<1>1. /\ c \in 1 .. Len(s) /\ c \in Starts(s) /\ j \in c .. l /\ l \in c .. Len(s)
      /\ s[c] \notin Blanks
  BY LexemeLast DEF Within, Starts
<1>2. s[j] = "-" /\ j \in Nat \ {0}
  BY AtTwo
<1>3. Kind(s, c) # "broken"
  BY <1>1 DEF Complete
<1>4. ASSUME j # l, Kind(s, c) = "literal" \/ s[c] = "/" PROVE FALSE
  <2>1. j < l
    BY <1>1, <1>4
  <2>2. \E m \in DOMAIN Lexeme(s, c) : At(Lexeme(s, c), m, <<"-", "-">>)
    BY <1>1, <2>1, DashesInside
  <2> QED
    BY <1>1, <1>4, <2>2 DEF HiddenDashes
<1>5. s[c] \notin Words
  <2> SUFFICES ASSUME s[c] \in Words PROVE FALSE
    OBVIOUS
  <2>1. s[j] \in Words
    BY <1>1, WordLexeme
  <2> QED
    BY <1>2, <2>1 DEF Words
<1>6. s[c] \notin Quotes
  <2> SUFFICES ASSUME s[c] \in Quotes PROVE FALSE
    OBVIOUS
  <2>1. Kind(s, c) = "literal" /\ l \in LiteralEnds(s, c)
    BY <1>1, <1>3, QuoteLexeme DEF Openers
  <2>2. s[l] = s[c]
    BY <2>1 DEF LiteralEnds
  <2>3. j # l
    BY <1>2, <2>2 DEF Quotes
  <2> QED
    BY <1>4, <2>1, <2>3
<1>7. ~At(s, c, <<"/", "*">>)
  <2> SUFFICES ASSUME At(s, c, <<"/", "*">>) PROVE FALSE
    OBVIOUS
  <2>1. PICK e \in CommentEnds(s, c) : e \in c + 2 .. Len(s) - 1 /\ l = e + 1 /\ s[c] = "/"
    BY <1>1, <1>3, BlockLexeme
  <2>2. At(s, e, <<"*", "/">>) /\ e \in Nat \ {0}
    BY <1>1, <2>1 DEF CommentEnds
  <2>3. s[l] = "/"
    BY <2>1, <2>2, AtTwo
  <2>4. j # l
    BY <1>2, <2>3
  <2> QED
    BY <1>4, <2>1, <2>4
<1> QED
  <2> SUFFICES ASSUME ~At(s, c, <<"-", "-">>) PROVE FALSE
    OBVIOUS
  <2>1. l = c
    BY <1>1, <1>5, <1>6, <1>7, SignLexeme DEF Openers, LineComment, KnownLexemes, Foreign
  <2>2. j = c
    BY <1>1, <2>1
  <2> QED
    BY <2>2

\* What is dropped stands in a comment of two dashes, and such a comment is dropped.
LEMMA DroppedIsComment ==
  ASSUME NEW s \in Seq(Symbols), Complete(s), KnownLexemes(s), ~HiddenDashes(s),
         NEW k \in 1 .. Len(s),
         Dropped(s, k)
  PROVE  \E c : Within(s, c, k) /\ At(s, c, <<"-", "-">>)
<1>1. PICK j \in 1 .. k : At(s, j, <<"-", "-">>) /\ \A h \in j .. k : s[h] # "\n"
  BY DEF Dropped
<1>2. j \in 1 .. Len(s) /\ j \in Nat \ {0} /\ s[j] = "-"
  <2>1. j \in 1 .. Len(s) /\ j \in Nat \ {0}
    OBVIOUS
  <2> QED
    BY <1>1, <2>1, AtTwo
<1>3. s[j] \notin Blanks
  BY <1>2 DEF Blanks
<1>4. PICK c : Within(s, c, j)
  BY <1>2, <1>3, WithinSome
<1>5. At(s, c, <<"-", "-">>)
  BY <1>1, <1>2, <1>4, DashesStand
<1> DEFINE l == LexemeAt(s, c).last
<1>6. /\ c \in Places(s)[1] /\ c \in 1 .. Len(s) /\ s[c] \notin Blanks
      /\ j \in c .. l
  BY <1>4 DEF Within
<1>7. l \in c .. Len(s) /\ (l < Len(s) => s[l + 1] = "\n")
  BY <1>5, <1>6, LineLexeme, LexemeLast DEF LineComment
<1>8. ~(l < k)
  <2> SUFFICES ASSUME l < k PROVE FALSE
    OBVIOUS
  <2>1. l + 1 \in j .. k /\ l < Len(s)
    BY <1>6, <1>7
  <2> QED
    BY <1>1, <1>7, <2>1
<1>9. k \in c .. l
  BY <1>6, <1>7, <1>8
<1> QED
  BY <1>5, <1>6, <1>9 DEF Within

LEMMA CommentIsDropped ==
  ASSUME NEW s \in Seq(Symbols), NEW k, NEW c, Within(s, c, k), At(s, c, <<"-", "-">>)
  PROVE  Dropped(s, k)
<1>1. c \in 1 .. Len(s) /\ k \in c .. LexemeAt(s, c).last
  BY DEF Within
<1>2. \A h \in c .. LexemeAt(s, c).last : s[h] # "\n"
  BY <1>1, LineLexeme DEF LineComment
<1>3. LexemeAt(s, c).last \in c .. Len(s)
  BY <1>1, LexemeLast
<1>4. c \in 1 .. k /\ \A h \in c .. k : s[h] # "\n"
  BY <1>1, <1>2, <1>3
<1> QED
  BY <1>4 DEF Dropped

\* What stands in another lexeme is kept.
LEMMA OthersAreKept ==
  ASSUME NEW s \in Seq(Symbols), Complete(s), KnownLexemes(s), ~HiddenDashes(s),
         NEW k, NEW c,
         Within(s, c, k), ~At(s, c, <<"-", "-">>)
  PROVE  k \in 1 .. Len(s) /\ ~Dropped(s, k)
<1>1. c \in 1 .. Len(s) /\ k \in c .. LexemeAt(s, c).last
  BY DEF Within
<1>2. LexemeAt(s, c).last \in c .. Len(s)
  BY <1>1, LexemeLast
<1>3. k \in 1 .. Len(s)
  BY <1>1, <1>2
<1>4. ASSUME Dropped(s, k) PROVE FALSE
  <2>1. PICK d : Within(s, d, k) /\ At(s, d, <<"-", "-">>)
    BY <1>3, <1>4, DroppedIsComment
  <2>2. c = d
    BY <2>1, WithinOne
  <2> QED
    BY <2>1, <2>2
<1> QED
  BY <1>3, <1>4

(***************************************************************************)
(* What stripLineComments keeps, and where it stood.                       *)
(***************************************************************************)
LEMMA RemainsFacts ==
  ASSUME NEW s \in Seq(Symbols)
  PROVE  /\ Remains(s)[0] = <<>>
         /\ \A i \in 1 .. Len(s) :
              Remains(s)[i] = IF Dropped(s, i) THEN Remains(s)[i - 1]
                              ELSE Append(Remains(s)[i - 1], s[i])
<1> DEFINE D == 0 .. Len(s)
           V == Seq(Symbols)
           Body(f) == [i \in D |-> IF i = 0 THEN <<>>
                                   ELSE IF Dropped(s, i) THEN f[i - 1]
                                   ELSE Append(f[i - 1], s[i])]
<1>1. Len(s) \in Nat /\ <<>> \in V
  OBVIOUS
<1>2. \E f \in [D -> V] : f = Body(f)
  <2> DEFINE More(i, t) == IF i = 0 THEN <<>> ELSE IF Dropped(s, i) THEN t ELSE Append(t, s[i])
             rank == [i \in D |-> i]
             prev == [i \in D |-> IF i = 0 THEN 0 ELSE i - 1]
             base == [i \in D |-> <<>>]
             step == [i \in D |-> [t \in V |-> More(i, t)]]
  <2>1. Ranked(D, V, Len(s), rank, prev, base, step)
    <3>1. /\ rank \in [D -> 0 .. Len(s)] /\ prev \in [D -> D] /\ base \in [D -> V]
          /\ \A i \in D : rank[i] # 0 => rank[prev[i]] < rank[i]
      BY <1>1
    <3>2. \A i \in D, t \in V : More(i, t) \in V
      <4> TAKE i \in D, t \in V
      <4>1. i # 0 => s[i] \in Symbols
        OBVIOUS
      <4>2. i # 0 => Append(t, s[i]) \in V
        BY <4>1, AppendProperties
      <4> QED
        BY <4>2
    <3>3. step \in [D -> [V -> V]]
      <4> HIDE DEF More, V, D
      <4> QED
        BY <3>2
    <3> QED
      BY <1>1, <3>1, <3>3 DEF Ranked
  <2>2. PICK f : Recursive(f, D, V, rank, prev, base, step)
    <3> HIDE DEF rank, prev, base, step, D, V
    <3> QED
      BY <2>1, Recursion
  <2>3. /\ f \in [D -> V]
        /\ \A i \in D : f[i] = IF rank[i] = 0 THEN base[i] ELSE step[i][f[prev[i]]]
    BY <2>2 DEF Recursive
  <2>4. \A i \in D : f[i] = More(i, f[i - 1])
    <3> TAKE i \in D
    <3>1. CASE i = 0
      BY <2>3, <3>1
    <3>2. CASE i # 0
      <4>1. i - 1 \in D /\ prev[i] = i - 1 /\ rank[i] # 0
        BY <1>1, <3>2
      <4>2. f[i - 1] \in V
        BY <2>3, <4>1
      <4>3. step[i][f[i - 1]] = More(i, f[i - 1])
        <5> HIDE DEF More, V, D
        <5> QED
          BY <4>2
      <4>4. f[i] = More(i, f[i - 1])
        <5> HIDE DEF More, V, D, rank, prev, base, step
        <5> QED
          BY <2>3, <4>1, <4>3
      <4> QED
        BY <4>4
    <3> QED
      BY <3>1, <3>2
  <2>5. f = [i \in D |-> More(i, f[i - 1])]
    <3> HIDE DEF V, More, D
    <3> QED
      BY <2>3, <2>4
  <2> QED
    BY <2>3, <2>5, Zenon
<1>3. Remains(s) = CHOOSE f : f = Body(f)
  BY Zenon DEF Remains
<1>4. Remains(s) = Body(Remains(s))
  BY <1>2, <1>3, Zenon
<1>5. \A i \in D : Remains(s)[i] = IF i = 0 THEN <<>>
                                   ELSE IF Dropped(s, i) THEN Remains(s)[i - 1]
                                   ELSE Append(Remains(s)[i - 1], s[i])
  <2> DEFINE g == Remains(s)
  <2>1. g = Body(g)
    BY <1>4
  <2> HIDE DEF g
  <2> QED
    BY <2>1 DEF g
<1>6. 0 \in D /\ \A i \in 1 .. Len(s) : i \in D /\ i # 0
  BY <1>1
<1> HIDE DEF D
<1> QED
  BY <1>5, <1>6

\* t is what was kept of the first i symbols, and at says where each stood.
Picks(s, i, t, at) ==
  /\ t \in Seq(Symbols) /\ at \in [1 .. Len(t) -> 1 .. i]
  /\ \A x \in 1 .. Len(t) : t[x] = s[at[x]] /\ ~Dropped(s, at[x])
  /\ \A x, y \in 1 .. Len(t) : x < y => at[x] < at[y]
  /\ \A k \in 1 .. i : ~Dropped(s, k) => \E x \in 1 .. Len(t) : at[x] = k

LEMMA PicksSkip ==
  ASSUME NEW s \in Seq(Symbols), NEW i \in Nat, NEW t, NEW at, Picks(s, i, t, at),
         Dropped(s, i + 1)
  PROVE  Picks(s, i + 1, t, at)
<1>1. at \in [1 .. Len(t) -> 1 .. i + 1]
  <2>1. 1 .. i \subseteq 1 .. i + 1
    OBVIOUS
  <2> QED
    BY <2>1 DEF Picks
<1>2. \A k \in 1 .. i + 1 : ~Dropped(s, k) => \E x \in 1 .. Len(t) : at[x] = k
  <2> TAKE k \in 1 .. i + 1
  <2>1. k = i + 1 \/ k \in 1 .. i
    OBVIOUS
  <2> QED
    BY <2>1 DEF Picks
<1> QED
  BY <1>1, <1>2 DEF Picks

LEMMA PicksMore ==
  ASSUME NEW s \in Seq(Symbols), NEW i \in Nat, i + 1 <= Len(s),
         NEW t, NEW at, Picks(s, i, t, at), ~Dropped(s, i + 1)
  PROVE  \E more : Picks(s, i + 1, Append(t, s[i + 1]), more)
<1> DEFINE n == Len(t)
           u == Append(t, s[i + 1])
           more == [x \in 1 .. n + 1 |-> IF x = n + 1 THEN i + 1 ELSE at[x]]
<1>1. /\ t \in Seq(Symbols) /\ n \in Nat /\ s[i + 1] \in Symbols
      /\ \A x \in 1 .. n : at[x] \in 1 .. i
      /\ \A x \in 1 .. n : t[x] = s[at[x]] /\ ~Dropped(s, at[x])
      /\ \A x, y \in 1 .. n : x < y => at[x] < at[y]
      /\ \A k \in 1 .. i : ~Dropped(s, k) => \E x \in 1 .. n : at[x] = k
  <2>1. i + 1 \in 1 .. Len(s)
    OBVIOUS
  <2>2. s[i + 1] \in Symbols
    BY <2>1
  <2>3. /\ t \in Seq(Symbols) /\ at \in [1 .. n -> 1 .. i]
        /\ \A x \in 1 .. n : t[x] = s[at[x]] /\ ~Dropped(s, at[x])
        /\ \A x, y \in 1 .. n : x < y => at[x] < at[y]
        /\ \A k \in 1 .. i : ~Dropped(s, k) => \E x \in 1 .. n : at[x] = k
    BY Zenon DEF Picks
  <2>4. n \in Nat /\ \A x \in 1 .. n : at[x] \in 1 .. i
    BY <2>3
  <2> QED
    BY <2>2, <2>3, <2>4
<1>2. /\ u \in Seq(Symbols) /\ Len(u) = n + 1 /\ u[n + 1] = s[i + 1]
      /\ \A x \in 1 .. n : u[x] = t[x]
  BY <1>1, AppendProperties
<1>3. /\ \A x \in 1 .. n : more[x] = at[x]
      /\ more[n + 1] = i + 1
      /\ \A x \in 1 .. n + 1 : x = n + 1 \/ x \in 1 .. n
      /\ \A x \in 1 .. n : x \in 1 .. n + 1
      /\ n + 1 \in 1 .. n + 1
  BY <1>1
<1>4. more \in [1 .. n + 1 -> 1 .. i + 1]
  <2>1. 1 .. i \subseteq 1 .. i + 1 /\ i + 1 \in 1 .. i + 1
    OBVIOUS
  <2> QED
    BY <1>1, <1>3, <2>1
<1> HIDE DEF u, more, n
<1>5. \A x \in 1 .. n + 1 : u[x] = s[more[x]] /\ ~Dropped(s, more[x])
  BY <1>1, <1>2, <1>3
<1>6. \A x, y \in 1 .. n + 1 : x < y => more[x] < more[y]
  <2> SUFFICES ASSUME NEW x \in 1 .. n + 1, NEW y \in 1 .. n + 1, x < y
               PROVE  more[x] < more[y]
    OBVIOUS
  <2>1. x \in 1 .. n /\ x # n + 1
    BY <1>1
  <2>2. CASE y = n + 1
    <3>1. more[x] \in 1 .. i
      BY <1>1, <1>3, <2>1
    <3> QED
      BY <1>3, <2>2, <3>1
  <2>3. CASE y \in 1 .. n
    BY <1>1, <1>3, <2>1, <2>3
  <2> QED
    BY <1>3, <2>2, <2>3
<1>7. \A k \in 1 .. i + 1 : ~Dropped(s, k) => \E x \in 1 .. n + 1 : more[x] = k
  <2> TAKE k \in 1 .. i + 1
  <2>1. CASE k = i + 1
    BY <1>3, <2>1
  <2>2. CASE k # i + 1
    <3>1. k \in 1 .. i
      BY <2>2
    <3> QED
      BY <1>1, <1>3, <3>1
  <2> QED
    BY <2>1, <2>2
<1>8. Picks(s, i + 1, u, more)
  BY <1>2, <1>4, <1>5, <1>6, <1>7 DEF Picks
<1> QED
  BY <1>8 DEF u

LEMMA RemainsPicks ==
  ASSUME NEW s \in Seq(Symbols)
  PROVE  \E at : Picks(s, Len(s), stripLineComments(s), at)
<1> DEFINE Holds(i) == \E at : Picks(s, i, Remains(s)[i], at)
           P == {i \in 0 .. Len(s) : Holds(i)}
<1>1. Len(s) \in Nat
  OBVIOUS
<1>2. 0 \in P
  <2> DEFINE none == [x \in 1 .. 0 |-> 1]
  <2>1. Picks(s, 0, <<>>, none)
    <3>1. <<>> \in Seq(Symbols) /\ Len(<<>>) = 0 /\ 1 .. 0 = {}
      OBVIOUS
    <3>2. none \in [1 .. 0 -> 1 .. 0]
      BY <3>1
    <3> HIDE DEF none
    <3> QED
      BY <3>1, <3>2 DEF Picks
  <2>2. Picks(s, 0, Remains(s)[0], none)
    BY <2>1, RemainsFacts
  <2> HIDE DEF none
  <2> QED
    BY <1>1, <2>2
<1>3. \A i \in 0 .. Len(s) : i \in P /\ i < Len(s) => i + 1 \in P
  <2> TAKE i \in 0 .. Len(s)
  <2> SUFFICES ASSUME i \in P, i < Len(s) PROVE i + 1 \in P
    OBVIOUS
  <2>1. PICK at : Picks(s, i, Remains(s)[i], at)
    OBVIOUS
  <2>2. i \in Nat /\ i + 1 \in 1 .. Len(s) /\ (i + 1) - 1 = i /\ i + 1 <= Len(s)
    BY <1>1
  <2>3. Remains(s)[i + 1] = IF Dropped(s, i + 1) THEN Remains(s)[i]
                            ELSE Append(Remains(s)[i], s[i + 1])
    BY <2>2, RemainsFacts
  <2>4. CASE Dropped(s, i + 1)
    <3>1. Picks(s, i + 1, Remains(s)[i], at)
      BY <2>1, <2>2, <2>4, PicksSkip
    <3> QED
      BY <2>2, <2>3, <2>4, <3>1
  <2>5. CASE ~Dropped(s, i + 1)
    <3>1. \E more : Picks(s, i + 1, Append(Remains(s)[i], s[i + 1]), more)
      BY <2>1, <2>2, <2>5, PicksMore
    <3>2. Remains(s)[i + 1] = Append(Remains(s)[i], s[i + 1])
      BY <2>3, <2>5
    <3>3. PICK more : Picks(s, i + 1, Append(Remains(s)[i], s[i + 1]), more)
      BY <3>1
    <3>4. Picks(s, i + 1, Remains(s)[i + 1], more)
      BY <3>2, <3>3, Zenon
    <3>5. i + 1 \in 0 .. Len(s)
      BY <1>1, <2>2
    <3> QED
      BY <3>4, <3>5
  <2> QED
    BY <2>4, <2>5
<1>4. Len(s) \in P
  <2> HIDE DEF P
  <2>1. \A i \in 0 .. Len(s) : i \in P
    BY <1>1, <1>2, <1>3, UpTo
  <2> QED
    BY <1>1, <2>1
<1> QED
  BY <1>4 DEF stripLineComments

(***************************************************************************)
(* The text in which an output clause is looked for.                       *)
(***************************************************************************)
OutputText(s) == TrimTail(TrimSpace(stripLineComments(s)))

\* Nothing is left of blanks alone.
LEMMA TrimmedAway ==
  /\ \A t \in Seq(Symbols) : TrimSpace(t) # <<>> => \E k \in 1 .. Len(t) : t[k] \notin Blanks
  /\ \A t \in Seq(Symbols) : TrimTail(t) # <<>> => \E k \in 1 .. Len(t) : t[k] \notin Trailers
<1>1. \A t \in Seq(Symbols) : DOMAIN t = 1 .. Len(t)
  OBVIOUS
<1>2. ASSUME NEW t \in Seq(Symbols), TrimSpace(t) # <<>>
      PROVE  \E k \in 1 .. Len(t) : t[k] \notin Blanks
  <2>1. {i \in DOMAIN t : t[i] \notin Blanks} # {}
    BY <1>2, Zenon DEF TrimSpace
  <2> QED
    BY <1>1, <2>1
<1>3. ASSUME NEW t \in Seq(Symbols), TrimTail(t) # <<>>
      PROVE  \E k \in 1 .. Len(t) : t[k] \notin Trailers
  <2>1. {i \in DOMAIN t : t[i] \notin Trailers} # {}
    BY <1>3, Zenon DEF TrimTail
  <2> QED
    BY <1>1, <2>1
<1> QED
  BY <1>2, <1>3

\* It is a stretch of what remains; blanks stand before it, and blanks and separators
\* behind it.
LEMMA OutputTextCuts ==
  ASSUME NEW t \in Seq(Symbols), TrimTail(TrimSpace(t)) # <<>>
  PROVE  \E p, n \in Nat :
           /\ Cut(t, TrimTail(TrimSpace(t)), p, n)
           /\ \A i \in 1 .. p : t[i] \in Blanks
           /\ \A i \in p + n + 1 .. Len(t) : t[i] \in Blanks \cup {Separator}
<1> DEFINE u == TrimSpace(t)
           v == TrimTail(u)
<1>1. u # <<>>
  <2> SUFFICES ASSUME u = <<>> PROVE FALSE
    OBVIOUS
  <2>1. TrimTail(<<>>) # <<>>
    <3> HIDE DEF u
    <3> QED
      BY Zenon DEF u
  <2>2. \E k \in 1 .. Len(<<>>) : <<>>[k] \notin Trailers
    <3>1. <<>> \in Seq(Symbols)
      OBVIOUS
    <3> QED
      BY <2>1, <3>1, TrimmedAway
  <2> QED
    BY <2>2
<1>2. PICK k \in 1 .. Len(t) : t[k] \notin Blanks
  BY <1>1, TrimmedAway
<1>3. PICK p \in Nat, m \in Nat \ {0} :
        /\ Cut(t, u, p, m)
        /\ \A i \in 1 .. Len(t) : i <= p \/ i > p + m => t[i] \in Blanks
  BY <1>2, TrimSpaceCuts
<1> HIDE DEF u
<1>4. /\ u \in Seq(Symbols) /\ Len(u) = m /\ p + m <= Len(t) /\ Len(t) \in Nat
      /\ \A j \in 1 .. m : u[j] = t[p + j]
  BY <1>3 DEF Cut
<1>5. PICK k1 \in 1 .. m : u[k1] \notin Trailers
  <2>1. TrimTail(u) # <<>>
    BY DEF u
  <2>2. \E k1 \in 1 .. Len(u) : u[k1] \notin Trailers
    BY <1>4, <2>1, TrimmedAway
  <2> QED
    BY <1>4, <2>2
<1>6. PICK n \in Nat \ {0} :
        /\ Cut(u, v, 0, n)
        /\ \A i \in n + 1 .. m : u[i] \in Trailers
  BY <1>4, <1>5, TrimTailCuts
<1> HIDE DEF v
<1>7. /\ v \in Seq(Symbols) /\ Len(v) = n /\ n <= m
      /\ \A j \in 1 .. n : v[j] = u[j]
  <2>1. /\ v \in Seq(Symbols) /\ Len(v) = n /\ 0 + n <= Len(u)
        /\ \A j \in 1 .. n : v[j] = u[0 + j]
    BY <1>6 DEF Cut
  <2>2. \A j \in 1 .. n : 0 + j = j
    OBVIOUS
  <2> QED
    BY <1>4, <2>1, <2>2
<1>8. Cut(t, v, p, n)
  <2>1. p + n <= Len(t)
    BY <1>4, <1>7
  <2>2. \A j \in 1 .. n : v[j] = t[p + j]
    BY <1>4, <1>7
  <2> QED
    BY <1>7, <2>1, <2>2 DEF Cut
<1>9. \A i \in 1 .. p : t[i] \in Blanks
  BY <1>3, <1>4
<1>10. \A i \in p + n + 1 .. Len(t) : t[i] \in Blanks \cup {Separator}
  <2> TAKE i \in p + n + 1 .. Len(t)
  <2>1. CASE i > p + m
    BY <1>3, <2>1
  <2>2. CASE ~(i > p + m)
    <3>1. PICK j \in n + 1 .. m : i = p + j
      <4>1. i - p \in n + 1 .. m /\ i = p + (i - p)
        BY <1>4, <2>2
      <4> QED
        BY <4>1
    <3>2. t[i] = u[j] /\ u[j] \in Trailers
      BY <1>4, <1>6, <3>1
    <3>3. Trailers \subseteq Blanks \cup {Separator}
      BY Zenon DEF Trailers, Blanks, Space
    <3> QED
      BY <3>2, <3>3
  <2> QED
    BY <2>1, <2>2
<1> QED
  BY <1>8, <1>9, <1>10 DEF v, u

\* Where the symbols of that text stood in s: text[x] at at[x].  What else was kept are
\* blanks before them, and blanks and separators behind them.
Reading(s, text, at) ==
  /\ text \in Seq(Symbols) /\ at \in [1 .. Len(text) -> 1 .. Len(s)]
  /\ \A x \in 1 .. Len(text) : text[x] = s[at[x]] /\ ~Dropped(s, at[x])
  /\ \A x, y \in 1 .. Len(text) : x < y => at[x] < at[y]
  /\ \A k \in 1 .. Len(s) : ~Dropped(s, k) =>
       \/ \E x \in 1 .. Len(text) : at[x] = k
       \/ s[k] \in Blanks /\ \A x \in 1 .. Len(text) : k < at[x]
       \/ s[k] \in Blanks \cup {Separator} /\ \A x \in 1 .. Len(text) : at[x] < k

LEMMA ReadingFacts ==
  ASSUME NEW s \in Seq(Symbols), NEW text, NEW at, Reading(s, text, at)
  PROVE  /\ text \in Seq(Symbols) /\ Len(text) \in Nat /\ Len(s) \in Nat
         /\ \A x \in 1 .. Len(text) :
              at[x] \in 1 .. Len(s) /\ text[x] = s[at[x]] /\ ~Dropped(s, at[x])
         /\ \A x, y \in 1 .. Len(text) : x < y => at[x] < at[y]
<1>1. /\ text \in Seq(Symbols) /\ at \in [1 .. Len(text) -> 1 .. Len(s)]
      /\ \A x \in 1 .. Len(text) : text[x] = s[at[x]] /\ ~Dropped(s, at[x])
      /\ \A x, y \in 1 .. Len(text) : x < y => at[x] < at[y]
  BY Zenon DEF Reading
<1>2. Len(text) \in Nat /\ Len(s) \in Nat
  BY <1>1
<1>3. \A x \in 1 .. Len(text) : at[x] \in 1 .. Len(s)
  BY <1>1
<1> QED
  BY <1>1, <1>2, <1>3

LEMMA ReadingExists ==
  ASSUME NEW s \in Seq(Symbols), OutputText(s) # <<>>
  PROVE  \E at : Reading(s, OutputText(s), at)
<1> DEFINE t == stripLineComments(s)
           text == OutputText(s)
<1>1. PICK pos : Picks(s, Len(s), t, pos)
  BY RemainsPicks
<1>2. /\ t \in Seq(Symbols) /\ pos \in [1 .. Len(t) -> 1 .. Len(s)] /\ Len(t) \in Nat
      /\ \A x \in 1 .. Len(t) : t[x] = s[pos[x]] /\ ~Dropped(s, pos[x])
      /\ \A x, y \in 1 .. Len(t) : x < y => pos[x] < pos[y]
      /\ \A k \in 1 .. Len(s) : ~Dropped(s, k) => \E x \in 1 .. Len(t) : pos[x] = k
  BY <1>1 DEF Picks
<1>3. PICK p \in Nat, n \in Nat :
        /\ Cut(t, text, p, n)
        /\ \A i \in 1 .. p : t[i] \in Blanks
        /\ \A i \in p + n + 1 .. Len(t) : t[i] \in Blanks \cup {Separator}
  <2>1. text = TrimTail(TrimSpace(t))
    BY DEF OutputText
  <2> HIDE DEF t, text
  <2>2. TrimTail(TrimSpace(t)) # <<>>
    BY <2>1 DEF text
  <2> QED
    BY <1>2, <2>1, <2>2, OutputTextCuts
<1>4. /\ text \in Seq(Symbols) /\ Len(text) = n /\ p + n <= Len(t)
      /\ \A j \in 1 .. n : text[j] = t[p + j]
  BY <1>3 DEF Cut
<1> HIDE DEF t, text
<1> DEFINE at == [x \in 1 .. n |-> pos[p + x]]
<1>5. \A x \in 1 .. n : p + x \in 1 .. Len(t)
  BY <1>2, <1>4
<1>6. \A x \in 1 .. n : at[x] = pos[p + x] /\ at[x] \in 1 .. Len(s)
  BY <1>2, <1>5
<1>7. at \in [1 .. n -> 1 .. Len(s)]
  <2>1. \A x \in 1 .. n : pos[p + x] \in 1 .. Len(s)
    BY <1>6
  <2> QED
    BY ONLY <2>1 DEF at
<1> HIDE DEF at
<1>8. \A x \in 1 .. n : text[x] = s[at[x]] /\ ~Dropped(s, at[x])
  <2> TAKE x \in 1 .. n
  <2>1. PICK y \in 1 .. Len(t) : y = p + x
    BY <1>5
  <2>2. text[x] = t[y] /\ at[x] = pos[y]
    BY <1>4, <1>6, <2>1
  <2>3. t[y] = s[pos[y]] /\ ~Dropped(s, pos[y])
    BY <1>2
  <2> QED
    BY <2>2, <2>3
<1>9. \A x, y \in 1 .. n : x < y => at[x] < at[y]
  <2> SUFFICES ASSUME NEW x \in 1 .. n, NEW y \in 1 .. n, x < y PROVE at[x] < at[y]
    OBVIOUS
  <2>1. p + x < p + y
    OBVIOUS
  <2> QED
    BY <1>2, <1>5, <1>6, <2>1
<1>10. ASSUME NEW k \in 1 .. Len(s), ~Dropped(s, k)
       PROVE  \/ \E x \in 1 .. n : at[x] = k
              \/ s[k] \in Blanks /\ \A x \in 1 .. n : k < at[x]
              \/ s[k] \in Blanks \cup {Separator} /\ \A x \in 1 .. n : at[x] < k
  <2>1. PICK y \in 1 .. Len(t) : pos[y] = k
    BY <1>2, <1>10
  <2>2. CASE y <= p
    <3>1. s[k] \in Blanks
      BY <1>2, <1>3, <2>1, <2>2
    <3>2. \A x \in 1 .. n : k < at[x]
      <4> TAKE x \in 1 .. n
      <4>1. y < p + x
        BY <2>2
      <4> QED
        BY <1>2, <1>5, <1>6, <2>1, <4>1
    <3> QED
      BY <3>1, <3>2
  <2>3. CASE y > p /\ y <= p + n
    <3>1. PICK x \in 1 .. n : y = p + x
      <4>1. y - p \in 1 .. n /\ y = p + (y - p)
        BY <2>3
      <4> QED
        BY <4>1
    <3>2. at[x] = k
      BY <1>6, <2>1, <3>1
    <3> QED
      BY <3>2
  <2>4. CASE y > p + n
    <3>1. s[k] \in Blanks \cup {Separator}
      <4>1. y \in p + n + 1 .. Len(t)
        BY <1>2, <2>4
      <4> QED
        BY <1>2, <1>3, <2>1, <4>1
    <3>2. \A x \in 1 .. n : at[x] < k
      <4> TAKE x \in 1 .. n
      <4>1. p + x < y
        BY <2>4
      <4> QED
        BY <1>2, <1>5, <1>6, <2>1, <4>1
    <3> QED
      BY <3>1, <3>2
  <2> QED
    BY <2>2, <2>3, <2>4
<1>11. Reading(s, text, at)
  BY <1>4, <1>7, <1>8, <1>9, <1>10 DEF Reading
<1> QED
  BY <1>11 DEF text

\* A kept symbol that is neither a blank nor a separator is in the text.
LEMMA InText ==
  ASSUME NEW s, NEW text, NEW at, Reading(s, text, at), NEW k \in 1 .. Len(s),
         ~Dropped(s, k), s[k] \notin Blanks \cup {Separator}
  PROVE  \E x \in 1 .. Len(text) : at[x] = k
  BY DEF Reading

\* Only a line break has something dropped before it: other neighbours in the text were
\* neighbours in s.
LEMMA Adjoining ==
  ASSUME NEW s \in Seq(Symbols), NEW text, NEW at, Reading(s, text, at),
         NEW x \in 1 .. Len(text), NEW y \in 1 .. Len(text), y = x + 1, text[y] # "\n"
  PROVE  at[y] = at[x] + 1
<1>1. /\ at[x] \in 1 .. Len(s) /\ at[y] \in 1 .. Len(s) /\ at[x] < at[y]
      /\ ~Dropped(s, at[y]) /\ s[at[y]] # "\n" /\ Len(s) \in Nat /\ Len(text) \in Nat
      /\ \A u, v \in 1 .. Len(text) : u < v => at[u] < at[v]
      /\ \A u \in 1 .. Len(text) : at[u] \in 1 .. Len(s)
  <2>1. x < y
    OBVIOUS
  <2> QED
    BY <2>1, ReadingFacts
<1>2. PICK k \in 1 .. Len(s) : at[y] = k + 1
  <2>1. at[y] - 1 \in 1 .. Len(s) /\ at[y] = (at[y] - 1) + 1
    BY <1>1
  <2> QED
    BY <2>1
<1>3. at[x] <= k /\ k < at[y]
  BY <1>1, <1>2
<1>4. ~Dropped(s, k)
  <2> SUFFICES ASSUME Dropped(s, k) PROVE FALSE
    OBVIOUS
  <2>1. PICK j \in 1 .. k : At(s, j, <<"-", "-">>) /\ \A h \in j .. k : s[h] # "\n"
    BY DEF Dropped
  <2>2. \A h \in j .. k + 1 : h \in j .. k \/ h = k + 1
    OBVIOUS
  <2>3. j \in 1 .. k + 1 /\ \A h \in j .. k + 1 : s[h] # "\n"
    BY <1>1, <1>2, <2>1, <2>2
  <2>4. Dropped(s, k + 1)
    BY <2>1, <2>3 DEF Dropped
  <2> QED
    BY <1>1, <1>2, <2>4
<1>5. PICK z \in 1 .. Len(text) : at[z] = k
  <2>1. ~(k < at[x]) /\ ~(at[y] < k)
    BY <1>1, <1>3
  <2> QED
    BY <1>4, <2>1 DEF Reading
<1>6. z < y
  <2>1. z # y
    BY <1>3, <1>5
  <2>2. ~(y < z)
    BY <1>1, <1>3, <1>5
  <2> QED
    BY <2>1, <2>2
<1>7. z = x
  <2>1. ~(z < x)
    BY <1>1, <1>3, <1>5
  <2> QED
    BY <1>6, <2>1
<1> QED
  BY <1>2, <1>5, <1>7

\* A word of the text with nothing but words and blanks behind it stood in no literal and
\* in no comment: what ends those would be behind it.
LEMMA WordPlace ==
  ASSUME NEW s \in Seq(Symbols), Complete(s), KnownLexemes(s), ~HiddenDashes(s),
         NEW text, NEW at,
         Reading(s, text, at), NEW x \in 1 .. Len(text), text[x] \in Words,
         \A y \in 1 .. Len(text) : y > x => text[y] \in Words \cup Blanks
  PROVE  \E c : Within(s, c, at[x]) /\ s[c] \in Words /\ ~At(s, c, <<"-", "-">>)
<1>1. /\ at[x] \in 1 .. Len(s) /\ ~Dropped(s, at[x]) /\ s[at[x]] \in Words
      /\ Len(text) \in Nat /\ Len(s) \in Nat
      /\ \A u, v \in 1 .. Len(text) : u < v => at[u] < at[v]
      /\ \A u \in 1 .. Len(text) : at[u] \in 1 .. Len(s) /\ text[u] = s[at[u]]
  BY ReadingFacts
<1>2. s[at[x]] \notin Blanks \cup Quotes /\ s[at[x]] # "/"
  BY <1>1, OneKind DEF Signs, Openers
<1>3. PICK c : Within(s, c, at[x])
  BY <1>1, <1>2, WithinSome
<1>4. ~At(s, c, <<"-", "-">>)
  BY <1>1, <1>3, CommentIsDropped
<1> DEFINE l == LexemeAt(s, c).last
<1>5. /\ c \in Places(s)[1] /\ c \in 1 .. Len(s) /\ s[c] \notin Blanks
      /\ at[x] \in c .. l
  BY <1>3 DEF Within
<1>6. l \in c .. Len(s) /\ l \in 1 .. Len(s) /\ l \in c .. l
  BY <1>5, LexemeLast
<1>7. c \in Starts(s) /\ Kind(s, c) # "broken"
  BY <1>5 DEF Starts, Complete
\* What ends the lexeme is kept.
<1>8. ASSUME s[l] \in Quotes \cup {"/"} PROVE FALSE
  <2>1. Within(s, c, l)
    BY <1>5, <1>6 DEF Within
  <2>2. ~Dropped(s, l)
    BY <1>4, <2>1, OthersAreKept
  <2>3. s[l] \notin Blanks \cup {Separator} /\ s[l] \notin Words
    <3>1. s[l] \notin Blanks /\ s[l] \notin Words
      BY <1>6, <1>8, OneKind DEF Signs, Openers
    <3>2. s[l] # Separator
      BY <1>8, SeparatorFacts
    <3> QED
      BY <3>1, <3>2
  <2>4. PICK y \in 1 .. Len(text) : at[y] = l
    BY <1>6, <2>2, <2>3, InText
  <2>5. at[x] < at[y]
    <3>1. at[x] # l
      BY <1>2, <1>8
    <3> QED
      BY <1>5, <1>6, <2>4, <3>1
  <2>6. y > x
    <3>1. y # x
      BY <1>1, <2>5
    <3>2. ~(y < x)
      <4>1. y < x => at[y] < at[x]
        BY <1>1
      <4>2. at[x] \in Int /\ at[y] \in Int
        BY <1>1
      <4> QED
        BY <2>5, <4>1, <4>2
    <3> QED
      BY <3>1, <3>2
  <2>7. text[y] \in Words \cup Blanks
    BY <2>6
  <2>8. text[y] = s[l]
    BY <1>1, <2>4
  <2> QED
    BY <2>3, <2>7, <2>8
<1>9. s[c] \notin Quotes
  <2> SUFFICES ASSUME s[c] \in Quotes PROVE FALSE
    OBVIOUS
  <2>1. l \in LiteralEnds(s, c)
    BY <1>5, <1>7, QuoteLexeme DEF Openers
  <2>2. s[l] = s[c]
    BY <2>1 DEF LiteralEnds
  <2> QED
    BY <1>8, <2>2
<1>10. ~At(s, c, <<"/", "*">>)
  <2> SUFFICES ASSUME At(s, c, <<"/", "*">>) PROVE FALSE
    OBVIOUS
  <2>1. PICK e \in CommentEnds(s, c) : e \in c + 2 .. Len(s) - 1 /\ l = e + 1
    BY <1>5, <1>7, BlockLexeme
  <2>2. At(s, e, <<"*", "/">>) /\ e \in Nat \ {0}
    BY <1>5, <2>1 DEF CommentEnds
  <2>3. s[l] = "/"
    BY <2>1, <2>2, AtTwo
  <2> QED
    BY <1>8, <2>3
<1>11. s[c] \in Words
  <2> SUFFICES ASSUME s[c] \notin Words PROVE FALSE
    OBVIOUS
  <2>1. l = c
    BY <1>4, <1>5, <1>7, <1>9, <1>10, SignLexeme
       DEF Openers, LineComment, KnownLexemes, Foreign
  <2>2. at[x] = c
    BY <1>5, <2>1
  <2> QED
    BY <1>1, <2>2
<1> QED
  BY <1>3, <1>4, <1>11

\* Such a word is where its lexeme starts when no word stands before it.
LEMMA WordStart ==
  ASSUME NEW s \in Seq(Symbols), Complete(s), KnownLexemes(s), ~HiddenDashes(s),
         NEW text, NEW at,
         Reading(s, text, at), NEW x \in 1 .. Len(text), text[x] \in Words,
         \A y \in 1 .. Len(text) : y > x => text[y] \in Words \cup Blanks,
         \A y \in 1 .. Len(text) : x = y + 1 => text[y] \notin Words
  PROVE  Within(s, at[x], at[x]) /\ at[x] \in Tokens(s)
<1>1. PICK c : Within(s, c, at[x]) /\ s[c] \in Words /\ ~At(s, c, <<"-", "-">>)
  BY WordPlace
<1> DEFINE l == LexemeAt(s, c).last
<1>2. /\ c \in Places(s)[1] /\ c \in 1 .. Len(s) /\ s[c] \notin Blanks
      /\ at[x] \in c .. l
  BY <1>1 DEF Within
<1>3. /\ \A k \in c .. l : s[k] \in Words
      /\ l \in c .. Len(s) /\ Kind(s, c) = "word"
  BY <1>1, <1>2, WordLexeme
<1>4. /\ Len(text) \in Nat /\ Len(s) \in Nat /\ text[x] = s[at[x]]
      /\ \A u, v \in 1 .. Len(text) : u < v => at[u] < at[v]
      /\ \A u \in 1 .. Len(text) : at[u] \in 1 .. Len(s) /\ text[u] = s[at[u]]
  BY ReadingFacts
<1>5. at[x] = c
  <2> SUFFICES ASSUME at[x] # c PROVE FALSE
    OBVIOUS
  <2>1. PICK k \in c .. l : at[x] = k + 1
    <3>1. at[x] - 1 \in c .. l /\ at[x] = (at[x] - 1) + 1
      BY <1>2, <1>3
    <3> QED
      BY <3>1
  <2>2. Within(s, c, k)
    BY <1>2, <2>1 DEF Within
  <2>3. k \in 1 .. Len(s) /\ ~Dropped(s, k)
    BY <1>1, <2>2, OthersAreKept
  <2>4. s[k] \in Words /\ s[k] \notin Blanks \cup {Separator}
    <3>1. s[k] \in Words /\ s[k] \notin Blanks
      BY <1>3, <2>3, OneKind
    <3> QED
      BY <3>1, SeparatorFacts
  <2>5. PICK z \in 1 .. Len(text) : at[z] = k
    BY <2>3, <2>4, InText
  <2>6. z < x
    <3>1. at[z] < at[x]
      BY <2>1, <2>5
    <3>2. z # x
      BY <2>1, <2>5
    <3>3. ~(x < z)
      <4>1. x < z => at[x] < at[z]
        BY <1>4
      <4>2. at[x] \in Int /\ at[z] \in Int
        BY <1>4
      <4> QED
        BY <3>1, <4>1, <4>2
    <3> QED
      BY <3>2, <3>3
  <2>7. PICK y \in 1 .. Len(text) : x = y + 1
    <3>1. x - 1 \in 1 .. Len(text) /\ x = (x - 1) + 1
      BY <1>4, <2>6
    <3> QED
      BY <3>1
  <2>8. at[x] = at[y] + 1
    <3>1. text[x] # "\n"
      BY DEF Words
    <3> QED
      BY <2>7, <3>1, Adjoining
  <2>9. at[y] = k
    BY <1>4, <2>1, <2>3, <2>8
  <2> QED
    BY <1>4, <2>4, <2>7, <2>9
<1>6. c \in Tokens(s)
  BY <1>2, <1>3 DEF Tokens, Starts
<1> QED
  BY <1>1, <1>5, <1>6

\* It is the whole lexeme when no word stands behind it either.
LEMMA WordAlone ==
  ASSUME NEW s \in Seq(Symbols), Complete(s), KnownLexemes(s), ~HiddenDashes(s),
         NEW text, NEW at,
         Reading(s, text, at), NEW x \in 1 .. Len(text), text[x] \in Words,
         Within(s, at[x], at[x]),
         \A y \in 1 .. Len(text) : y = x + 1 => text[y] \notin Words
  PROVE  Lexeme(s, at[x]) = <<text[x]>>
<1> DEFINE l == LexemeAt(s, at[x]).last
<1>1. /\ Len(text) \in Nat /\ Len(s) \in Nat /\ text[x] = s[at[x]] /\ at[x] \in 1 .. Len(s)
      /\ \A u, v \in 1 .. Len(text) : u < v => at[u] < at[v]
      /\ \A u \in 1 .. Len(text) : at[u] \in 1 .. Len(s) /\ text[u] = s[at[u]]
  BY ReadingFacts
<1>2. at[x] \in Places(s)[1] /\ s[at[x]] \notin Blanks
  BY DEF Within
<1>3. /\ \A k \in at[x] .. l : s[k] \in Words
      /\ l \in at[x] .. Len(s)
  BY <1>1, WordLexeme
<1>4. l = at[x]
  <2> SUFFICES ASSUME l # at[x] PROVE FALSE
    OBVIOUS
  <2>1. PICK k \in at[x] .. l : k = at[x] + 1
    <3>1. at[x] + 1 \in at[x] .. l
      BY <1>1, <1>3
    <3> QED
      BY <3>1
  <2>2. Within(s, at[x], k)
    BY <1>1, <1>2, <2>1 DEF Within
  <2>3. ~At(s, at[x], <<"-", "-">>)
    BY <1>1, OneKind
  <2>4. k \in 1 .. Len(s) /\ ~Dropped(s, k)
    BY <2>2, <2>3, OthersAreKept
  <2>5. s[k] \in Words /\ s[k] \notin Blanks \cup {Separator}
    <3>1. s[k] \in Words /\ s[k] \notin Blanks
      BY <1>3, <2>4, OneKind
    <3> QED
      BY <3>1, SeparatorFacts
  <2>6. PICK z \in 1 .. Len(text) : at[z] = k
    BY <2>4, <2>5, InText
  <2>7. z > x
    <3>1. z # x
      BY <1>1, <2>1, <2>6
    <3>2. ~(z < x)
      <4>1. z < x => at[z] < at[x]
        BY <1>1
      <4> QED
        BY <1>1, <2>1, <2>6, <4>1
    <3> QED
      BY <3>1, <3>2
  <2>8. PICK y \in 1 .. Len(text) : y = x + 1
    <3>1. x + 1 \in 1 .. Len(text)
      BY <1>1, <2>7
    <3> QED
      BY <3>1
  <2>9. at[y] = k
    <3>1. at[x] < at[y]
      BY <1>1, <2>8
    <3>2. y = z \/ y < z
      BY <2>7, <2>8
    <3>3. y < z => at[y] < at[z]
      BY <1>1
    <3> QED
      BY <1>1, <2>1, <2>6, <3>1, <3>2, <3>3
  <2> QED
    BY <1>1, <2>5, <2>8, <2>9
<1> QED
  BY <1>1, <1>4, OneSymbol

\* A word right behind a word starts no lexeme.
LEMMA WordGoesOn ==
  ASSUME NEW s \in Seq(Symbols), Complete(s), KnownLexemes(s), ~HiddenDashes(s),
         NEW text, NEW at,
         Reading(s, text, at), NEW x \in 1 .. Len(text), text[x] \in Words,
         \A y \in 1 .. Len(text) : y > x => text[y] \in Words \cup Blanks,
         NEW z \in 1 .. Len(text), z = x + 1, text[z] \in Words
  PROVE  at[z] \notin Starts(s)
<1> SUFFICES ASSUME at[z] \in Starts(s) PROVE FALSE
  OBVIOUS
<1>1. /\ Len(s) \in Nat /\ at[x] \in 1 .. Len(s) /\ at[z] \in 1 .. Len(s)
      /\ s[at[z]] \in Words
  BY ReadingFacts
<1>2. at[z] = at[x] + 1
  <2>1. text[z] # "\n"
    BY DEF Words
  <2> QED
    BY <2>1, Adjoining
<1>3. PICK c : Within(s, c, at[x]) /\ s[c] \in Words
  BY WordPlace
<1> DEFINE l == LexemeAt(s, c).last
<1>4. /\ c \in Places(s)[1] /\ c \in 1 .. Len(s) /\ s[c] \notin Blanks /\ at[x] \in c .. l
  BY <1>3 DEF Within
<1>5. l \in c .. Len(s) /\ (l < Len(s) => s[l + 1] \notin Words)
  BY <1>3, <1>4, WordLexeme
<1>6. at[z] \in c .. l
  <2>1. l # at[x]
    BY <1>1, <1>2, <1>5
  <2> QED
    BY <1>1, <1>2, <1>4, <1>5, <2>1
<1>7. Within(s, c, at[z])
  BY <1>4, <1>6 DEF Within
<1>8. Within(s, at[z], at[z])
  <2>1. LexemeAt(s, at[z]).last \in at[z] .. Len(s)
    BY <1>1, LexemeLast
  <2>2. at[z] \in at[z] .. LexemeAt(s, at[z]).last
    BY <1>1, <2>1
  <2> QED
    BY <1>1, <2>2 DEF Within, Starts
<1>9. c = at[z]
  BY <1>7, <1>8, WithinOne
<1> QED
  BY <1>1, <1>2, <1>4, <1>9

\* INTO OUTFILE that is kept is in no line comment.
LEMMA FileNamed ==
  ASSUME NEW s \in Seq(Symbols), NEW k \in 1 .. Len(s), s[k] = "INTO OUTFILE", ~Dropped(s, k)
  PROVE  NamesAFile(s)
<1>1. s[k] \notin Blanks
  BY OneKind DEF Words
<1>2. PICK c : Within(s, c, k)
  BY <1>1, WithinSome
<1>3. ~At(s, c, <<"-", "-">>)
  BY <1>2, CommentIsDropped
<1> QED
  BY <1>2, <1>3 DEF Within, Starts, NamesAFile

\* The clause of FORMAT in the text it is looked for in.
EndsInFormat(text) ==
  LET formats == {i \in DOMAIN text : At(text, i, <<"FORMAT", Space>>)}
      f       == Max(formats)
      tail    == TrimSpace(SubSeq(text, f + 2, Len(text)))
  IN /\ formats # {}
     /\ f = 1 \/ text[f - 1] \notin Words
     /\ tail # <<>> /\ \A i \in DOMAIN tail : tail[i] \in Words \ {"INTO OUTFILE"}

LEMMA ClauseParts ==
  ASSUME NEW text \in Seq(Symbols), EndsInFormat(text)
  PROVE  \E f, g, e \in 1 .. Len(text) :
           /\ f + 1 < g /\ g <= e /\ text[f] = "FORMAT"
           /\ \A y \in 1 .. Len(text) : f = y + 1 => text[y] \notin Words
           /\ \A y \in 1 .. Len(text) : f < y /\ y < g => text[y] \in Blanks
           /\ \A y \in 1 .. Len(text) : g <= y /\ y <= e => text[y] \in Words
           /\ \A y \in 1 .. Len(text) : e < y => text[y] \in Blanks
<1> DEFINE N == Len(text)
           formats == {i \in DOMAIN text : At(text, i, <<"FORMAT", Space>>)}
           f == Max(formats)
           sub == SubSeq(text, f + 2, N)
           tail == TrimSpace(sub)
<1>1. /\ formats # {} /\ (f = 1 \/ text[f - 1] \notin Words)
      /\ tail # <<>> /\ \A i \in DOMAIN tail : tail[i] \in Words
  BY Zenon DEF EndsInFormat
<1>2. N \in Nat /\ DOMAIN text = 1 .. N
  OBVIOUS
<1>3. formats \in SUBSET (0 .. N)
  BY <1>2
<1>4. f \in formats
  <2> HIDE DEF formats
  <2> QED
    BY <1>1, <1>2, <1>3, MaxFacts
<1>5. f \in 1 .. N /\ At(text, f, <<"FORMAT", Space>>)
  BY <1>2, <1>4
<1> HIDE DEF f, formats
<1>6. f + 1 <= N /\ text[f] = "FORMAT" /\ text[f + 1] = Space
  BY <1>2, <1>5, AtTwo
<1>7. text[f + 1] \in Blanks
  BY <1>6, Zenon DEF Space, Blanks
<1>8. f + 2 <= N
  <2> SUFFICES ASSUME ~(f + 2 <= N) PROVE FALSE
    OBVIOUS
  <2>1. f + 2 \in Int /\ N \in Int /\ f + 2 > N
    BY <1>2, <1>5
  <2>2. sub = <<>>
    BY <2>1
  <2>3. sub \in Seq(Symbols)
    <3> HIDE DEF sub
    <3> QED
      BY <2>2
  <2>4. \E k \in 1 .. Len(sub) : sub[k] \notin Blanks
    <3> HIDE DEF sub
    <3> QED
      BY <1>1, <2>3, TrimmedAway
  <2> HIDE DEF sub
  <2> QED
    BY <2>2, <2>4
<1>9. Cut(text, sub, f + 1, N - f - 1)
  <2>1. /\ f + 2 \in 1 .. N /\ N \in f + 2 .. N
        /\ (f + 2) - 1 = f + 1 /\ N - (f + 2) + 1 = N - f - 1
    BY <1>2, <1>5, <1>8
  <2>2. Cut(text, sub, (f + 2) - 1, N - (f + 2) + 1)
    BY <2>1, SubSeqCuts
  <2> HIDE DEF sub
  <2> QED
    BY <2>1, <2>2
<1> HIDE DEF sub
<1>10. /\ sub \in Seq(Symbols) /\ Len(sub) = N - f - 1
       /\ \A j \in 1 .. N - f - 1 : sub[j] = text[f + 1 + j]
  BY <1>9 DEF Cut
<1>11. PICK k \in 1 .. Len(sub) : sub[k] \notin Blanks
  BY <1>1, <1>10, TrimmedAway
<1>12. PICK p \in Nat, n \in Nat \ {0} :
         /\ Cut(sub, tail, p, n)
         /\ \A i \in 1 .. Len(sub) : i <= p \/ i > p + n => sub[i] \in Blanks
  BY <1>10, <1>11, TrimSpaceCuts
<1>13. /\ Len(tail) = n /\ p + n <= Len(sub) /\ tail \in Seq(Symbols)
       /\ \A j \in 1 .. n : tail[j] = sub[p + j]
  BY <1>12 DEF Cut
<1> HIDE DEF tail
<1>14. \A j \in 1 .. n : tail[j] \in Words
  <2>1. DOMAIN tail = 1 .. n
    BY <1>13
  <2> QED
    BY <1>1, <2>1, Zenon
<1> DEFINE g == f + 1 + p + 1
           e == f + 1 + p + n
<1>15. /\ f \in 1 .. N /\ g \in 1 .. N /\ e \in 1 .. N /\ f + 1 < g /\ g <= e
       /\ Len(sub) = N - f - 1 /\ p + n <= N - f - 1
  BY <1>2, <1>5, <1>10, <1>13
<1>16. \A y \in 1 .. N : f = y + 1 => text[y] \notin Words
  <2> SUFFICES ASSUME NEW y \in 1 .. N, f = y + 1 PROVE text[y] \notin Words
    OBVIOUS
  <2>1. f # 1 /\ f - 1 = y
    OBVIOUS
  <2> QED
    BY <1>1, <2>1
<1>17. \A y \in 1 .. N : f < y /\ y < g => text[y] \in Blanks
  <2> SUFFICES ASSUME NEW y \in 1 .. N, f < y, y < g PROVE text[y] \in Blanks
    OBVIOUS
  <2>1. CASE y = f + 1
    BY <1>7, <2>1
  <2>2. CASE y # f + 1
    <3>1. PICK j \in 1 .. p : y = f + 1 + j /\ j \in 1 .. N - f - 1
      <4>1. y - f - 1 \in 1 .. p /\ y = f + 1 + (y - f - 1) /\ y - f - 1 \in 1 .. N - f - 1
        BY <1>2, <1>15, <2>2
      <4> QED
        BY <4>1
    <3>2. sub[j] \in Blanks
      BY <1>12, <1>15, <3>1
    <3> QED
      BY <1>10, <3>1, <3>2
  <2> QED
    BY <2>1, <2>2
<1>18. \A y \in 1 .. N : g <= y /\ y <= e => text[y] \in Words
  <2> SUFFICES ASSUME NEW y \in 1 .. N, g <= y, y <= e PROVE text[y] \in Words
    OBVIOUS
  <2>1. PICK j \in 1 .. n : y = f + 1 + (p + j) /\ p + j \in 1 .. N - f - 1
    <3>1. /\ y - f - 1 - p \in 1 .. n /\ y = f + 1 + (p + (y - f - 1 - p))
          /\ p + (y - f - 1 - p) \in 1 .. N - f - 1
      BY <1>2, <1>15
    <3> QED
      BY <3>1
  <2>2. text[y] = sub[p + j]
    BY <1>10, <2>1
  <2> QED
    BY <1>13, <1>14, <2>1, <2>2
<1>19. \A y \in 1 .. N : e < y => text[y] \in Blanks
  <2> SUFFICES ASSUME NEW y \in 1 .. N, e < y PROVE text[y] \in Blanks
    OBVIOUS
  <2>1. PICK j \in 1 .. N - f - 1 : y = f + 1 + j /\ j > p + n
    <3>1. y - f - 1 \in 1 .. N - f - 1 /\ y = f + 1 + (y - f - 1) /\ y - f - 1 > p + n
      BY <1>2, <1>15
    <3> QED
      BY <3>1
  <2>2. sub[j] \in Blanks
    BY <1>12, <1>15, <2>1
  <2> QED
    BY <1>10, <2>1, <2>2
<1> HIDE DEF g, e
<1> QED
  BY <1>6, <1>15, <1>16, <1>17, <1>18, <1>19

\* A refused query has a clause.
LEMMA ClauseStands ==
  ASSUME NEW s \in Seq(Symbols), HasUnsupportedOutputClause(s), Complete(s), KnownLexemes(s),
         ~HiddenDashes(s)
  PROVE  \/ NamesAFile(s)
         \/ \E i, j \in Tokens(s) :
              /\ Lexeme(s, i) = <<"FORMAT">> /\ s[j] \in Words /\ i < j
              /\ \A k \in Tokens(s) \ {i, j} : k < i \/ s[k] = Separator
<1> DEFINE text == OutputText(s)
<1>1. \/ text # <<>> /\ Last(text) = "INTO OUTFILE"
      \/ \E i \in DOMAIN text : At(text, i, <<"INTO OUTFILE", Space>>)
      \/ EndsInFormat(text)
  BY Zenon DEF HasUnsupportedOutputClause, EndsInFormat, OutputText
<1>2. text # <<>>
  <2>1. ASSUME text = <<>> PROVE ~EndsInFormat(text)
    <3>1. DOMAIN text = {}
      <4> HIDE DEF text
      <4> QED
        BY <2>1
    <3> HIDE DEF text
    <3> QED
      BY <3>1 DEF EndsInFormat
  <2>2. ASSUME text = <<>> PROVE ~(\E i \in DOMAIN text : At(text, i, <<"INTO OUTFILE", Space>>))
    <3>1. DOMAIN text = {}
      <4> HIDE DEF text
      <4> QED
        BY <2>2
    <3> QED
      BY <3>1
  <2> QED
    BY <1>1, <2>1, <2>2
<1>3. PICK at : Reading(s, text, at)
  BY <1>2, ReadingExists
<1> HIDE DEF text
<1>4. /\ text \in Seq(Symbols) /\ Len(text) \in Nat /\ Len(s) \in Nat
      /\ DOMAIN text = 1 .. Len(text)
  BY <1>3, ReadingFacts
<1>5. \A x \in 1 .. Len(text) : /\ at[x] \in 1 .. Len(s) /\ ~Dropped(s, at[x])
                                /\ text[x] = s[at[x]]
  BY <1>3, ReadingFacts
<1>6. \A x, y \in 1 .. Len(text) : x < y => at[x] < at[y]
  BY <1>3, ReadingFacts
<1>7. CASE \E x \in 1 .. Len(text) : text[x] = "INTO OUTFILE"
  <2>1. PICK x \in 1 .. Len(text) : text[x] = "INTO OUTFILE"
    BY <1>7
  <2>2. PICK k \in 1 .. Len(s) : k = at[x]
    BY <1>5
  <2>3. s[k] = "INTO OUTFILE" /\ ~Dropped(s, k)
    BY <1>5, <2>1, <2>2
  <2> QED
    BY <2>3, FileNamed
<1>8. CASE EndsInFormat(text)
  <2>1. PICK f, g, e \in 1 .. Len(text) :
          /\ f + 1 < g /\ g <= e /\ text[f] = "FORMAT"
          /\ \A y \in 1 .. Len(text) : f = y + 1 => text[y] \notin Words
          /\ \A y \in 1 .. Len(text) : f < y /\ y < g => text[y] \in Blanks
          /\ \A y \in 1 .. Len(text) : g <= y /\ y <= e => text[y] \in Words
          /\ \A y \in 1 .. Len(text) : e < y => text[y] \in Blanks
    BY <1>4, <1>8, ClauseParts
  <2>2. Words \cap Blanks = {} /\ "FORMAT" \in Words
    BY OneKind DEF Words, Blanks
  <2>3. /\ f \in Nat /\ g \in Nat /\ e \in Nat /\ f < g /\ text[f] \in Words /\ text[g] \in Words
    BY <2>1, <2>2
  \* Behind FORMAT stand only words and blanks.
  <2>4. \A y \in 1 .. Len(text) : y > f => text[y] \in Words \cup Blanks
    <3> SUFFICES ASSUME NEW y \in 1 .. Len(text), y > f PROVE text[y] \in Words \cup Blanks
      OBVIOUS
    <3>1. y < g \/ (g <= y /\ y <= e) \/ e < y
      BY <2>3
    <3> QED
      BY <2>1, <3>1
  <2>5. \A y \in 1 .. Len(text) : y > g => text[y] \in Words \cup Blanks
    BY <2>3, <2>4
  <2>6. Within(s, at[f], at[f]) /\ at[f] \in Tokens(s)
    BY <1>3, <2>1, <2>3, <2>4, WordStart
  <2>7. Lexeme(s, at[f]) = <<"FORMAT">>
    <3>1. \A y \in 1 .. Len(text) : y = f + 1 => text[y] \notin Words
      BY <2>1, <2>2
    <3>2. Lexeme(s, at[f]) = <<text[f]>>
      BY <1>3, <2>3, <2>6, <3>1, WordAlone
    <3> QED
      BY <2>1, <3>2
  <2>8. Within(s, at[g], at[g]) /\ at[g] \in Tokens(s)
    <3>1. \A y \in 1 .. Len(text) : g = y + 1 => text[y] \notin Words
      <4> SUFFICES ASSUME NEW y \in 1 .. Len(text), g = y + 1 PROVE text[y] \notin Words
        OBVIOUS
      <4>1. f < y /\ y < g
        BY <2>1, <2>3
      <4> QED
        BY <2>1, <2>2, <4>1
    <3> QED
      BY <1>3, <2>3, <2>5, <3>1, WordStart
  <2>9. s[at[g]] \in Words /\ at[f] < at[g]
    BY <1>5, <1>6, <2>3
  <2>10. ASSUME NEW k \in Tokens(s) \ {at[f], at[g]} PROVE k < at[f] \/ s[k] = Separator
    <3> SUFFICES ASSUME ~(k < at[f]), s[k] # Separator PROVE FALSE
      OBVIOUS
    <3>1. /\ k \in Starts(s) /\ k \in Places(s)[1] /\ Kind(s, k) # "comment"
          /\ s[k] \notin Blanks
      BY DEF Tokens, Starts
    <3>2. k \in 1 .. Len(s)
      BY <3>1, PlacesAreInside
    <3>3. ~At(s, k, <<"-", "-">>)
      BY <3>1, <3>2, LineLexeme DEF LineComment
    <3>4. Within(s, k, k)
      <4>1. LexemeAt(s, k).last \in k .. Len(s)
        BY <3>2, LexemeLast
      <4>2. k \in k .. LexemeAt(s, k).last
        BY <3>2, <4>1
      <4> QED
        BY <3>1, <3>2, <4>2 DEF Within
    <3>5. ~Dropped(s, k)
      BY <3>3, <3>4, OthersAreKept
    <3>6. PICK y \in 1 .. Len(text) : at[y] = k
      BY <1>3, <3>1, <3>2, <3>5, InText
    <3>7. y > f
      <4>1. at[f] \in Int /\ k \in Int /\ k # at[f]
        BY <1>5, <3>2
      <4>2. y # f
        BY <3>6, <4>1
      <4>3. ~(y < f)
        <5>1. y < f => at[y] < at[f]
          BY <1>6
        <5> QED
          BY <3>6, <5>1
      <4> QED
        BY <2>3, <4>2, <4>3
    <3>8. text[y] \in Words
      BY <1>5, <2>4, <3>1, <3>6, <3>7
    <3>9. g < y /\ y <= e
      <4>1. ~(y < g)
        BY <2>1, <2>2, <3>7, <3>8
      <4>2. ~(e < y)
        BY <2>1, <2>2, <3>8
      <4>3. y # g
        BY <3>6
      <4> QED
        BY <2>3, <4>1, <4>2, <4>3
    <3>10. PICK x \in 1 .. Len(text) : y = x + 1 /\ g <= x
      <4>1. y - 1 \in 1 .. Len(text) /\ y = (y - 1) + 1 /\ g <= y - 1
        BY <2>3, <3>9
      <4> QED
        BY <4>1
    <3>11. text[x] \in Words
      <4>1. g <= x /\ x <= e
        BY <2>3, <3>9, <3>10
      <4> QED
        BY <2>1, <4>1
    <3>12. \A z \in 1 .. Len(text) : z > x => text[z] \in Words \cup Blanks
      BY <2>3, <2>5, <3>10
    <3>13. at[y] \notin Starts(s)
      BY <1>3, <3>8, <3>10, <3>11, <3>12, WordGoesOn
    <3> QED
      BY <3>1, <3>6, <3>13
  <2> QED
    BY <2>6, <2>7, <2>8, <2>9, <2>10
<1> QED
  <2>1. CASE Last(text) = "INTO OUTFILE"
    <3>1. Len(text) # 0
      BY <1>2, <1>4, EmptySeq
    <3>2. Len(text) \in 1 .. Len(text)
      BY <1>4, <3>1
    <3>3. text[Len(text)] = "INTO OUTFILE"
      BY <2>1 DEF Last
    <3> QED
      BY <1>7, <3>2, <3>3
  <2>2. CASE \E i \in DOMAIN text : At(text, i, <<"INTO OUTFILE", Space>>)
    <3>1. PICK i \in 1 .. Len(text) : At(text, i, <<"INTO OUTFILE", Space>>)
      BY <1>4, <2>2
    <3> DEFINE a == "INTO OUTFILE"
    <3>2. text[i] = a
      <4>1. At(text, i, <<a, Space>>)
        BY <3>1
      <4> HIDE DEF a
      <4> QED
        BY <1>4, <4>1, AtTwo
    <3> QED
      BY <1>7, <3>2
  <2> QED
    BY <1>1, <1>8, <2>1, <2>2

\* A query of known lexemes is refused for its output clause only when it has one
\* (HasUnsupportedOutputClause in internal/query/result.go).
THEOREM RefusalsAreForAClause == Spec => []RefusedOnlyForAClause
<1>1. TypeOK => RefusedOnlyForAClause
  <2> SUFFICES ASSUME TypeOK, HasUnsupportedOutputClause(sql), Complete(sql),
                      KnownLexemes(sql), ~HiddenDashes(sql)
               PROVE  RefusedOnlyForAClause
    BY DEF RefusedOnlyForAClause
  <2>1. sql \in Seq(Symbols)
    BY DEF TypeOK
  <2> QED
    BY <2>1, ClauseStands, Zenon DEF RefusedOnlyForAClause
<1> QED
  BY <1>1, TypeCorrect, PTL

=============================================================================

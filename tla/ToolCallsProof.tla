--------------------------- MODULE ToolCallsProof ---------------------------
(***************************************************************************)
(* What ToolCalls guarantees for any number of calls, connections, names,  *)
(* rows and limits: its invariant, the pages of ordered names it cuts, and *)
(* what run_query and run_statement report.                                *)
(***************************************************************************)
EXTENDS ToolCalls, FiniteSetTheorems, SequenceTheorems, TLAPS

(***************************************************************************)
(* Limits and arguments.                                                   *)
(***************************************************************************)

LEMMA RequestFacts ==
  ASSUME NEW r \in Requests
  PROVE  /\ r.tool \in {"ping", "list_databases", "list_tables", "run_query", "run_statement"}
         /\ r.tool # "ping" => r.limit \in GoInt
         /\ r.tool = "list_tables" =>
              /\ r.database \in Databases \union {0} /\ r.table \in Tables \union {0}
              /\ r.columns \in BOOLEAN
BY RequestAssumption

\* A limit is positive and one more than it is either one more or negative.
LEMMA LimitFacts ==
  ASSUME NEW arg \in GoInt, NEW default \in 1 .. Cap - 1
  PROVE  /\ resolveLimit(arg, default) \in 1 .. MaxInt
         /\ PlusOne(resolveLimit(arg, default)) \in Int
         /\ \/ PlusOne(resolveLimit(arg, default)) = resolveLimit(arg, default) + 1
            \/ resolveLimit(arg, default) = MaxInt /\ PlusOne(resolveLimit(arg, default)) < 0
BY LimitAssumption DEF GoInt, resolveLimit, PlusOne

(***************************************************************************)
(* Pages of ordered names.                                                 *)
(***************************************************************************)

LEMMA BeforeFacts ==
  ASSUME NEW S \in SUBSET Nat, IsFiniteSet(S), NEW y \in S
  PROVE  /\ Cardinality(Before(S, y)) \in 0 .. Cardinality(S) - 1
         /\ \A x \in S : x < y => Cardinality(Before(S, x)) < Cardinality(Before(S, y))
<1>1. /\ IsFiniteSet(Before(S, y)) /\ Before(S, y) \in SUBSET S /\ y \notin Before(S, y)
      /\ Cardinality(Before(S, y)) <= Cardinality(S)
      /\ Cardinality(S) = Cardinality(Before(S, y)) => S = Before(S, y)
  <2>1. Before(S, y) \in SUBSET S /\ y \notin Before(S, y)
    BY DEF Before
  <2> QED
    BY <2>1, FS_Subset
<1>2. Cardinality(S) \in Nat /\ Cardinality(Before(S, y)) \in Nat
  BY <1>1, FS_CardinalityType
<1>3. Cardinality(Before(S, y)) # Cardinality(S)
  BY <1>1
<1>4. Cardinality(Before(S, y)) \in 0 .. Cardinality(S) - 1
  BY <1>1, <1>2, <1>3
<1>5. ASSUME NEW x \in S, x < y
      PROVE  Cardinality(Before(S, x)) < Cardinality(Before(S, y))
  <2>1. Before(S, x) \in SUBSET Before(S, y) /\ x \in Before(S, y) /\ x \notin Before(S, x)
    <3>1. x \in Nat /\ y \in Nat /\ \A z \in S : z \in Nat
      OBVIOUS
    <3>2. \A z \in S : z < x => z < y
      BY <1>5, <3>1
    <3>3. ~(x < x)
      BY <3>1
    <3> QED
      BY <1>5, <3>2, <3>3 DEF Before
  <2>2. /\ IsFiniteSet(Before(S, x))
        /\ Cardinality(Before(S, x)) <= Cardinality(Before(S, y))
        /\ Cardinality(Before(S, y)) = Cardinality(Before(S, x)) => Before(S, y) = Before(S, x)
    BY <1>1, <2>1, FS_Subset
  <2>3. Cardinality(Before(S, x)) \in Nat
    BY <2>2, FS_CardinalityType
  <2>4. Cardinality(Before(S, y)) # Cardinality(Before(S, x))
    BY <2>1, <2>2
  <2> QED
    BY <1>2, <2>2, <2>3, <2>4
<1> QED
  BY <1>4, <1>5

\* Ascending lists a set, each element behind those before it.
LEMMA AscendingFacts ==
  ASSUME NEW S \in SUBSET Nat, IsFiniteSet(S)
  PROVE  /\ Cardinality(S) \in Nat
         /\ Ascending(S) \in Seq(S) /\ Len(Ascending(S)) = Cardinality(S)
         /\ \A i \in 1 .. Cardinality(S) :
              Ascending(S)[i] \in S /\ Cardinality(Before(S, Ascending(S)[i])) = i - 1
         /\ \A i, j \in 1 .. Cardinality(S) : i < j => Ascending(S)[i] < Ascending(S)[j]
<1> DEFINE n == Cardinality(S)
           rank == [x \in S |-> Cardinality(Before(S, x))]
           s == Ascending(S)
<1>1. n \in Nat
  BY FS_CardinalityType
<1>2. IsFiniteSet(0 .. n - 1) /\ Cardinality(0 .. n - 1) = n
  <2>1. 0 \in Int /\ n - 1 \in Int
    BY <1>1
  <2>2. /\ IsFiniteSet(0 .. n - 1)
        /\ Cardinality(0 .. n - 1) = IF 0 > n - 1 THEN 0 ELSE (n - 1) - 0 + 1
    BY <2>1, FS_Interval
  <2> HIDE DEF n
  <2>3. (IF 0 > n - 1 THEN 0 ELSE (n - 1) - 0 + 1) = n
    BY <1>1
  <2> QED
    BY <2>2, <2>3
<1>3. rank \in Injection(S, 0 .. n - 1)
  <2>1. rank \in [S -> 0 .. n - 1]
    BY BeforeFacts
  <2>2. ASSUME NEW x \in S, NEW y \in S, x # y PROVE rank[x] # rank[y]
    <3>1. /\ x \in Nat /\ y \in Nat
          /\ Cardinality(Before(S, x)) \in Int /\ Cardinality(Before(S, y)) \in Int
      BY BeforeFacts
    <3>2. /\ x < y => Cardinality(Before(S, x)) < Cardinality(Before(S, y))
          /\ y < x => Cardinality(Before(S, y)) < Cardinality(Before(S, x))
      BY BeforeFacts
    <3>3. Cardinality(Before(S, x)) # Cardinality(Before(S, y))
      BY <2>2, <3>1, <3>2
    <3> QED
      BY <3>3
  <2> HIDE DEF rank
  <2> QED
    BY <2>1, <2>2 DEF Injection, IsInjective
<1>4. rank \in Surjection(S, 0 .. n - 1)
  <2> HIDE DEF rank
  <2> QED
    BY <1>2, <1>3, FS_Injection
<1>5. \A i \in 1 .. n : \E x \in S : Cardinality(Before(S, x)) = i - 1
  <2> SUFFICES ASSUME NEW i \in 1 .. n PROVE \E x \in S : rank[x] = i - 1
    OBVIOUS
  <2>1. i - 1 \in 0 .. n - 1
    BY <1>1
  <2> HIDE DEF rank
  <2> QED
    BY <1>4, <2>1 DEF Surjection
<1>6. /\ s \in Seq(S) /\ Len(s) = n
      /\ \A i \in 1 .. n : s[i] \in S /\ Cardinality(Before(S, s[i])) = i - 1
  BY <1>1, <1>5 DEF Ascending
<1>7. ASSUME NEW i \in 1 .. n, NEW j \in 1 .. n, i < j PROVE s[i] < s[j]
  <2> HIDE DEF s
  <2>1. /\ s[i] \in Nat /\ s[j] \in Nat
        /\ Cardinality(Before(S, s[i])) = i - 1 /\ Cardinality(Before(S, s[j])) = j - 1
    BY <1>6
  <2>2. s[j] < s[i] => j - 1 < i - 1
    BY <1>6, <2>1, BeforeFacts
  <2>3. s[i] = s[j] => i - 1 = j - 1
    BY <2>1
  <2> QED
    BY <1>1, <1>7, <2>1, <2>2, <2>3
<1> QED
  BY <1>1, <1>6, <1>7

LEMMA SeqSubset == ASSUME NEW S, NEW T, S \subseteq T PROVE \A s \in Seq(S) : s \in Seq(T)
OBVIOUS

LEMMA FirstFacts ==
  ASSUME NEW S, NEW s \in Seq(S), NEW n \in Nat
  PROVE  /\ First(s, n) \in Seq(S)
         /\ Len(First(s, n)) = IF Len(s) < n THEN Len(s) ELSE n
         /\ \A i \in 1 .. Len(First(s, n)) : First(s, n)[i] = s[i]
<1> DEFINE m == IF Len(s) < n THEN Len(s) ELSE n
<1>1. m \in Nat /\ m <= Len(s) /\ \A i \in 1 .. m : s[i] \in S
  OBVIOUS
<1> HIDE DEF m
<1>2. /\ SubSeq(s, 1, m) \in Seq(S) /\ Len(SubSeq(s, 1, m)) = m
      /\ \A i \in 1 .. m : SubSeq(s, 1, m)[i] = s[i]
  BY <1>1, SubSeqProperties
<1> QED
  BY <1>2 DEF First, m

\* However many names were fetched, as long as a limit did not hide the sentinel, what
\* truncate keeps are the first of them, and it says when there are more.
LEMMA PageFacts ==
  ASSUME NEW S \in SUBSET Nat, IsFiniteSet(S), NEW limit \in Nat \ {0}, NEW s,
         s = Ascending(S) \/ s = Fetch(S, limit + 1)
  PROVE  /\ s \in Seq(S) /\ (s = <<>> <=> S = {})
         /\ truncate(s, limit).kept \in Seq(S) /\ truncate(s, limit).truncated \in BOOLEAN
         /\ (truncate(s, limit).kept = <<>> <=> S = {})
         /\ IsFirstOf(truncate(s, limit).kept, truncate(s, limit).truncated, S, limit)
<1> DEFINE n == Cardinality(S)
           all == Ascending(S)
           page == truncate(s, limit)
<1>1. /\ n \in Nat /\ all \in Seq(S) /\ Len(all) = n
      /\ \A i \in 1 .. n : all[i] \in S /\ Cardinality(Before(S, all[i])) = i - 1
      /\ \A i, j \in 1 .. n : i < j => all[i] < all[j]
  BY AscendingFacts
<1> HIDE DEF all
<1>2. /\ s \in Seq(S) /\ Len(s) = (IF s = all \/ n < limit + 1 THEN n ELSE limit + 1)
      /\ \A i \in 1 .. Len(s) : s[i] = all[i]
  <2>1. CASE s = all
    BY <1>1, <2>1
  <2>2. CASE s # all
    <3>1. s = First(all, limit + 1) /\ limit + 1 \in Nat
      BY <2>2 DEF Fetch, all
    <3>2. /\ s \in Seq(S) /\ Len(s) = IF Len(all) < limit + 1 THEN Len(all) ELSE limit + 1
          /\ \A i \in 1 .. Len(s) : s[i] = all[i]
      BY <1>1, <3>1, FirstFacts
    <3> QED
      BY <1>1, <2>2, <3>2
  <2> QED
    BY <2>1, <2>2
<1>3. Len(s) \in Nat /\ Len(s) <= n
  BY <1>1, <1>2
<1>4. /\ page.kept \in Seq(S) /\ Len(page.kept) = (IF Len(s) <= limit THEN Len(s) ELSE limit)
      /\ \A i \in 1 .. Len(page.kept) : page.kept[i] = s[i]
      /\ page.truncated \in BOOLEAN /\ (page.truncated <=> Len(s) > limit)
  <2>1. CASE Len(s) <= limit
    <3>1. page.kept = s /\ page.truncated = FALSE
      BY <1>3, <2>1 DEF truncate
    <3>2. ~(Len(s) > limit)
      BY <1>3, <2>1
    <3> HIDE DEF page
    <3>3. page.truncated \in BOOLEAN /\ (page.truncated <=> Len(s) > limit)
      BY <3>1, <3>2
    <3> QED
      BY <1>2, <2>1, <3>1, <3>3
  <2>2. CASE Len(s) > limit
    <3>1. page.kept = SubSeq(s, 1, limit) /\ page.truncated = TRUE
      BY <1>3, <2>2 DEF truncate
    <3>2. 1 \in Int /\ limit \in Int /\ \A i \in 1 .. limit : s[i] \in S
      BY <1>2, <1>3, <2>2
    <3>3. /\ SubSeq(s, 1, limit) \in Seq(S) /\ Len(SubSeq(s, 1, limit)) = limit
          /\ \A i \in 1 .. limit : SubSeq(s, 1, limit)[i] = s[i]
      BY <3>2, SubSeqProperties
    <3>4. ~(Len(s) <= limit)
      BY <1>3, <2>2
    <3> HIDE DEF page
    <3>5. page.truncated \in BOOLEAN /\ (page.truncated <=> Len(s) > limit)
      BY <2>2, <3>1
    <3> QED
      BY <3>1, <3>3, <3>4, <3>5
  <2> QED
    BY <1>3, <2>1, <2>2
<1> DEFINE ns == page.kept
<1> HIDE DEF page, n
<1>5. /\ Len(ns) = (IF n < limit THEN n ELSE limit) /\ (page.truncated <=> n > limit)
      /\ Len(ns) \in Nat /\ Len(ns) <= n /\ Len(ns) <= limit
  BY <1>1, <1>2, <1>3, <1>4
<1>6. \A i \in 1 .. Len(ns) : /\ i \in 1 .. n /\ ns[i] = all[i]
                               /\ ns[i] \in S /\ Cardinality(Before(S, ns[i])) = i - 1
  BY <1>1, <1>2, <1>3, <1>4, <1>5
<1>7. IsFirstOf(ns, page.truncated, S, limit)
  <2>1. Len(ns) = (IF Cardinality(S) < limit THEN Cardinality(S) ELSE limit)
    BY <1>5 DEF n
  <2>2. \A i, j \in 1 .. Len(ns) : i < j => ns[i] < ns[j]
    <3> SUFFICES ASSUME NEW i \in 1 .. Len(ns), NEW j \in 1 .. Len(ns), i < j
                 PROVE  ns[i] < ns[j]
      OBVIOUS
    <3>1. i \in 1 .. n /\ j \in 1 .. n /\ ns[i] = all[i] /\ ns[j] = all[j]
      BY <1>6
    <3> QED
      BY <1>1, <3>1
  <2>3. \A i \in 1 .. Len(ns) : ns[i] \in S /\ Cardinality({m \in S : m < ns[i]}) < limit
    <3> SUFFICES ASSUME NEW i \in 1 .. Len(ns)
                 PROVE  ns[i] \in S /\ Cardinality({m \in S : m < ns[i]}) < limit
      OBVIOUS
    <3>1. /\ ns[i] \in S /\ Cardinality(Before(S, ns[i])) = i - 1
          /\ Before(S, ns[i]) = {m \in S : m < ns[i]}
      BY <1>6 DEF Before
    <3>2. i - 1 < limit
      BY <1>5
    <3> HIDE DEF ns
    <3> QED
      BY <3>1, <3>2
  <2>4. page.truncated <=> Cardinality(S) > limit
    BY <1>5 DEF n
  <2> HIDE DEF ns
  <2> QED
    BY <2>1, <2>2, <2>3, <2>4 DEF IsFirstOf
<1>8. n = 0 <=> S = {}
  BY FS_EmptySet DEF n
<1>9. (s = <<>> <=> S = {}) /\ (ns = <<>> <=> S = {})
  <2>1. s = <<>> <=> Len(s) = 0
    BY <1>2
  <2>2. ns = <<>> <=> Len(ns) = 0
    BY <1>4
  <2> QED
    BY <1>1, <1>2, <1>3, <1>5, <1>8, <2>1, <2>2
<1>10. page.truncated \in BOOLEAN
  BY <1>4
<1> QED
  BY <1>2, <1>4, <1>7, <1>9, <1>10 DEF page

(***************************************************************************)
(* The invariant.                                                          *)
(***************************************************************************)

\* Call d keeps what it has; it may see more.
Keeps(d) ==
  /\ at'[d] = at[d] /\ req'[d] = req[d] /\ reply'[d] = reply[d]
  /\ names'[d] = names[d] /\ cut'[d] = cut[d] /\ columns'[d] = columns[d]
  /\ seen[d] \subseteq seen'[d]

LEMMA KeepsFacts ==
  ASSUME Inv, NEW d \in Calls, Keeps(d)
  PROVE  CallInv(d)'
<1>1. QueryOfItsTool(d)'
  BY DEF Inv, CallInv, QueryOfItsTool, Keeps, Running
<1>2. EmptyWasSeen(d)'
  BY DEF Inv, CallInv, EmptyWasSeen, Keeps
<1>3. ListedAtOneMoment(d)'
  BY DEF Inv, CallInv, ListedAtOneMoment, Keeps
<1>4. ColumnsSoFar(d)'
  BY DEF Inv, CallInv, ColumnsSoFar, Keeps, HadColumns
<1> QED
  BY <1>1, <1>2, <1>3, <1>4 DEF CallInv

LEMMA InvInit == Init => Inv
<1> SUFFICES ASSUME Init PROVE Inv
  OBVIOUS
<1>1. IsFiniteSet({}) /\ Cardinality({}) = 0
  BY FS_EmptySet
<1>2. TypeOK
  <2>1. stream \in [Calls -> Streams]
    <3>1. [reports : Reporting, unread : {0}, ended : {FALSE}] \subseteq Streams
      <4>1. {0} \subseteq Nat /\ {FALSE} \subseteq BOOLEAN
        OBVIOUS
      <4>2. SUFFICES ASSUME NEW s \in [reports : Reporting, unread : {0}, ended : {FALSE}]
                     PROVE  s \in Streams
        OBVIOUS
      <4>3. /\ s = [reports |-> s.reports, unread |-> s.unread, ended |-> s.ended]
            /\ s.reports \in Reporting /\ s.unread \in Nat /\ s.ended \in BOOLEAN
        BY <4>1
      <4> QED
        BY <4>3 DEF Streams
    <3> QED
      BY <3>1 DEF Init
  <2> QED
    BY <1>1, <2>1, BoundAssumption, PoolAssumption DEF Init, TypeOK, Contents, Running, Queries
<1>3. SeesTheServer /\ \A c \in Calls : CallInv(c)
  BY DEF Init, SeesTheServer, CallInv, QueryOfItsTool, EmptyWasSeen, ListedAtOneMoment,
         ColumnsSoFar, Running, Queries
<1> QED
  BY <1>2, <1>3 DEF Inv

\* A step that only changes the server, the pool or a counter.
LEMMA WorldStep ==
  ASSUME Inv, UNCHANGED <<at, callVars>>,
         catalog' \in Contents, data' \in Nat, changes' \in 0 .. MaxChanges,
         holds' \subseteq {c \in Calls : Running(c)},
         IsFiniteSet(holds'), Cardinality(holds') <= Conns,
         blocks' \in [Calls -> 0 .. InsertRows], stream' \in [Calls -> Streams],
         wrote' \in [Calls -> Nat],
         \/ UNCHANGED <<catalog, data, seen>>
         \/ Watch([catalog |-> catalog', data |-> data'])
  PROVE  Inv'
<1>1. /\ seen' \in [Calls -> SUBSET [catalog : Contents, data : Nat]]
      /\ \A c \in Calls : seen[c] \subseteq seen'[c]
      /\ \A c \in Calls : Running(c) => Server' \in seen'[c]
  <2>1. CASE UNCHANGED <<catalog, data, seen>>
    BY <2>1 DEF Inv, TypeOK, SeesTheServer, Server
  <2>2. CASE Watch([catalog |-> catalog', data |-> data'])
    BY <2>2 DEF Inv, TypeOK, Watch, Server
  <2> QED
    BY <2>1, <2>2
<1>2. TypeOK'
  BY <1>1 DEF Inv, TypeOK, Running, callVars
<1>3. SeesTheServer'
  BY <1>1 DEF SeesTheServer, Running
<1>4. \A d \in Calls : Keeps(d)
  BY <1>1 DEF Keeps, callVars
<1>5. \A d \in Calls : CallInv(d)'
  BY <1>4, KeepsFacts
<1> QED
  BY <1>2, <1>3, <1>5 DEF Inv

\* A step in which a call goes from one query to the next, or to its reply.
LEMMA CallStep ==
  ASSUME Inv, NEW c \in Calls,
         UNCHANGED <<catalog, data, changes, req, blocks, stream, wrote, seen>>,
         Running(c), holds' = holds \ {c},
         at' \in [Calls -> Queries \union {"replied"} \union {"idle"}],
         names' \in [Calls -> Seq(Tables)], cut' \in [Calls -> BOOLEAN],
         columns' \in [Calls -> Seq(ColumnCount)], reply' \in [Calls -> Replies \union {NoReply}],
         \A d \in Calls \ {c} :
           /\ at'[d] = at[d] /\ reply'[d] = reply[d] /\ names'[d] = names[d]
           /\ cut'[d] = cut[d] /\ columns'[d] = columns[d],
         reply'[c] = NoReply <=> at'[c] # "replied",
         Len(columns'[c]) <= Len(names'[c]),
         CallInv(c)'
  PROVE  Inv'
<1>1. IsFiniteSet(holds') /\ Cardinality(holds') <= Conns
  <2>1. /\ IsFiniteSet(holds) /\ Cardinality(holds) <= Conns /\ Cardinality(holds) \in Nat
        /\ Conns \in Nat
    BY FS_CardinalityType, PoolAssumption DEF Inv, TypeOK
  <2>2. /\ IsFiniteSet(holds \ {c})
        /\ Cardinality(holds \ {c}) = IF c \in holds THEN Cardinality(holds) - 1 ELSE Cardinality(holds)
    BY <2>1, FS_RemoveElement
  <2>3. Cardinality(holds \ {c}) <= Conns
    BY <2>1, <2>2
  <2> QED
    BY <2>2, <2>3
<1>2. TypeOK'
  BY <1>1 DEF Inv, TypeOK, Running
<1>3. SeesTheServer'
  BY DEF Inv, SeesTheServer, Running, Server
<1>4. \A d \in Calls \ {c} : Keeps(d)
  BY DEF Keeps
<1>5. \A d \in Calls : CallInv(d)'
  BY <1>4, KeepsFacts
<1> QED
  BY <1>2, <1>3, <1>5 DEF Inv

\* The last step of a call.
LEMMA ReplyStep ==
  ASSUME Inv, NEW c \in Calls, NEW r \in Replies,
         UNCHANGED <<catalog, data, changes, req, blocks, stream, wrote, seen>>,
         Running(c), holds' = holds \ {c}, Reply(c, r),
         names' \in [Calls -> Seq(Tables)], cut' \in [Calls -> BOOLEAN],
         columns' \in [Calls -> Seq(ColumnCount)],
         \A d \in Calls \ {c} :
           names'[d] = names[d] /\ cut'[d] = cut[d] /\ columns'[d] = columns[d],
         Len(columns'[c]) <= Len(names'[c])
  PROVE  Inv'
<1>1. /\ at' \in [Calls -> Queries \union {"replied"} \union {"idle"}]
      /\ reply' \in [Calls -> Replies \union {NoReply}]
      /\ at'[c] = "replied" /\ reply'[c] = r
      /\ \A d \in Calls \ {c} : at'[d] = at[d] /\ reply'[d] = reply[d]
  BY DEF Reply, Inv, TypeOK
<1>2. r # NoReply
  BY ReplyAssumption
<1>3. QueryOfItsTool(c) /\ ~Running(c)' /\ at[c] # "idle"
  BY <1>1 DEF Inv, CallInv, Running, Queries
<1>4. CallInv(c)'
  BY <1>1, <1>3 DEF CallInv, QueryOfItsTool, EmptyWasSeen, ListedAtOneMoment, ColumnsSoFar
<1> QED
  BY <1>1, <1>2, <1>4, CallStep

(***************************************************************************)
(* What a call asks and what it is told.                                   *)
(***************************************************************************)

LEMMA ErrorType == \A e \in Errors : Error(e) \in Replies
BY DEF Error, Replies

LEMMA ArgumentErrorType ==
  ASSUME NEW r \in Requests
  PROVE  ArgumentError(r) \in Errors \union {""}
BY RequestFacts DEF ArgumentError, GateError, Errors

\* The tool behind every query, and its arguments.
LEMMA AskerFacts ==
  ASSUME Inv, NEW c \in Calls, Running(c)
  PROVE  /\ req[c] \in Requests /\ Server \in seen[c]
         /\ at[c] = "ping" => req[c].tool = "ping"
         /\ at[c] = "databases" => req[c].tool = "list_databases"
         /\ at[c] = "query" => req[c].tool = "run_query"
         /\ at[c] = "exec" => req[c].tool = "run_statement"
         /\ at[c] \in {"lean", "exists", "columns"} =>
              req[c].tool = "list_tables" /\ req[c].database \in Databases
<1>1. QueryOfItsTool(c) /\ Server \in seen[c] /\ at[c] # "idle"
  BY DEF Inv, CallInv, SeesTheServer, Running, Queries
<1>2. req[c] \in Requests
  BY <1>1 DEF QueryOfItsTool
<1>3. req[c].tool \in {"ping", "list_databases", "list_tables", "run_query", "run_statement"}
  BY <1>2, RequestFacts
<1>4. /\ at[c] = "ping" => req[c].tool = "ping"
      /\ at[c] = "databases" => req[c].tool = "list_databases"
      /\ at[c] = "query" => req[c].tool = "run_query"
      /\ at[c] = "exec" => req[c].tool = "run_statement"
      /\ at[c] \in {"lean", "exists", "columns"} => req[c].tool = "list_tables"
  BY <1>1, <1>3 DEF QueryOfItsTool, FirstQuery
<1>5. req[c].tool = "list_tables" => req[c].database # 0
  BY <1>1 DEF QueryOfItsTool, ArgumentError
<1>6. req[c].tool = "list_tables" => req[c].database \in Databases
  BY <1>2, <1>5, RequestFacts
<1> QED
  BY <1>1, <1>2, <1>4, <1>6

\* What leanTables fetches of a database, and that limit + 1 or no LIMIT leaves the
\* sentinel visible.
LEMMA LeanFacts ==
  ASSUME Inv, NEW c \in Calls, at[c] = "lean"
  PROVE  LET r == req[c] IN
         /\ Matching(r) \in SUBSET Tables /\ Limit(r) \in Nat \ {0}
         /\ \/ LeanTables(r) = Ascending(Matching(r))
            \/ LeanTables(r) = Fetch(Matching(r), Limit(r) + 1)
         /\ Matching(r) = {t \in Names(Server, r.database) : r.table \in {0, t}}
<1> DEFINE r == req[c]
           default == IF r.columns THEN DefaultFoldedTableLimit ELSE DefaultTableLimit
<1>1. Running(c)
  BY DEF Running, Queries
<1>2. r \in Requests /\ r.tool = "list_tables" /\ r.database \in Databases /\ r.limit \in GoInt
  BY <1>1, AskerFacts, RequestFacts
<1>3. default \in 1 .. Cap - 1
  BY LimitAssumption
<1>4. Limit(r) = resolveLimit(r.limit, default)
  BY DEF Limit, resolveTableLimit
<1> HIDE DEF default
<1>5. /\ Limit(r) \in 1 .. MaxInt
      /\ PlusOne(Limit(r)) \in Int
      /\ PlusOne(Limit(r)) = Limit(r) + 1 \/ PlusOne(Limit(r)) < 0
  BY <1>2, <1>3, <1>4, LimitFacts
<1>6. Limit(r) \in Nat \ {0}
  BY <1>5, LimitAssumption
<1>7. \/ LeanTables(r) = Ascending(Matching(r))
      \/ LeanTables(r) = Fetch(Matching(r), Limit(r) + 1)
  <2>1. FetchOf(r) > 0 => FetchOf(r) = Limit(r) + 1
    BY <1>5 DEF FetchOf
  <2> QED
    BY <2>1 DEF LeanTables
<1>8. Matching(r) = {t \in Names(Server, r.database) : r.table \in {0, t}}
  BY DEF Matching, Names, Server
<1>9. Matching(r) \in SUBSET Tables
  BY DEF Matching
<1> QED
  BY <1>6, <1>7, <1>8, <1>9

LEMMA LeanPage ==
  ASSUME Inv, NEW c \in Calls, at[c] = "lean"
  PROVE  LET r == req[c]
             page == truncate(LeanTables(r), Limit(r))
         IN
         /\ LeanTables(r) \in Seq(Tables) /\ (LeanTables(r) = <<>> <=> Matching(r) = {})
         /\ page.kept \in Seq(Tables) /\ page.truncated \in BOOLEAN
         /\ (page.kept = <<>> <=> Matching(r) = {})
         /\ r.table = 0 =>
              IsFirstOf(page.kept, page.truncated, Names(Server, r.database), Limit(r))
<1> DEFINE r == req[c]
           S == Matching(r)
           page == truncate(LeanTables(r), Limit(r))
<1>1. /\ S \in SUBSET Tables /\ Limit(r) \in Nat \ {0}
      /\ LeanTables(r) = Ascending(S) \/ LeanTables(r) = Fetch(S, Limit(r) + 1)
      /\ S = {t \in Names(Server, r.database) : r.table \in {0, t}}
  BY LeanFacts
<1> HIDE DEF S
<1>2. S \in SUBSET Nat /\ IsFiniteSet(S)
  BY <1>1, NameAssumption, FS_Subset
<1>3. /\ LeanTables(r) \in Seq(S) /\ (LeanTables(r) = <<>> <=> S = {})
      /\ page.kept \in Seq(S) /\ page.truncated \in BOOLEAN
      /\ (page.kept = <<>> <=> S = {})
      /\ IsFirstOf(page.kept, page.truncated, S, Limit(r))
  BY <1>1, <1>2, PageFacts
<1>4. \A s \in Seq(S) : s \in Seq(Tables)
  BY <1>1, SeqSubset
<1>5. r.table = 0 => S = Names(Server, r.database)
  BY <1>1
<1> HIDE DEF page
<1> QED
  BY <1>3, <1>4, <1>5 DEF page, S

(***************************************************************************)
(* Every step keeps the invariant.                                         *)
(***************************************************************************)

\* A call that starts leaves the others what they have.
LEMMA StartKeeps ==
  ASSUME Inv, NEW c \in Calls, NEW d \in Calls \ {c}, Start(c)
  PROVE  Keeps(d)
<1>1. /\ DOMAIN at = Calls /\ DOMAIN req = Calls /\ DOMAIN seen = Calls
      /\ DOMAIN reply = Calls
  BY DEF Inv, TypeOK
<1>2. /\ \E x, y : at' = [at EXCEPT ![c] = x] /\ req' = [req EXCEPT ![c] = y]
      /\ seen' = seen \/ \E x : seen' = [seen EXCEPT ![c] = x]
      /\ reply' = reply \/ \E x : reply' = [reply EXCEPT ![c] = x]
      /\ UNCHANGED <<names, cut, columns>>
  BY DEF Start
<1>3. at'[d] = at[d] /\ req'[d] = req[d]
  BY <1>1, <1>2
<1>4. seen'[d] = seen[d] /\ reply'[d] = reply[d]
  BY <1>1, <1>2
<1> QED
  BY <1>2, <1>3, <1>4 DEF Keeps

LEMMA StartStep == ASSUME Inv, NEW c \in Calls, Start(c) PROVE Inv'
<1>1. PICK r \in Requests :
        /\ req' = [req EXCEPT ![c] = r]
        /\ IF ArgumentError(r) = ""
             THEN /\ at' = [at EXCEPT ![c] = FirstQuery(r.tool)]
                  /\ seen' = [seen EXCEPT ![c] = {Server}]
                  /\ UNCHANGED reply
             ELSE /\ at' = [at EXCEPT ![c] = "replied"]
                  /\ reply' = [reply EXCEPT ![c] = Error(ArgumentError(r))]
                  /\ UNCHANGED seen
  BY DEF Start
<1>2. /\ at[c] = "idle" /\ columns[c] = <<>>
      /\ UNCHANGED <<catalog, data, changes, holds, names, cut, columns, blocks, stream, wrote>>
  BY DEF Start, Inv, CallInv, ListedAtOneMoment
<1>3. FirstQuery(r.tool) \in {"ping", "databases", "lean", "query", "exec"}
  BY RequestFacts DEF FirstQuery
<1>4. Error(ArgumentError(r)) \in Replies \/ ArgumentError(r) = ""
  BY ArgumentErrorType, ErrorType
<1>5. /\ at'[c] = (IF ArgumentError(r) = "" THEN FirstQuery(r.tool) ELSE "replied")
      /\ req'[c] = r
      /\ \A d \in Calls \ {c} : Keeps(d)
  <2>1. DOMAIN at = Calls /\ DOMAIN req = Calls
    BY DEF Inv, TypeOK
  <2>2. /\ at'[c] = (IF ArgumentError(r) = "" THEN FirstQuery(r.tool) ELSE "replied")
        /\ req'[c] = r
    BY <1>1, <2>1
  <2> QED
    BY <2>2, StartKeeps
<1>6. TypeOK'
  <2>1. /\ at' \in [Calls -> Queries \union {"idle", "replied"}]
        /\ req' \in [Calls -> Requests \union {NoReply}]
    BY <1>1, <1>3 DEF Inv, TypeOK, Queries
  <2>2. Server \in [catalog : Contents, data : Nat]
    BY DEF Inv, TypeOK, Server
  <2>3. /\ seen' \in [Calls -> SUBSET [catalog : Contents, data : Nat]]
        /\ reply' \in [Calls -> Replies \union {NoReply}]
        /\ reply'[c] = NoReply <=> at'[c] # "replied"
    <3>1. /\ seen \in [Calls -> SUBSET [catalog : Contents, data : Nat]]
          /\ reply \in [Calls -> Replies \union {NoReply}]
          /\ reply[c] = NoReply
      BY <1>2 DEF Inv, TypeOK
    <3>2. CASE ArgumentError(r) = ""
      <4>1. seen' = [seen EXCEPT ![c] = {Server}] /\ reply' = reply
        BY <1>1, <3>2
      <4>2. at'[c] # "replied"
        BY <1>3, <1>5, <3>2
      <4> QED
        BY <2>2, <3>1, <4>1, <4>2
    <3>3. CASE ArgumentError(r) # ""
      <4> DEFINE e == Error(ArgumentError(r))
      <4>1. seen' = seen /\ reply' = [reply EXCEPT ![c] = e] /\ at'[c] = "replied"
        BY <1>1, <1>5, <3>3
      <4>2. e \in Replies /\ e # NoReply
        BY <1>4, <3>3, ReplyAssumption
      <4> HIDE DEF e
      <4> QED
        BY <3>1, <4>1, <4>2
    <3> QED
      BY <3>2, <3>3
  <2>4. c \notin holds
    BY <1>2 DEF Inv, TypeOK, Running, Queries
  <2>5. holds' \subseteq {d \in Calls : Running(d)'}
    BY <1>2, <1>5, <2>4 DEF Inv, TypeOK, Running, Keeps
  <2> QED
    BY <1>2, <1>5, <2>1, <2>3, <2>5 DEF Inv, TypeOK, Keeps
<1>7. SeesTheServer'
  <2>1. Server' = Server
    BY <1>2 DEF Server
  <2>2. Running(c)' => Server \in seen'[c]
    <3>1. seen \in [Calls -> SUBSET [catalog : Contents, data : Nat]]
      BY DEF Inv, TypeOK
    <3>2. Running(c)' => ArgumentError(r) = ""
      BY <1>5 DEF Running, Queries
    <3>3. ArgumentError(r) = "" => seen' = [seen EXCEPT ![c] = {Server}]
      BY <1>1
    <3> QED
      BY <3>1, <3>2, <3>3
  <2>3. \A d \in Calls \ {c} : Running(d)' => Server \in seen'[d]
    BY <1>5 DEF Keeps, Running, Inv, SeesTheServer
  <2> QED
    BY <2>1, <2>2, <2>3 DEF SeesTheServer
<1>8. CallInv(c)'
  <2>1. QueryOfItsTool(c)'
    BY <1>3, <1>5 DEF QueryOfItsTool, Running, Queries
  <2>2. EmptyWasSeen(c)' /\ ListedAtOneMoment(c)' /\ ColumnsSoFar(c)'
    BY <1>2, <1>3, <1>5 DEF EmptyWasSeen, ListedAtOneMoment, ColumnsSoFar
  <2> QED
    BY <2>1, <2>2 DEF CallInv
<1> QED
  BY <1>5, <1>6, <1>7, <1>8, KeepsFacts DEF Inv

LEMMA AcquireStep == ASSUME Inv, NEW c \in Calls, Acquire(c) PROVE Inv'
<1>1. /\ holds' = holds \union {c} /\ c \notin holds /\ Running(c) /\ Cardinality(holds) < Conns
      /\ UNCHANGED <<catalog, data, changes, at, blocks, stream, wrote, callVars, seen>>
  BY DEF Acquire
<1>2. IsFiniteSet(holds) /\ Cardinality(holds) \in Nat /\ Conns \in Nat
  BY FS_CardinalityType, PoolAssumption DEF Inv, TypeOK
<1>3. IsFiniteSet(holds \union {c}) /\ Cardinality(holds \union {c}) = Cardinality(holds) + 1
  BY <1>1, <1>2, FS_AddElement
<1>4. Cardinality(holds \union {c}) <= Conns
  BY <1>1, <1>2, <1>3
<1>5. /\ catalog' \in Contents /\ data' \in Nat /\ changes' \in 0 .. MaxChanges
      /\ blocks' \in [Calls -> 0 .. InsertRows] /\ stream' \in [Calls -> Streams]
      /\ wrote' \in [Calls -> Nat]
      /\ holds' \subseteq {d \in Calls : Running(d)}
  BY <1>1 DEF Inv, TypeOK
<1> QED
  BY <1>1, <1>3, <1>4, <1>5, WorldStep

\* Steps in which one row, block or catalog entry more is on the server, or the
\* driver has counted one.
LEMMA ServerStep ==
  ASSUME Inv, \/ ChangeCatalog \/ AddRow
              \/ \E c \in Calls : WriteBlock(c) \/ EndOfStream(c) \/ Progress(c)
  PROVE  Inv'
<1>1. /\ catalog \in Contents /\ data \in Nat /\ changes \in 0 .. MaxChanges
      /\ blocks \in [Calls -> 0 .. InsertRows] /\ stream \in [Calls -> Streams]
      /\ wrote \in [Calls -> Nat]
      /\ holds \subseteq {c \in Calls : Running(c)}
      /\ IsFiniteSet(holds) /\ Cardinality(holds) <= Conns
      /\ data + 1 \in Nat /\ InsertRows \in Nat /\ MaxChanges \in Nat
  BY BoundAssumption DEF Inv, TypeOK
<1>2. CASE ChangeCatalog
  <2>0. PICK d \in Databases : \E content \in Changed(d) :
          /\ catalog' = [catalog EXCEPT ![d] = content]
          /\ Watch([Server EXCEPT !.catalog = [catalog EXCEPT ![d] = content]])
    BY <1>2 DEF ChangeCatalog
  <2>1. PICK content \in Changed(d) :
          /\ catalog' = [catalog EXCEPT ![d] = content]
          /\ Watch([Server EXCEPT !.catalog = [catalog EXCEPT ![d] = content]])
    BY <2>0
  <2>2. content \in {Absent} \union [Tables -> {0} \union Widths]
    <3>1. catalog[d] # Absent => catalog[d] \in [Tables -> {0} \union Widths]
      BY <1>1 DEF Contents
    <3> QED
      BY <3>1 DEF Changed, Empty
  <2>3. catalog' \in Contents
    BY <1>1, <2>1, <2>2 DEF Contents
  <2>4. /\ changes' \in 0 .. MaxChanges
        /\ UNCHANGED <<data, holds, at, blocks, stream, wrote, callVars>>
    BY <1>1, <1>2 DEF ChangeCatalog
  <2>5. Watch([catalog |-> catalog', data |-> data'])
    BY <2>1, <2>4 DEF Server
  <2> QED
    BY <1>1, <2>3, <2>4, <2>5, WorldStep
<1>3. CASE AddRow
  <2>1. /\ data' = data + 1 /\ UNCHANGED <<catalog, changes, holds, at, blocks, stream, wrote, callVars>>
        /\ Watch([catalog |-> catalog', data |-> data'])
    BY <1>3 DEF AddRow, Server
  <2> QED
    BY <1>1, <2>1, WorldStep
<1>4. ASSUME NEW c \in Calls, WriteBlock(c) PROVE Inv'
  <2>1. /\ data' = data + 1 /\ UNCHANGED <<catalog, changes, holds, at, wrote, callVars>>
        /\ Watch([catalog |-> catalog', data |-> data'])
    BY <1>4 DEF WriteBlock, Server
  <2>2. blocks' \in [Calls -> 0 .. InsertRows]
    <3>1. blocks[c] + 1 \in 0 .. InsertRows
      BY <1>1, <1>4 DEF WriteBlock
    <3> QED
      BY <1>1, <1>4, <3>1 DEF WriteBlock
  <2>3. stream' \in [Calls -> Streams]
    BY <1>1, <1>4 DEF WriteBlock, Streams
  <2> QED
    BY <1>1, <2>1, <2>2, <2>3, WorldStep
<1>5. ASSUME NEW c \in Calls, EndOfStream(c) \/ Progress(c) PROVE Inv'
  <2>1. UNCHANGED <<catalog, data, changes, holds, at, blocks, callVars, seen>>
    BY <1>5 DEF EndOfStream, Progress
  <2>2. stream' \in [Calls -> Streams]
    <3>1. stream[c] \in [reports : Reporting, unread : Nat, ended : BOOLEAN]
      BY <1>1 DEF Streams
    <3>2. CASE EndOfStream(c)
      BY <1>1, <3>1, <3>2 DEF EndOfStream, Streams
    <3>3. CASE Progress(c)
      <4>1. stream[c].unread - 1 \in Nat
        BY <3>1, <3>3 DEF Progress
      <4> QED
        BY <1>1, <3>1, <3>3, <4>1 DEF Progress, Streams
    <3> QED
      BY <1>5, <3>2, <3>3
  <2>3. wrote' \in [Calls -> Nat]
    BY <1>1, <1>5 DEF EndOfStream, Progress
  <2> QED
    BY <1>1, <2>1, <2>2, <2>3, WorldStep
<1> QED
  BY <1>2, <1>3, <1>4, <1>5

\* A reply that leaves what the call listed as it was.
LEMMA PlainReplyStep ==
  ASSUME Inv, NEW c \in Calls, NEW r \in Replies, Running(c),
         UNCHANGED <<catalog, data, changes, req, names, cut, columns, blocks, stream, wrote, seen>>,
         holds' = holds \ {c}, Reply(c, r)
  PROVE  Inv'
<1>1. /\ names \in [Calls -> Seq(Tables)] /\ cut \in [Calls -> BOOLEAN]
      /\ columns \in [Calls -> Seq(ColumnCount)] /\ Len(columns[c]) <= Len(names[c])
  BY DEF Inv, TypeOK
<1> QED
  BY <1>1, ReplyStep

\* list_databases returns names in order, or an error.
LEMMA ListDatabasesReply ==
  ASSUME Inv, NEW c \in Calls, ListDatabases(c)
  PROVE  \E r \in Replies :
           /\ Reply(c, r)
           /\ \/ r \in {Error("negative limit"), Error("cap")}
              \/ \E ns, truncated :
                   /\ r = [names |-> ns, truncated |-> truncated]
                   /\ IsFirstOf(ns, truncated, {d \in Databases : Server.catalog[d] # Absent},
                                resolveLimit(req[c].limit, DefaultDatabaseLimit))
<1> DEFINE limit   == resolveLimit(req[c].limit, DefaultDatabaseLimit)
           fetched == Fetch(Existing, PlusOne(limit))
           page    == truncate(fetched, limit)
<1>1. Running(c) /\ at[c] = "databases"
  BY DEF ListDatabases, Running, Queries
<1>2. /\ limit \in 1 .. MaxInt /\ PlusOne(limit) \in Int
      /\ PlusOne(limit) = limit + 1 \/ PlusOne(limit) < 0
  <2>1. req[c] \in Requests /\ req[c].tool = "list_databases"
    BY <1>1, AskerFacts
  <2>2. req[c].limit \in GoInt /\ DefaultDatabaseLimit \in 1 .. Cap - 1
    BY <2>1, RequestFacts, LimitAssumption
  <2> QED
    BY <2>2, LimitFacts
<1>3. Existing \in SUBSET Databases /\ Existing \in SUBSET Nat /\ IsFiniteSet(Existing)
  <2>1. Existing \in SUBSET Databases
    BY DEF Existing
  <2> QED
    BY <2>1, NameAssumption, FS_Subset
<1>4. limit \in Nat \ {0}
  BY <1>2, LimitAssumption
<1>5. Reply(c, IF PlusOne(limit) < 0 THEN Error("negative limit")
               ELSE IF Overflows(Len(fetched)) THEN Error("cap")
               ELSE [names |-> page.kept, truncated |-> page.truncated])
  BY DEF ListDatabases
<1>6. Error("negative limit") \in Replies /\ Error("cap") \in Replies
  BY ErrorType DEF Errors
<1>7. ASSUME ~(PlusOne(limit) < 0)
      PROVE  /\ [names |-> page.kept, truncated |-> page.truncated] \in Replies
             /\ IsFirstOf(page.kept, page.truncated,
                          {d \in Databases : Server.catalog[d] # Absent}, limit)
  <2>1. fetched = Fetch(Existing, limit + 1)
    BY <1>2, <1>7
  <2>2. /\ page.kept \in Seq(Existing) /\ page.truncated \in BOOLEAN
        /\ IsFirstOf(page.kept, page.truncated, Existing, limit)
    BY <1>3, <1>4, <2>1, PageFacts
  <2>3. page.kept \in Seq(Databases)
    BY <1>3, <2>2, SeqSubset
  <2>4. Existing = {d \in Databases : Server.catalog[d] # Absent}
    BY DEF Existing, Server
  <2> HIDE DEF page, limit
  <2> QED
    BY <2>2, <2>3, <2>4 DEF Replies
<1> HIDE DEF page, fetched, limit
<1> QED
  BY <1>5, <1>6, <1>7 DEF limit

\* The steps after which a call has its reply and nothing else has changed.
LEMMA SimpleStep ==
  ASSUME Inv, NEW c \in Calls,
         \/ AcquireFails(c) \/ QueryFails(c) \/ ExecFails(c) \/ Ping(c)
         \/ ListDatabases(c) \/ DatabaseExists(c) \/ RunQuery(c) \/ ExecDone(c)
  PROVE  Inv'
<1> DEFINE Same == UNCHANGED <<catalog, data, changes, req, names, cut, columns, blocks, stream, wrote, seen>>
<1>1. \A d \in holds : Running(d)
  BY DEF Inv, TypeOK
<1>2. /\ Error("connection") \in Replies /\ Error("query") \in Replies
      /\ Error("statement") \in Replies /\ Error("cap") \in Replies
      /\ Error("negative limit") \in Replies
  BY ErrorType DEF Errors
<1>3. CASE AcquireFails(c)
  <2>1. Running(c) /\ Same /\ holds' = holds \ {c} /\ Reply(c, Error("connection"))
    BY <1>3 DEF AcquireFails
  <2> QED
    BY <1>2, <2>1, PlainReplyStep
<1>4. CASE QueryFails(c)
  <2>1. Running(c) /\ Same /\ holds' = holds \ {c} /\ Reply(c, Error("query"))
    BY <1>1, <1>4 DEF QueryFails, Release
  <2> QED
    BY <1>2, <2>1, PlainReplyStep
<1>5. CASE ExecFails(c)
  <2>1. Running(c) /\ Same /\ holds' = holds \ {c} /\ Reply(c, Error("statement"))
    BY <1>1, <1>5 DEF ExecFails, Release
  <2> QED
    BY <1>2, <2>1, PlainReplyStep
<1>6. CASE Ping(c)
  <2>1. Running(c) /\ Same /\ holds' = holds \ {c} /\ Reply(c, [ok |-> 1])
    BY <1>1, <1>6 DEF Ping, Release
  <2>2. [ok |-> 1] \in Replies
    BY DEF Replies
  <2> QED
    BY <2>1, <2>2, PlainReplyStep
<1>7. CASE ListDatabases(c)
  <2>1. Running(c) /\ Same /\ holds' = holds \ {c}
    BY <1>1, <1>7 DEF ListDatabases, Release
  <2>2. PICK r \in Replies : Reply(c, r)
    BY <1>7, ListDatabasesReply
  <2> QED
    BY <2>1, <2>2, PlainReplyStep
<1>8. CASE DatabaseExists(c)
  <2> DEFINE r == IF Verdict(req[c]) # "" THEN Error(Verdict(req[c])) ELSE Listing(<<>>, FALSE, <<>>)
  <2>1. Running(c) /\ Same /\ holds' = holds \ {c} /\ Reply(c, r)
    BY <1>1, <1>8 DEF DatabaseExists, Release
  <2>2. Verdict(req[c]) \in Errors \union {""}
    BY DEF Verdict, Errors
  <2>3. Listing(<<>>, FALSE, <<>>) \in Replies
    BY DEF Listing, Replies
  <2>4. r \in Replies
    BY <2>2, <2>3, ErrorType
  <2> QED
    BY <2>1, <2>4, PlainReplyStep
<1>9. CASE RunQuery(c)
  <2> DEFINE rows == FetchedRows(req[c])
             limit == RowLimit(req[c])
             r == IF CanBound(req[c].sql) /\ PlusOne(limit) < 0 THEN Error("negative limit")
                  ELSE IF Overflows(rows) THEN Error("cap") ELSE Shape(rows, limit)
  <2>1. Running(c) /\ Same /\ holds' = holds \ {c} /\ Reply(c, r)
    BY <1>1, <1>9 DEF RunQuery, Release
  <2>2. limit \in 1 .. MaxInt /\ PlusOne(limit) \in Int
    <3>1. at[c] = "query"
      BY <1>9 DEF RunQuery
    <3>2. req[c].limit \in GoInt
      BY <2>1, <3>1, AskerFacts, RequestFacts
    <3> QED
      BY <3>2, LimitFacts, LimitAssumption DEF RowLimit
  <2>3. data \in Nat
    BY DEF Inv, TypeOK
  <2>4. ASSUME ~(CanBound(req[c].sql) /\ PlusOne(limit) < 0)
        PROVE  Shape(rows, limit) \in Replies
    <3>1. rows \in Nat
      BY <2>2, <2>3, <2>4 DEF FetchedRows
    <3>2. limit \in Nat
      BY <2>2, LimitAssumption
    <3> HIDE DEF rows, limit
    <3>3. (IF rows > limit THEN limit ELSE rows) \in Nat /\ (rows > limit) \in BOOLEAN
      BY <3>1, <3>2
    <3> QED
      BY <3>3 DEF Shape, Replies
  <2>5. r \in Replies
    BY <1>2, <2>4
  <2> HIDE DEF r
  <2> QED
    BY <2>1, <2>5, PlainReplyStep
<1>10. CASE ExecDone(c)
  <2>1. Running(c) /\ Same /\ holds' = holds \ {c} /\ Reply(c, [written |-> wrote[c]])
    BY <1>1, <1>10 DEF ExecDone, Release
  <2>2. wrote[c] \in Nat
    BY DEF Inv, TypeOK
  <2>3. [written |-> wrote[c]] \in Replies
    BY <2>2 DEF Replies
  <2> QED
    BY <2>1, <2>3, PlainReplyStep
<1> QED
  BY <1>3, <1>4, <1>5, <1>6, <1>7, <1>8, <1>9, <1>10

LEMMA LeanTablesEmptyStep == ASSUME Inv, NEW c \in Calls, LeanTablesEmpty(c) PROVE Inv'
<1>1. /\ at[c] = "lean" /\ Running(c) /\ LeanTables(req[c]) = <<>>
      /\ holds' = holds \ {c} /\ at' = [at EXCEPT ![c] = "exists"]
      /\ UNCHANGED <<catalog, data, changes, callVars, blocks, stream, wrote, seen>>
  BY DEF LeanTablesEmpty, Release, Running, Queries
<1>2. /\ at \in [Calls -> Queries \union {"idle", "replied"}] /\ at'[c] = "exists"
      /\ \A d \in Calls \ {c} : at'[d] = at[d]
      /\ names \in [Calls -> Seq(Tables)] /\ cut \in [Calls -> BOOLEAN]
      /\ columns \in [Calls -> Seq(ColumnCount)] /\ reply \in [Calls -> Replies \union {NoReply}]
      /\ Len(columns[c]) <= Len(names[c]) /\ reply[c] = NoReply
      /\ at' \in [Calls -> Queries \union {"replied"} \union {"idle"}]
  <2>1. /\ at \in [Calls -> Queries \union {"idle", "replied"}]
        /\ names \in [Calls -> Seq(Tables)] /\ cut \in [Calls -> BOOLEAN]
        /\ columns \in [Calls -> Seq(ColumnCount)] /\ reply \in [Calls -> Replies \union {NoReply}]
        /\ Len(columns[c]) <= Len(names[c]) /\ reply[c] = NoReply
    BY <1>1 DEF Inv, TypeOK
  <2>2. at' \in [Calls -> Queries \union {"replied"} \union {"idle"}]
    BY <1>1, <2>1 DEF Queries
  <2> QED
    BY <1>1, <2>1, <2>2
<1>3. EmptyWasSeen(c)'
  <2>1. Server \in seen[c]
    BY <1>1, AskerFacts
  <2>2. {t \in Names(Server, req[c].database) : req[c].table \in {0, t}} = {}
    BY <1>1, LeanPage, LeanFacts
  <2>3. \A t \in Names(Server, req[c].database) : req[c].table \notin {0, t}
    BY <2>2
  <2> QED
    BY <1>1, <2>1, <2>3 DEF EmptyWasSeen, callVars
<1>4. QueryOfItsTool(c)'
  <2>1. QueryOfItsTool(c) /\ req[c].tool = "list_tables"
    BY <1>1, AskerFacts DEF Inv, CallInv
  <2> QED
    BY <1>1, <1>2, <2>1 DEF QueryOfItsTool, callVars
<1>5. ListedAtOneMoment(c)' /\ ColumnsSoFar(c)'
  BY <1>2 DEF ListedAtOneMoment, ColumnsSoFar
<1>6. CallInv(c)'
  BY <1>3, <1>4, <1>5 DEF CallInv
<1> QED
  BY <1>1, <1>2, <1>6, CallStep DEF callVars

\* leanTables found tables: the call keeps a page of them, and replies or goes on to
\* their columns.
LEMMA LeanTablesFoundFacts ==
  ASSUME Inv, NEW c \in Calls, LeanTablesFound(c)
  PROVE  \E ns \in Seq(Tables), ct \in BOOLEAN :
           /\ ns # <<>>
           /\ req[c].table = 0 =>
                IsFirstOf(ns, ct, Names(Server, req[c].database), Limit(req[c]))
           /\ names' = [names EXCEPT ![c] = ns] /\ cut' = [cut EXCEPT ![c] = ct]
           /\ \/ Reply(c, Error("cap"))
              \/ WantsColumns(req[c]) /\ at' = [at EXCEPT ![c] = "columns"] /\ UNCHANGED reply
              \/ ~WantsColumns(req[c]) /\ Reply(c, Listing(ns, ct, <<>>))
<1> DEFINE r    == req[c]
           all  == LeanTables(r)
           kept == IF r.table = 0 THEN truncate(all, Limit(r))
                   ELSE [kept |-> all, truncated |-> FALSE]
<1>1. /\ at[c] = "lean" /\ all # <<>>
      /\ names' = [names EXCEPT ![c] = kept.kept] /\ cut' = [cut EXCEPT ![c] = kept.truncated]
      /\ \/ Reply(c, Error("cap"))
         \/ WantsColumns(r) /\ at' = [at EXCEPT ![c] = "columns"] /\ UNCHANGED reply
         \/ ~WantsColumns(r) /\ Reply(c, Listing(kept.kept, kept.truncated, <<>>))
  BY DEF LeanTablesFound
<1>2. /\ kept.kept \in Seq(Tables) /\ kept.truncated \in BOOLEAN /\ kept.kept # <<>>
      /\ r.table = 0 => IsFirstOf(kept.kept, kept.truncated, Names(Server, r.database), Limit(r))
  <2>1. CASE r.table = 0
    <3>1. kept = truncate(all, Limit(r))
      BY <2>1
    <3> HIDE DEF kept
    <3> QED
      BY <1>1, <3>1, LeanPage
  <2>2. CASE r.table # 0
    <3>1. kept.kept = all /\ kept.truncated = FALSE /\ all \in Seq(Tables)
      BY <1>1, <2>2, LeanPage
    <3> HIDE DEF kept, all
    <3> QED
      BY <1>1, <2>2, <3>1
  <2> QED
    BY <2>1, <2>2
<1> HIDE DEF kept
<1> QED
  BY <1>1, <1>2

LEMMA LeanTablesFoundStep == ASSUME Inv, NEW c \in Calls, LeanTablesFound(c) PROVE Inv'
<1>1. /\ at[c] = "lean" /\ Running(c) /\ holds' = holds \ {c}
      /\ UNCHANGED <<catalog, data, changes, req, columns, blocks, stream, wrote, seen>>
  BY DEF LeanTablesFound, Release, Running, Queries
<1>2. PICK ns \in Seq(Tables) : \E ct \in BOOLEAN :
        /\ ns # <<>>
        /\ req[c].table = 0 => IsFirstOf(ns, ct, Names(Server, req[c].database), Limit(req[c]))
        /\ names' = [names EXCEPT ![c] = ns] /\ cut' = [cut EXCEPT ![c] = ct]
        /\ \/ Reply(c, Error("cap"))
           \/ WantsColumns(req[c]) /\ at' = [at EXCEPT ![c] = "columns"] /\ UNCHANGED reply
           \/ ~WantsColumns(req[c]) /\ Reply(c, Listing(ns, ct, <<>>))
  BY LeanTablesFoundFacts
<1>3. PICK ct \in BOOLEAN :
        /\ ns # <<>>
        /\ req[c].table = 0 => IsFirstOf(ns, ct, Names(Server, req[c].database), Limit(req[c]))
        /\ names' = [names EXCEPT ![c] = ns] /\ cut' = [cut EXCEPT ![c] = ct]
        /\ \/ Reply(c, Error("cap"))
           \/ WantsColumns(req[c]) /\ at' = [at EXCEPT ![c] = "columns"] /\ UNCHANGED reply
           \/ ~WantsColumns(req[c]) /\ Reply(c, Listing(ns, ct, <<>>))
  BY <1>2
<1>4. /\ columns[c] = <<>> /\ Len(columns[c]) = 0 /\ Len(ns) \in Nat /\ Len(ns) > 0
      /\ columns \in [Calls -> Seq(ColumnCount)] /\ reply[c] = NoReply
      /\ reply \in [Calls -> Replies \union {NoReply}]
      /\ at \in [Calls -> Queries \union {"idle", "replied"}]
  <2>1. /\ columns \in [Calls -> Seq(ColumnCount)] /\ reply[c] = NoReply
        /\ reply \in [Calls -> Replies \union {NoReply}]
        /\ at \in [Calls -> Queries \union {"idle", "replied"}]
    BY <1>1 DEF Inv, TypeOK
  <2>2. columns[c] = <<>>
    BY <1>1 DEF Inv, CallInv, ListedAtOneMoment
  <2>3. Len(ns) \in Nat /\ Len(ns) > 0
    BY <1>3
  <2>4. Len(columns[c]) = 0
    BY <2>2
  <2> QED
    BY <2>1, <2>2, <2>3, <2>4
<1>5. /\ names' \in [Calls -> Seq(Tables)] /\ cut' \in [Calls -> BOOLEAN]
      /\ names'[c] = ns /\ cut'[c] = ct
      /\ \A d \in Calls \ {c} : names'[d] = names[d] /\ cut'[d] = cut[d]
  <2>1. names \in [Calls -> Seq(Tables)] /\ cut \in [Calls -> BOOLEAN]
    BY DEF Inv, TypeOK
  <2> QED
    BY <1>3, <2>1
<1>6. Len(columns'[c]) <= Len(names'[c])
  BY <1>1, <1>4, <1>5
<1>7. ASSUME NEW r \in Replies, Reply(c, r) PROVE Inv'
  BY <1>1, <1>4, <1>5, <1>6, <1>7, ReplyStep
<1>8. ASSUME at' = [at EXCEPT ![c] = "columns"], UNCHANGED reply PROVE Inv'
  <2>1. /\ at'[c] = "columns" /\ \A d \in Calls \ {c} : at'[d] = at[d]
        /\ at' \in [Calls -> Queries \union {"replied"} \union {"idle"}]
    BY <1>4, <1>8 DEF Queries
  <2>2. QueryOfItsTool(c)'
    <3>1. QueryOfItsTool(c) /\ req[c].tool = "list_tables"
      BY <1>1, AskerFacts DEF Inv, CallInv
    <3> QED
      BY <1>1, <2>1, <3>1 DEF QueryOfItsTool
  <2>3. ListedAtOneMoment(c)'
    <3>1. Server \in seen[c]
      BY <1>1, AskerFacts
    <3>2. Len(columns'[c]) < Len(names'[c])
      BY <1>1, <1>4, <1>5
    <3>3. req'[c].table = 0 => \E s \in seen'[c] :
            IsFirstOf(names'[c], cut'[c], Names(s, req'[c].database), Limit(req'[c]))
      BY <1>1, <1>3, <1>5, <3>1
    <3> QED
      BY <2>1, <3>2, <3>3 DEF ListedAtOneMoment
  <2>4. EmptyWasSeen(c)'
    BY <2>1 DEF EmptyWasSeen
  <2>5. ColumnsSoFar(c)'
    <3>1. \A i \in 1 .. Len(columns[c]) : FALSE
      BY <1>4
    <3> QED
      BY <1>1, <3>1 DEF ColumnsSoFar
  <2>6. CallInv(c)'
    BY <2>2, <2>3, <2>4, <2>5 DEF CallInv
  <2> QED
    BY <1>1, <1>4, <1>5, <1>6, <1>8, <2>1, <2>6, CallStep
<1>9. Error("cap") \in Replies
  BY ErrorType DEF Errors
<1>10. Listing(ns, ct, <<>>) \in Replies
  BY DEF Listing, Replies
<1> QED
  BY <1>3, <1>7, <1>8, <1>9, <1>10

LEMMA TableColumnsFacts ==
  ASSUME NEW w \in Nat
  PROVE  /\ TableColumns(w) \in ColumnCount /\ TableColumns(w).count <= MaxColumnsPerTable
         /\ IF TableColumns(w).truncated THEN w > TableColumns(w).count ELSE w = TableColumns(w).count
<1>1. MaxColumnsPerTable \in Nat
  BY LimitAssumption
<1> DEFINE count == IF w > MaxColumnsPerTable THEN MaxColumnsPerTable ELSE w
           truncated == w > MaxColumnsPerTable
<1>2. TableColumns(w) = [count |-> count, truncated |-> truncated]
  BY DEF TableColumns
<1>3. count \in Nat /\ count <= MaxColumnsPerTable /\ truncated \in BOOLEAN
  BY <1>1
<1>4. truncated => w > count
  BY <1>1
<1>5. ~truncated => w = count
  BY <1>1
<1> HIDE DEF count, truncated
<1>6. /\ TableColumns(w).count = count /\ TableColumns(w).truncated = truncated
      /\ TableColumns(w) \in ColumnCount
  BY <1>2, <1>3 DEF ColumnCount
<1> QED
  BY <1>3, <1>4, <1>5, <1>6

\* One table's columns are added to those the call has: columns of that table now.
LEMMA NextTableColumnsFacts ==
  ASSUME Inv, NEW c \in Calls, NextTableColumns(c)
  PROVE  \E cs \in Seq(ColumnCount) :
           /\ columns' = [columns EXCEPT ![c] = cs]
           /\ Len(cs) = Len(columns[c]) + 1 /\ Len(cs) <= Len(names[c])
           /\ \A i \in 1 .. Len(cs) : HadColumns(c, names[c][i], cs[i])
           /\ IF Len(cs) = Len(names[c]) THEN Reply(c, Listing(names[c], cut[c], cs))
                                         ELSE UNCHANGED <<at, reply>>
<1> DEFINE n  == Len(columns[c])
           t  == names[c][n + 1]
           w  == Width(catalog, req[c].database, t)
           cs == Append(columns[c], TableColumns(w))
<1>1. /\ columns' = [columns EXCEPT ![c] = cs]
      /\ IF Len(cs) = Len(names[c]) THEN Reply(c, Listing(names[c], cut[c], cs))
                                    ELSE UNCHANGED <<at, reply>>
  BY DEF NextTableColumns
<1>2. at[c] = "columns" /\ Running(c)
  BY DEF NextTableColumns, Running, Queries
<1>3. /\ columns[c] \in Seq(ColumnCount) /\ names[c] \in Seq(Tables)
      /\ n \in Nat /\ Len(names[c]) \in Nat /\ n < Len(names[c])
  BY <1>2 DEF Inv, TypeOK, CallInv, ListedAtOneMoment
<1>4. t \in Tables
  BY <1>3
<1>5. Server \in seen[c] /\ req[c].database \in Databases
  BY <1>2, AskerFacts
<1>6. w \in Nat
  <2>1. catalog[req[c].database] \in {Absent} \union [Tables -> {0} \union Widths]
    BY <1>5 DEF Inv, TypeOK, Contents
  <2> HIDE DEF t
  <2>2. catalog[req[c].database] # Absent => catalog[req[c].database][t] \in {0} \union Widths
    BY <1>4, <2>1
  <2>3. {0} \union Widths \subseteq Nat
    BY NameAssumption
  <2> QED
    BY <2>2, <2>3 DEF Width
<1>7. w = Width(Server.catalog, req[c].database, t)
  BY DEF Server
<1> DEFINE k == TableColumns(w)
<1> HIDE DEF w, t
<1>8. /\ k \in ColumnCount /\ k.count <= MaxColumnsPerTable
      /\ IF k.truncated THEN w > k.count ELSE w = k.count
  BY <1>6, TableColumnsFacts
<1> HIDE DEF k
<1>9. HadColumns(c, t, k)
  BY <1>5, <1>7, <1>8 DEF HadColumns
<1>10. cs = Append(columns[c], k)
  BY DEF k
<1> HIDE DEF cs
<1>11. /\ cs \in Seq(ColumnCount) /\ Len(cs) = n + 1 /\ cs[n + 1] = k
       /\ \A i \in 1 .. n : cs[i] = columns[c][i]
  BY <1>3, <1>8, <1>10
<1>12. ASSUME NEW i \in 1 .. Len(cs) PROVE HadColumns(c, names[c][i], cs[i])
  <2>1. CASE i = n + 1
    BY <1>9, <1>11, <2>1 DEF t
  <2>2. CASE i # n + 1
    <3>1. i \in 1 .. n
      BY <1>3, <1>11, <2>2
    <3>2. HadColumns(c, names[c][i], columns[c][i])
      BY <1>2, <3>1 DEF Inv, CallInv, ColumnsSoFar
    <3> QED
      BY <1>11, <3>1, <3>2
  <2> QED
    BY <2>1, <2>2
<1>13. Len(cs) <= Len(names[c])
  BY <1>3, <1>11
<1> QED
  BY <1>1, <1>11, <1>12, <1>13

LEMMA NextTableColumnsStep == ASSUME Inv, NEW c \in Calls, NextTableColumns(c) PROVE Inv'
<1>1. /\ at[c] = "columns" /\ Running(c) /\ holds' = holds \ {c}
      /\ UNCHANGED <<catalog, data, changes, req, names, cut, blocks, stream, wrote, seen>>
  BY DEF NextTableColumns, Release, Running, Queries
<1>2. PICK cs \in Seq(ColumnCount) :
        /\ columns' = [columns EXCEPT ![c] = cs]
        /\ Len(cs) = Len(columns[c]) + 1 /\ Len(cs) <= Len(names[c])
        /\ \A i \in 1 .. Len(cs) : HadColumns(c, names[c][i], cs[i])
        /\ IF Len(cs) = Len(names[c]) THEN Reply(c, Listing(names[c], cut[c], cs))
                                      ELSE UNCHANGED <<at, reply>>
  BY NextTableColumnsFacts
<1>3. /\ columns \in [Calls -> Seq(ColumnCount)] /\ reply[c] = NoReply
      /\ names \in [Calls -> Seq(Tables)] /\ cut \in [Calls -> BOOLEAN]
      /\ reply \in [Calls -> Replies \union {NoReply}]
      /\ at \in [Calls -> Queries \union {"idle", "replied"}]
      /\ at \in [Calls -> Queries \union {"replied"} \union {"idle"}]
  <2>1. /\ columns \in [Calls -> Seq(ColumnCount)] /\ reply[c] = NoReply
        /\ names \in [Calls -> Seq(Tables)] /\ cut \in [Calls -> BOOLEAN]
        /\ reply \in [Calls -> Replies \union {NoReply}]
        /\ at \in [Calls -> Queries \union {"idle", "replied"}]
    BY <1>1 DEF Inv, TypeOK
  <2>2. Queries \union {"idle", "replied"} = Queries \union {"replied"} \union {"idle"}
    OBVIOUS
  <2> QED
    BY <2>1, <2>2
<1>4. /\ columns' \in [Calls -> Seq(ColumnCount)] /\ columns'[c] = cs
      /\ \A d \in Calls \ {c} : columns'[d] = columns[d]
  BY <1>2, <1>3
<1>5. Len(columns'[c]) <= Len(names'[c])
  BY <1>1, <1>2, <1>4
<1>6. CASE Len(cs) = Len(names[c])
  <2>1. Reply(c, Listing(names[c], cut[c], cs))
    BY <1>2, <1>6
  <2>2. Listing(names[c], cut[c], cs) \in Replies
    <3>1. names[c] \in Seq(Tables) /\ cut[c] \in BOOLEAN
      BY <1>3
    <3> QED
      BY <3>1 DEF Listing, Replies
  <2> QED
    BY <1>1, <1>3, <1>4, <1>5, <2>1, <2>2, ReplyStep
<1>7. CASE Len(cs) # Len(names[c])
  <2>1. at' = at /\ reply' = reply
    BY <1>2, <1>7
  <2>2. Len(cs) < Len(names[c])
    <3>1. Len(cs) \in Nat /\ Len(names[c]) \in Nat
      BY <1>3
    <3> QED
      BY <1>2, <1>7, <3>1
  <2>3. QueryOfItsTool(c)' /\ EmptyWasSeen(c)'
    BY <1>1, <2>1 DEF Inv, CallInv, QueryOfItsTool, EmptyWasSeen, Running
  <2>4. ListedAtOneMoment(c)'
    <3>1. req[c].table = 0 => \E s \in seen[c] :
            IsFirstOf(names[c], cut[c], Names(s, req[c].database), Limit(req[c]))
      BY <1>1 DEF Inv, CallInv, ListedAtOneMoment
    <3> QED
      BY <1>1, <1>4, <2>1, <2>2, <3>1 DEF ListedAtOneMoment
  <2>5. ColumnsSoFar(c)'
    BY <1>1, <1>2, <1>4 DEF ColumnsSoFar, HadColumns
  <2>6. CallInv(c)'
    BY <2>3, <2>4, <2>5 DEF CallInv
  <2>7. reply'[c] = NoReply <=> at'[c] # "replied"
    BY <1>1, <1>3, <2>1
  <2> QED
    BY <1>1, <1>3, <1>4, <1>5, <2>1, <2>6, <2>7, CallStep
<1> QED
  BY <1>6, <1>7

LEMMA InvStep == Inv /\ [Next]_vars => Inv'
<1> SUFFICES ASSUME Inv, [Next]_vars PROVE Inv'
  OBVIOUS
<1>1. CASE UNCHANGED vars
  <2>1. /\ catalog' \in Contents /\ data' \in Nat /\ changes' \in 0 .. MaxChanges
        /\ blocks' \in [Calls -> 0 .. InsertRows] /\ stream' \in [Calls -> Streams]
        /\ wrote' \in [Calls -> Nat]
        /\ holds' \subseteq {d \in Calls : Running(d)}
        /\ IsFiniteSet(holds') /\ Cardinality(holds') <= Conns
    <3>1. UNCHANGED <<catalog, data, changes, holds, blocks, stream, wrote>>
      BY <1>1 DEF vars
    <3> QED
      BY <3>1 DEF Inv, TypeOK
  <2>2. UNCHANGED <<at, callVars>> /\ UNCHANGED <<catalog, data, seen>>
    BY <1>1 DEF vars
  <2> QED
    BY <2>1, <2>2, WorldStep
<1>2. ASSUME NEW c \in Calls,
             \/ AcquireFails(c) \/ QueryFails(c) \/ ExecFails(c) \/ Ping(c)
             \/ ListDatabases(c) \/ DatabaseExists(c) \/ RunQuery(c) \/ ExecDone(c)
      PROVE  Inv'
  BY <1>2, SimpleStep
<1>3. ASSUME NEW c \in Calls, WriteBlock(c) \/ EndOfStream(c) \/ Progress(c) PROVE Inv'
  BY <1>3, ServerStep
<1>4. CASE ChangeCatalog \/ AddRow
  BY <1>4, ServerStep
<1> QED
  BY <1>1, <1>2, <1>3, <1>4, StartStep, AcquireStep, LeanTablesEmptyStep, LeanTablesFoundStep,
     NextTableColumnsStep DEF Next

\* A call has seen the server it asks, asks what its tool asks, and carries from one
\* query to the next only what it has seen (internal/tools).
THEOREM InvHolds == Spec => []Inv
BY InvInit, InvStep, PTL DEF Spec

\* Every variable keeps its type; the pool never lends more connections than it has,
\* and only to calls that run a query.
THEOREM TypeCorrect == Spec => []TypeOK
<1>1. Inv => TypeOK
  BY DEF Inv
<1> QED
  BY <1>1, InvHolds, PTL

(***************************************************************************)
(* How calls end.                                                          *)
(***************************************************************************)

LEMMA ErrorFacts ==
  /\ \A e, f : Error(e) = Error(f) => e = f
  /\ \A e : "error" \in DOMAIN Error(e)
BY DEF Error

\* The calls a step is not about keep what they have.
LEMMA Bystanders ==
  ASSUME Inv, NEW c \in Calls, NEW d \in Calls \ {c},
         \/ Start(c) \/ AcquireFails(c) \/ QueryFails(c)
         \/ Ping(c) \/ ListDatabases(c)
         \/ LeanTablesEmpty(c) \/ LeanTablesFound(c) \/ DatabaseExists(c)
         \/ NextTableColumns(c) \/ RunQuery(c) \/ ExecDone(c) \/ ExecFails(c)
  PROVE  Keeps(d)
<1>1. CASE Start(c)
  BY <1>1, StartKeeps
<1>2. CASE LeanTablesEmpty(c)
  BY <1>2 DEF LeanTablesEmpty, Keeps, callVars, Inv, TypeOK
<1>3. ASSUME NEW r, Reply(c, r), UNCHANGED <<req, seen>>,
             names'[d] = names[d], cut'[d] = cut[d], columns'[d] = columns[d]
      PROVE  Keeps(d)
  BY <1>3 DEF Reply, Keeps, Inv, TypeOK
<1>4. CASE LeanTablesFound(c)
  <2>1. PICK ns \in Seq(Tables) : \E ct \in BOOLEAN :
          /\ names' = [names EXCEPT ![c] = ns] /\ cut' = [cut EXCEPT ![c] = ct]
          /\ \/ Reply(c, Error("cap"))
             \/ at' = [at EXCEPT ![c] = "columns"] /\ UNCHANGED reply
             \/ Reply(c, Listing(ns, ct, <<>>))
    BY <1>4, LeanTablesFoundFacts
  <2>2. UNCHANGED <<req, columns, seen>>
    BY <1>4 DEF LeanTablesFound
  <2>3. names'[d] = names[d] /\ cut'[d] = cut[d]
    BY <2>1 DEF Inv, TypeOK
  <2>4. ASSUME at' = [at EXCEPT ![c] = "columns"], UNCHANGED reply PROVE Keeps(d)
    BY <2>2, <2>3, <2>4 DEF Keeps, Inv, TypeOK
  <2> QED
    BY <1>3, <2>1, <2>2, <2>3, <2>4
<1>5. CASE NextTableColumns(c)
  <2>1. PICK cs \in Seq(ColumnCount) :
          /\ columns' = [columns EXCEPT ![c] = cs]
          /\ Reply(c, Listing(names[c], cut[c], cs)) \/ UNCHANGED <<at, reply>>
    BY <1>5, NextTableColumnsFacts
  <2>2. UNCHANGED <<req, names, cut, seen>>
    BY <1>5 DEF NextTableColumns
  <2>3. columns'[d] = columns[d]
    BY <2>1 DEF Inv, TypeOK
  <2>4. ASSUME UNCHANGED <<at, reply>> PROVE Keeps(d)
    BY <2>2, <2>3, <2>4 DEF Keeps
  <2> QED
    BY <1>3, <2>1, <2>2, <2>3, <2>4
<1>6. ASSUME \/ AcquireFails(c) \/ QueryFails(c) \/ Ping(c) \/ ListDatabases(c)
             \/ DatabaseExists(c) \/ RunQuery(c) \/ ExecDone(c) \/ ExecFails(c)
      PROVE  Keeps(d)
  <2>1. UNCHANGED <<req, names, cut, columns, seen>>
    BY <1>6 DEF AcquireFails, QueryFails, Ping, ListDatabases, DatabaseExists, RunQuery,
                ExecDone, ExecFails
  <2>2. \E r : Reply(c, r)
    BY <1>6 DEF AcquireFails, QueryFails, Ping, ListDatabases, DatabaseExists, RunQuery,
                ExecDone, ExecFails
  <2> QED
    BY <1>3, <2>1, <2>2
<1> QED
  BY <1>1, <1>2, <1>4, <1>5, <1>6

\* A call that has its reply after a step had it before, or is told that it was refused
\* or its query failed, or has just been answered by the server it sees.
LEMMA Endings ==
  ASSUME Inv, [Next]_vars, NEW d \in Calls, at'[d] = "replied"
  PROVE  \/ Keeps(d)
         \/ \E e \in Errors \ {"cap", "negative limit", "database not found", "table not found"} :
              reply'[d] = Error(e)
         \/ /\ req'[d] = req[d] /\ seen'[d] = seen[d] /\ Server \in seen[d]
            /\ \/ Ping(d) /\ req[d].tool = "ping"
               \/ ListDatabases(d) /\ req[d].tool = "list_databases"
               \/ /\ LeanTablesFound(d) \/ DatabaseExists(d) \/ NextTableColumns(d)
                  /\ req[d].tool = "list_tables"
               \/ RunQuery(d) /\ req[d].tool = "run_query"
               \/ ExecDone(d) /\ req[d].tool = "run_statement"
<1> DEFINE Told == \E e \in Errors \ {"cap", "negative limit", "database not found", "table not found"} :
                     reply'[d] = Error(e)
<1>1. /\ at \in [Calls -> Queries \union {"idle", "replied"}]
      /\ reply \in [Calls -> Replies \union {NoReply}] /\ holds \subseteq {c \in Calls : Running(c)}
  BY DEF Inv, TypeOK
<1>2. CASE Start(d)
  <2>1. PICK r \in Requests :
          /\ at' = [at EXCEPT ![d] = FirstQuery(r.tool)] \/ ArgumentError(r) # ""
          /\ reply' = [reply EXCEPT ![d] = Error(ArgumentError(r))] \/ ArgumentError(r) = ""
    BY <1>2 DEF Start
  <2>2. FirstQuery(r.tool) # "replied"
    BY RequestFacts DEF FirstQuery
  <2>3. reply'[d] = Error(ArgumentError(r)) /\ ArgumentError(r) # ""
    BY <1>1, <2>1, <2>2
  <2>4. ArgumentError(r) \in {"", "blank", "multiple", "not row-returning", "row-returning",
                              "output clause", "database is required"}
    BY RequestFacts DEF ArgumentError, GateError
  <2> QED
    BY <2>3, <2>4 DEF Errors
<1>3. CASE AcquireFails(d) \/ QueryFails(d) \/ ExecFails(d)
  <2>1. \E e \in {"connection", "query", "statement"} : Reply(d, Error(e))
    BY <1>3 DEF AcquireFails, QueryFails, ExecFails
  <2> QED
    BY <1>1, <2>1 DEF Reply, Errors
<1>4. CASE LeanTablesEmpty(d)
  BY <1>1, <1>4 DEF LeanTablesEmpty
<1>5. CASE \/ Ping(d) \/ ListDatabases(d) \/ LeanTablesFound(d) \/ DatabaseExists(d)
           \/ NextTableColumns(d) \/ RunQuery(d) \/ ExecDone(d)
  <2>1. req' = req /\ seen' = seen
    BY <1>5 DEF Ping, ListDatabases, LeanTablesFound, DatabaseExists, NextTableColumns, RunQuery,
                ExecDone
  <2>2. /\ Ping(d) => at[d] = "ping"
        /\ ListDatabases(d) => at[d] = "databases"
        /\ LeanTablesFound(d) => at[d] = "lean"
        /\ DatabaseExists(d) => at[d] = "exists"
        /\ NextTableColumns(d) => at[d] = "columns"
        /\ RunQuery(d) => at[d] = "query"
        /\ ExecDone(d) => at[d] = "exec"
    BY DEF Ping, ListDatabases, LeanTablesFound, DatabaseExists, NextTableColumns, RunQuery,
           ExecDone
  <2>3. Running(d)
    BY <1>5 DEF Ping, ListDatabases, LeanTablesFound, DatabaseExists, NextTableColumns, RunQuery,
                ExecDone, Running, Queries
  <2>4. Server \in seen[d]
    BY <2>3, AskerFacts
  <2>5. /\ at[d] = "ping" => req[d].tool = "ping"
        /\ at[d] = "databases" => req[d].tool = "list_databases"
        /\ at[d] = "query" => req[d].tool = "run_query"
        /\ at[d] = "exec" => req[d].tool = "run_statement"
        /\ at[d] \in {"lean", "exists", "columns"} => req[d].tool = "list_tables"
    BY <2>3, AskerFacts
  <2>6. \/ Ping(d) /\ req[d].tool = "ping"
        \/ ListDatabases(d) /\ req[d].tool = "list_databases"
        \/ /\ LeanTablesFound(d) \/ DatabaseExists(d) \/ NextTableColumns(d)
           /\ req[d].tool = "list_tables"
        \/ RunQuery(d) /\ req[d].tool = "run_query"
        \/ ExecDone(d) /\ req[d].tool = "run_statement"
    BY <1>5, <2>2, <2>5
  <2> QED
    BY <2>1, <2>4, <2>6
<1>6. ASSUME UNCHANGED <<at, callVars>>, seen[d] \subseteq seen'[d] PROVE Keeps(d)
  BY <1>6 DEF Keeps, callVars
<1>7. ASSUME NEW server, Watch(server) PROVE seen[d] \subseteq seen'[d]
  BY <1>7 DEF Watch
<1>8. CASE \/ ChangeCatalog \/ AddRow \/ UNCHANGED vars
           \/ \E c \in Calls : Acquire(c) \/ WriteBlock(c) \/ EndOfStream(c) \/ Progress(c)
  <2>1. UNCHANGED <<at, callVars>>
    BY <1>8 DEF ChangeCatalog, AddRow, Acquire, WriteBlock, EndOfStream, Progress, vars
  <2>2. seen' = seen \/ \E server : Watch(server)
    BY <1>8 DEF ChangeCatalog, AddRow, Acquire, WriteBlock, EndOfStream, Progress, vars
  <2>3. seen[d] \subseteq seen'[d]
    BY <1>7, <2>2
  <2> QED
    BY <1>6, <2>1, <2>3
<1>9. ASSUME NEW c \in Calls \ {d},
             \/ Start(c) \/ AcquireFails(c) \/ QueryFails(c)
             \/ Ping(c) \/ ListDatabases(c)
             \/ LeanTablesEmpty(c) \/ LeanTablesFound(c) \/ DatabaseExists(c)
             \/ NextTableColumns(c) \/ RunQuery(c) \/ ExecDone(c) \/ ExecFails(c)
      PROVE  Keeps(d)
  BY <1>9, Bystanders
<1> QED
  BY <1>2, <1>3, <1>4, <1>5, <1>8, <1>9 DEF Next

(***************************************************************************)
(* What run_query and run_statement report.                                *)
(***************************************************************************)

\* The limit keeps the cap away unless it is the cap or more; the rest of the answer is
\* about the data the server had.
LEMMA RunQueryReply ==
  ASSUME Inv, NEW c \in Calls, RunQuery(c)
  PROVE  /\ RowLimit(req[c]) \in 1 .. MaxInt /\ data \in Nat
         /\ \/ /\ reply'[c] = Error("negative limit") \/ reply'[c] = Error("cap")
               /\ ~(CanBound(req[c].sql) /\ RowLimit(req[c]) < Cap)
            \/ reply'[c] = [rows |-> IF data < RowLimit(req[c]) THEN data ELSE RowLimit(req[c]),
                            truncated |-> data > RowLimit(req[c])]
<1> DEFINE limit == RowLimit(req[c])
<1>1. Running(c) /\ data \in Nat /\ reply \in [Calls -> Replies \union {NoReply}]
  BY DEF RunQuery, Running, Queries, Inv, TypeOK
<1>2. req[c] \in Requests /\ req[c].tool = "run_query"
  BY <1>1, AskerFacts DEF RunQuery
<1>3. req[c].limit \in GoInt /\ DefaultRowLimit \in 1 .. Cap - 1
  BY <1>2, RequestFacts, LimitAssumption
<1>4. /\ limit \in 1 .. MaxInt /\ PlusOne(limit) \in Int
      /\ PlusOne(limit) = limit + 1 \/ (limit = MaxInt /\ PlusOne(limit) < 0)
  <2>1. limit = resolveLimit(req[c].limit, DefaultRowLimit)
    BY DEF RowLimit
  <2> HIDE DEF limit
  <2> QED
    BY <1>3, <2>1, LimitFacts
<1>5. /\ Cap \in Nat /\ MaxInt \in Nat /\ Cap < MaxInt
  BY LimitAssumption
<1>6. reply'[c] = IF CanBound(req[c].sql) /\ PlusOne(limit) < 0 THEN Error("negative limit")
                  ELSE IF Overflows(FetchedRows(req[c])) THEN Error("cap")
                  ELSE Shape(FetchedRows(req[c]), limit)
  BY <1>1 DEF RunQuery, Reply
<1>7. FetchedRows(req[c]) = IF CanBound(req[c].sql) /\ data > PlusOne(limit)
                              THEN PlusOne(limit) ELSE data
  BY DEF FetchedRows
<1> HIDE DEF limit
<1>8. CASE CanBound(req[c].sql) /\ PlusOne(limit) < 0
  <2>1. ~(limit < Cap)
    BY <1>4, <1>5, <1>8
  <2>2. reply'[c] = Error("negative limit")
    BY <1>6, <1>8
  <2> QED
    BY <1>1, <1>4, <2>1, <2>2 DEF limit
<1>9. CASE ~(CanBound(req[c].sql) /\ PlusOne(limit) < 0) /\ Overflows(FetchedRows(req[c]))
  <2>1. reply'[c] = Error("cap")
    BY <1>6, <1>9
  <2>2. CanBound(req[c].sql) => ~(limit < Cap)
    <3> SUFFICES ASSUME CanBound(req[c].sql) PROVE ~(limit < Cap)
      OBVIOUS
    <3>1. PlusOne(limit) = limit + 1
      BY <1>4, <1>9
    <3>2. FetchedRows(req[c]) = IF data > limit + 1 THEN limit + 1 ELSE data
      BY <1>7, <3>1
    <3> QED
      BY <1>1, <1>4, <1>5, <1>9, <3>2 DEF Overflows
  <2> QED
    BY <1>1, <1>4, <2>1, <2>2 DEF limit
<1>10. CASE ~(CanBound(req[c].sql) /\ PlusOne(limit) < 0) /\ ~Overflows(FetchedRows(req[c]))
  <2>1. reply'[c] = Shape(FetchedRows(req[c]), limit)
    BY <1>6, <1>10
  <2>2. \/ FetchedRows(req[c]) = data
        \/ FetchedRows(req[c]) = limit + 1 /\ data > limit + 1
    <3>1. CASE CanBound(req[c].sql) /\ data > PlusOne(limit)
      <4>1. PlusOne(limit) = limit + 1
        BY <1>4, <1>10, <3>1
      <4>2. FetchedRows(req[c]) = PlusOne(limit)
        BY <1>7, <3>1
      <4> QED
        BY <3>1, <4>1, <4>2
    <3>2. CASE ~(CanBound(req[c].sql) /\ data > PlusOne(limit))
      <4>1. FetchedRows(req[c]) = data
        BY <1>7, <3>2, Zenon
      <4> QED
        BY <4>1
    <3> QED
      BY <3>1, <3>2
  <2>3. (IF FetchedRows(req[c]) > limit THEN limit ELSE FetchedRows(req[c]))
          = IF data < limit THEN data ELSE limit
    BY <1>1, <1>4, <2>2
  <2>4. (FetchedRows(req[c]) > limit) = (data > limit)
    <3>1. CASE FetchedRows(req[c]) = data
      BY <3>1
    <3>2. CASE FetchedRows(req[c]) = limit + 1 /\ data > limit + 1
      <4>1. FetchedRows(req[c]) > limit /\ data > limit
        BY <1>1, <1>4, <3>2
      <4> QED
        BY <4>1
    <3> QED
      BY <2>2, <3>1, <3>2
  <2>5. reply'[c] = [rows |-> IF data < limit THEN data ELSE limit, truncated |-> data > limit]
    BY <2>1, <2>3, <2>4 DEF Shape
  <2> QED
    BY <1>1, <1>4, <2>5 DEF limit
<1> QED
  BY <1>8, <1>9, <1>10

\* The end of call d, as its tool's last query sees it.
LEMMA Ending ==
  ASSUME Inv, [Next]_vars, NEW d \in Calls, NEW tool, Replied(d, tool)'
  PROVE  \/ Keeps(d) /\ Replied(d, tool)
         \/ ~Ok(d)' /\ ~Failed(d, "cap")' /\ ~Failed(d, "negative limit")'
              /\ ~Failed(d, "database not found")' /\ ~Failed(d, "table not found")'
         \/ /\ req'[d] = req[d] /\ seen'[d] = seen[d] /\ Server \in seen[d]
            /\ req[d].tool = tool
            /\ tool = "list_databases" => ListDatabases(d)
            /\ tool = "list_tables" =>
                 LeanTablesFound(d) \/ DatabaseExists(d) \/ NextTableColumns(d)
            /\ tool = "run_query" => RunQuery(d)
            /\ tool = "run_statement" => ExecDone(d)
<1>1. at'[d] = "replied" /\ req'[d].tool = tool
  BY DEF Replied
<1>2. CASE Keeps(d)
  BY <1>1, <1>2 DEF Keeps, Replied
<1>3. ASSUME NEW e \in Errors \ {"cap", "negative limit", "database not found", "table not found"},
             reply'[d] = Error(e)
      PROVE  ~Ok(d)' /\ ~Failed(d, "cap")' /\ ~Failed(d, "negative limit")'
               /\ ~Failed(d, "database not found")' /\ ~Failed(d, "table not found")'
  BY <1>3, ErrorFacts DEF Ok, Failed
<1> QED
  BY <1>1, <1>2, <1>3, Endings

LEMMA RowsStep == Inv /\ RowsAreHonest /\ [Next]_vars => RowsAreHonest'
<1> SUFFICES ASSUME Inv, RowsAreHonest, [Next]_vars, NEW d \in Calls,
                    Replied(d, "run_query")', Ok(d)'
             PROVE  \E s \in seen'[d] :
                      LET limit == resolveLimit(req'[d].limit, DefaultRowLimit) IN
                      /\ reply'[d].rows = (IF s.data < limit THEN s.data ELSE limit)
                      /\ reply'[d].truncated <=> s.data > limit
  BY DEF RowsAreHonest
<1>1. CASE Keeps(d) /\ Replied(d, "run_query")
  <2>1. Ok(d)
    BY <1>1 DEF Ok, Keeps
  <2>2. PICK s \in seen[d] :
          LET limit == resolveLimit(req[d].limit, DefaultRowLimit) IN
          /\ reply[d].rows = (IF s.data < limit THEN s.data ELSE limit)
          /\ reply[d].truncated <=> s.data > limit
    BY <1>1, <2>1 DEF RowsAreHonest
  <2>3. s \in seen'[d] /\ reply'[d] = reply[d] /\ req'[d] = req[d]
    BY <1>1 DEF Keeps
  <2> QED
    BY <2>2, <2>3
<1>2. CASE req'[d] = req[d] /\ seen'[d] = seen[d] /\ Server \in seen[d] /\ RunQuery(d)
  <2>1. reply'[d] # Error("negative limit") /\ reply'[d] # Error("cap")
    BY ErrorFacts DEF Ok
  <2>2. reply'[d] = [rows |-> IF data < RowLimit(req[d]) THEN data ELSE RowLimit(req[d]),
                     truncated |-> data > RowLimit(req[d])]
    BY <1>2, <2>1, RunQueryReply
  <2>3. Server.data = data /\ RowLimit(req[d]) = resolveLimit(req'[d].limit, DefaultRowLimit)
    BY <1>2 DEF Server, RowLimit
  <2>4. /\ reply'[d].rows = (IF Server.data < RowLimit(req[d]) THEN Server.data ELSE RowLimit(req[d]))
        /\ reply'[d].truncated = (Server.data > RowLimit(req[d]))
    BY <2>2, <2>3
  <2> QED
    BY <1>2, <2>3, <2>4
<1> QED
  BY <1>1, <1>2, Ending

\* run_query returns the first `limit` rows of what the query had at one moment of the
\* call and says truncated exactly when there were more (internal/query/result.go).
THEOREM RowsHold == Spec => []RowsAreHonest
<1>1. Init => RowsAreHonest
  BY DEF Init, RowsAreHonest, Replied
<1> QED
  BY <1>1, RowsStep, InvHolds, PTL DEF Spec

LEMMA CapStep == Inv /\ LimitKeepsTheCapAway /\ [Next]_vars => LimitKeepsTheCapAway'
<1> SUFFICES ASSUME Inv, LimitKeepsTheCapAway, [Next]_vars, NEW d \in Calls,
                    Replied(d, "run_query")', CanBound(req'[d].sql),
                    resolveLimit(req'[d].limit, DefaultRowLimit) < Cap
             PROVE  ~Failed(d, "cap")' /\ ~Failed(d, "negative limit")'
  BY DEF LimitKeepsTheCapAway, CanBound
<1>1. CASE Keeps(d) /\ Replied(d, "run_query")
  BY <1>1 DEF LimitKeepsTheCapAway, Keeps, Failed
<1>2. CASE req'[d] = req[d] /\ RunQuery(d)
  <2>1. RowLimit(req[d]) < Cap /\ CanBound(req[d].sql)
    BY <1>2 DEF RowLimit
  <2>2. reply'[d] = [rows |-> IF data < RowLimit(req[d]) THEN data ELSE RowLimit(req[d]),
                     truncated |-> data > RowLimit(req[d])]
    BY <1>2, <2>1, RunQueryReply
  <2>3. "error" \notin DOMAIN reply'[d]
    BY <2>2
  <2> QED
    BY <2>3, ErrorFacts DEF Failed
<1> QED
  BY <1>1, <1>2, Ending

\* A bounded query with a limit below the server's cap never runs into the cap, however
\* much data there is (query.Wrap asks for limit+1 rows).
THEOREM CapStaysAway == Spec => []LimitKeepsTheCapAway
<1>1. Init => LimitKeepsTheCapAway
  BY DEF Init, LimitKeepsTheCapAway, Replied
<1> QED
  BY <1>1, CapStep, InvHolds, PTL DEF Spec

\* A step leaves call d's statement alone, but for d's own beginning or end, or it is
\* the server's or the driver's.
LEMMA StatementSteps ==
  ASSUME Inv, [Next]_vars, NEW d \in Calls
  PROVE  \/ WriteBlock(d) \/ EndOfStream(d) \/ Progress(d)
         \/ /\ blocks'[d] = blocks[d] /\ stream'[d] = stream[d] /\ wrote'[d] = wrote[d]
            /\ \/ at'[d] = at[d] /\ reply'[d] = reply[d] /\ (d \in holds => d \in holds')
               \/ at[d] = "idle" \/ ExecDone(d) \/ ExecFails(d)
               \/ Running(d) /\ (at[d] # "exec" \/ d \notin holds)
<1> DEFINE Same  == blocks'[d] = blocks[d] /\ stream'[d] = stream[d] /\ wrote'[d] = wrote[d]
           Stays == at'[d] = at[d] /\ reply'[d] = reply[d] /\ (d \in holds => d \in holds')
           Own(c) == \/ Start(c) \/ AcquireFails(c) \/ QueryFails(c)
                     \/ Ping(c) \/ ListDatabases(c)
                     \/ LeanTablesEmpty(c) \/ LeanTablesFound(c) \/ DatabaseExists(c)
                     \/ NextTableColumns(c) \/ RunQuery(c) \/ ExecDone(c) \/ ExecFails(c)
<1>1. /\ blocks \in [Calls -> 0 .. InsertRows] /\ stream \in [Calls -> Streams]
      /\ wrote \in [Calls -> Nat] /\ holds \subseteq {c \in Calls : Running(c)}
  BY DEF Inv, TypeOK
<1>2. ASSUME NEW c \in Calls, Own(c) PROVE UNCHANGED <<blocks, stream, wrote>>
  BY <1>2 DEF Start, AcquireFails, QueryFails, Ping, ListDatabases, LeanTablesEmpty,
     LeanTablesFound, DatabaseExists, NextTableColumns, RunQuery, ExecDone, ExecFails
<1>3. ASSUME NEW c \in Calls \ {d}, Own(c) PROVE Same /\ Stays
  <2>1. holds' = holds \/ holds' = holds \ {c}
    BY <1>3 DEF Start, AcquireFails, QueryFails, Ping, ListDatabases, LeanTablesEmpty,
       LeanTablesFound, DatabaseExists, NextTableColumns, RunQuery, ExecDone, ExecFails, Release
  <2>2. Keeps(d)
    BY <1>3, Bystanders
  <2> QED
    BY <1>2, <1>3, <2>1, <2>2 DEF Keeps
<1>4. CASE Own(d)
  <2>1. \/ at[d] = "idle" \/ ExecDone(d) \/ ExecFails(d)
        \/ Running(d) /\ (at[d] # "exec" \/ d \notin holds)
    BY <1>1, <1>4 DEF Start, AcquireFails, QueryFails, Ping, ListDatabases, LeanTablesEmpty,
       LeanTablesFound, DatabaseExists, NextTableColumns, RunQuery, Running, Queries
  <2> QED
    BY <1>2, <1>4, <2>1
<1>5. ASSUME NEW c \in Calls \ {d}, WriteBlock(c) \/ EndOfStream(c) \/ Progress(c)
      PROVE  Same /\ Stays
  BY <1>1, <1>5 DEF WriteBlock, EndOfStream, Progress, callVars
<1>6. CASE \/ ChangeCatalog \/ AddRow \/ UNCHANGED vars \/ \E c \in Calls : Acquire(c)
  BY <1>6 DEF ChangeCatalog, AddRow, Acquire, vars, callVars
<1> QED
  BY <1>3, <1>4, <1>5, <1>6 DEF Next

LEMMA WriteInit == Init => WriteInv
<1> SUFFICES ASSUME Init, NEW c \in Calls PROVE BlocksAreCounted(c)
  BY DEF WriteInv
<1>1. stream[c] \in [reports : Reporting, unread : {0}, ended : {FALSE}]
  BY DEF Init
<1>2. at[c] = "idle" /\ blocks[c] = 0 /\ wrote[c] = 0
  BY DEF Init
<1>3. stream[c].unread = 0 /\ stream[c].ended = FALSE
  BY <1>1
<1>4. wrote[c] + stream[c].unread = blocks[c] /\ ~(blocks[c] > 0)
  BY <1>2, <1>3
<1> QED
  BY <1>2, <1>3, <1>4 DEF BlocksAreCounted, Replied

LEMMA WriteStep == Inv /\ WriteInv /\ [Next]_vars => WriteInv'
<1> SUFFICES ASSUME Inv, WriteInv, [Next]_vars, NEW d \in Calls PROVE BlocksAreCounted(d)'
  BY DEF WriteInv
<1> DEFINE Counted == IF stream[d].reports THEN wrote[d] + stream[d].unread = blocks[d]
                                           ELSE wrote[d] = 0 /\ stream[d].unread = 0
           Ended   == stream[d].ended => blocks[d] = InsertRows
           Told    == blocks[d] > 0 => \/ at[d] = "exec" /\ d \in holds
                                       \/ at[d] = "replied" /\ (Ok(d) \/ Failed(d, "statement"))
           Result  == (Replied(d, "run_statement") /\ Ok(d)) =>
                        stream[d].ended /\ stream[d].unread = 0 /\ reply[d].written = wrote[d]
<1>1. /\ blocks \in [Calls -> 0 .. InsertRows] /\ stream \in [Calls -> Streams]
      /\ wrote \in [Calls -> Nat] /\ holds \subseteq {c \in Calls : Running(c)}
      /\ at \in [Calls -> Queries \union {"idle", "replied"}]
      /\ reply \in [Calls -> Replies \union {NoReply}]
      /\ InsertRows \in Nat
  BY BoundAssumption DEF Inv, TypeOK
<1>2. Counted /\ Ended /\ Told /\ Result
  BY DEF WriteInv, BlocksAreCounted
<1>3. Ok(d)' /\ Replied(d, "run_statement")' => ExecDone(d) \/ (Keeps(d) /\ Replied(d, "run_statement"))
  BY Ending
<1>4. CASE WriteBlock(d)
  <2>1. /\ blocks' = [blocks EXCEPT ![d] = blocks[d] + 1] /\ blocks[d] < InsertRows
        /\ stream' = [stream EXCEPT ![d].unread = IF stream[d].reports THEN stream[d].unread + 1
                                                   ELSE stream[d].unread]
        /\ UNCHANGED <<at, holds, reply, req, wrote>>
        /\ (at[d] = "exec" /\ d \in holds) \/ reply[d] = Error("statement")
    BY <1>4 DEF WriteBlock, callVars
  <2>2. /\ blocks'[d] = blocks[d] + 1 /\ stream'[d].reports = stream[d].reports
        /\ stream'[d].ended = stream[d].ended
        /\ stream'[d].unread = IF stream[d].reports THEN stream[d].unread + 1 ELSE stream[d].unread
    BY <1>1, <2>1 DEF Streams
  <2>3. wrote[d] \in Nat /\ stream[d].unread \in Nat /\ blocks[d] \in Nat
    BY <1>1 DEF Streams
  <2>4. Counted' /\ Ended'
    BY <1>2, <2>1, <2>2, <2>3
  <2>5. reply[d] = Error("statement") => at[d] = "replied"
    <3>1. Error("statement") # NoReply
      BY ErrorType, ReplyAssumption DEF Errors
    <3> QED
      BY <3>1 DEF Inv, TypeOK
  <2>6. Told'
    BY <2>1, <2>5 DEF Failed
  <2>7. Result'
    BY <2>1, <2>5, ErrorFacts DEF Replied, Ok
  <2> QED
    BY <2>4, <2>6, <2>7 DEF BlocksAreCounted
<1>5. CASE EndOfStream(d)
  <2>1. /\ UNCHANGED <<blocks, at, holds, reply, req, wrote>> /\ at[d] = "exec"
        /\ blocks[d] = InsertRows /\ stream' = [stream EXCEPT ![d].ended = TRUE]
    BY <1>5 DEF EndOfStream, callVars
  <2>2. stream'[d].reports = stream[d].reports /\ stream'[d].unread = stream[d].unread
    BY <1>1, <2>1 DEF Streams
  <2>3. Counted' /\ Ended'
    BY <1>2, <2>1, <2>2
  <2>4. Told' /\ Result'
    BY <1>2, <2>1 DEF Replied, Ok, Failed
  <2> QED
    BY <2>3, <2>4 DEF BlocksAreCounted
<1>6. CASE Progress(d)
  <2>1. /\ UNCHANGED <<blocks, at, holds, reply, req>> /\ stream[d].unread > 0
        /\ stream' = [stream EXCEPT ![d].unread = stream[d].unread - 1]
        /\ wrote' = [wrote EXCEPT ![d] = wrote[d] + 1]
    BY <1>6 DEF Progress, callVars
  <2>2. /\ stream'[d].reports = stream[d].reports /\ stream'[d].ended = stream[d].ended
        /\ stream'[d].unread = stream[d].unread - 1 /\ wrote'[d] = wrote[d] + 1
    BY <1>1, <2>1 DEF Streams
  <2>3. wrote[d] \in Nat /\ stream[d].unread \in Nat /\ blocks[d] \in Nat
    BY <1>1 DEF Streams
  <2>4. Counted' /\ Ended'
    BY <1>2, <2>1, <2>2, <2>3
  <2>5. Told' /\ Result'
    BY <1>2, <2>1, <2>3 DEF Replied, Ok, Failed
  <2> QED
    BY <2>4, <2>5 DEF BlocksAreCounted
<1>7. CASE blocks'[d] = blocks[d] /\ stream'[d] = stream[d] /\ wrote'[d] = wrote[d]
  <2>1. Counted' /\ Ended'
    BY <1>2, <1>7
  <2>2. CASE at'[d] = at[d] /\ reply'[d] = reply[d] /\ (d \in holds => d \in holds')
    <3>1. Told'
      BY <1>2, <1>7, <2>2 DEF Ok, Failed
    <3>2. ~ExecDone(d)
      BY <1>1, <2>2 DEF ExecDone, Reply
    <3>3. Result'
      BY <1>2, <1>3, <1>7, <3>2 DEF Keeps, Ok
    <3> QED
      BY <2>1, <3>1, <3>3 DEF BlocksAreCounted
  <2>3. CASE ExecDone(d)
    <3>1. /\ at'[d] = "replied" /\ reply'[d] = [written |-> wrote[d]]
          /\ stream[d].ended /\ stream[d].unread = 0
      BY <1>1, <2>3 DEF ExecDone, Reply
    <3>2. Ok(d)' /\ reply'[d].written = wrote[d]
      BY <3>1 DEF Ok
    <3> QED
      BY <1>7, <2>1, <3>1, <3>2 DEF BlocksAreCounted
  <2>4. CASE ExecFails(d)
    <3>1. at'[d] = "replied" /\ reply'[d] = Error("statement")
      BY <1>1, <2>4 DEF ExecFails, Reply
    <3>2. Failed(d, "statement")' /\ ~Ok(d)'
      BY <3>1, ErrorFacts DEF Failed, Ok
    <3> QED
      BY <2>1, <3>1, <3>2 DEF BlocksAreCounted
  <2>5. CASE /\ ~ExecDone(d)
             /\ at[d] = "idle" \/ (Running(d) /\ (at[d] # "exec" \/ d \notin holds))
    <3>1. at[d] # "replied" /\ ~(at[d] = "exec" /\ d \in holds)
      BY <1>1, <2>5 DEF Running, Queries
    <3>2. ~(blocks'[d] > 0)
      BY <1>2, <1>7, <3>1
    <3>3. ~(Ok(d)' /\ Replied(d, "run_statement")')
      BY <1>3, <2>5, <3>1 DEF Replied
    <3> QED
      BY <2>1, <3>2, <3>3 DEF BlocksAreCounted
  <2> QED
    BY <1>4, <1>5, <1>6, <2>2, <2>3, <2>4, <2>5, StatementSteps
<1> QED
  BY <1>4, <1>5, <1>6, <1>7, StatementSteps

\* A statement that succeeds has been written whole and counts all of it where the
\* server reports writes, 0 elsewhere; one that wrote anything ends as done or as failed
\* (the progress callback of Exec, internal/clickhouse/exec.go).
THEOREM WrittenHolds == Spec => []WrittenIsCounted
<1>1. Inv /\ WriteInv => WrittenIsCounted
  <2> SUFFICES ASSUME Inv, WriteInv, NEW c \in Calls, Replied(c, "run_statement")
               PROVE  /\ Ok(c) => /\ blocks[c] = InsertRows
                                  /\ reply[c].written = (IF stream[c].reports THEN InsertRows ELSE 0)
                      /\ blocks[c] > 0 => Ok(c) \/ Failed(c, "statement")
    BY DEF WrittenIsCounted
  <2>1. BlocksAreCounted(c)
    BY DEF WriteInv
  <2>2. wrote[c] \in Nat
    BY DEF Inv, TypeOK
  <2>3. ASSUME Ok(c)
        PROVE  /\ blocks[c] = InsertRows
               /\ reply[c].written = (IF stream[c].reports THEN InsertRows ELSE 0)
    BY <2>1, <2>2, <2>3 DEF BlocksAreCounted
  <2>4. blocks[c] > 0 => Ok(c) \/ Failed(c, "statement")
    BY <2>1 DEF BlocksAreCounted, Replied
  <2> QED
    BY <2>3, <2>4
<1> QED
  BY <1>1, WriteInit, WriteStep, InvHolds, PTL DEF Spec
=============================================================================

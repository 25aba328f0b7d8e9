------------------------------ MODULE ToolCalls ------------------------------
(***************************************************************************)
(* The five tools of internal/tools as concurrent calls: the               *)
(* MCP SDK runs every tool call in a goroutine of its own, all over one    *)
(* driver.Conn, which is a pool.  A call sends its queries one after the   *)
(* other, each over a connection it takes from the pool and gives back;    *)
(* between two queries anybody may change the server's catalog or data.    *)
(*                                                                         *)
(* Names are numbers, in the order ORDER BY name gives them.  A table is   *)
(* its number of columns, 0 where there is none.  A statement is the class *)
(* that the gates of internal/query put it in.                             *)
(***************************************************************************)
EXTENDS Integers, Sequences, FiniteSets

CONSTANTS
  Calls,                   \* tool calls
  Requests,                \* arguments a tool may be called with
  Conns,                   \* connections in the pool
  Databases, Tables,       \* names, ranges 1..n
  Widths,                  \* numbers of columns a table may be created with
  Absent,                  \* no such database
  NoReply,
  DefaultRowLimit, DefaultDatabaseLimit, DefaultTableLimit,
  DefaultFoldedTableLimit, MaxColumnsPerTable,
  Cap,                     \* max_result_rows, in throw mode
  MaxInt,                  \* the largest Go int
  InsertRows,              \* rows an "insert" writes, one block each
  Reporting,               \* does a server's revision report writes: revisions met
  Changes,                 \* kinds of catalog changes that may happen
  MaxChanges,              \* bound: catalog changes explored
  MaxData,                 \* bound: rows another client puts in
  Faults                   \* subset of {"busy", "error", "cancel"}

ASSUME PoolAssumption == Conns \in Nat \ {0}
ASSUME LimitAssumption ==
  /\ {DefaultRowLimit, DefaultDatabaseLimit, DefaultTableLimit,
      DefaultFoldedTableLimit, MaxColumnsPerTable} \subseteq 1 .. Cap - 1
  /\ Cap \in Nat /\ MaxInt \in Nat /\ Cap < MaxInt
ASSUME NameAssumption ==
  /\ Databases \subseteq Nat \ {0} /\ IsFiniteSet(Databases)
  /\ Tables \subseteq Nat \ {0} /\ IsFiniteSet(Tables)
  /\ Widths \subseteq Nat \ {0}
ASSUME ChangeAssumption ==
  Changes \subseteq {"create_database", "attach_database", "drop_database",
                     "create_table", "drop_table"}
ASSUME BoundAssumption ==
  InsertRows \in Nat /\ MaxChanges \in Nat /\ MaxData \in Nat
ASSUME RevisionAssumption == Reporting \subseteq BOOLEAN

\* The arguments of the tools; a limit is a Go int.
GoInt == -MaxInt - 1 .. MaxInt
ASSUME RequestAssumption ==
  Requests \subseteq
    [tool : {"ping"}] \union [tool : {"list_databases"}, limit : GoInt]
      \union [tool : {"list_tables"}, database : Databases \union {0},
              table : Tables \union {0}, columns : BOOLEAN, limit : GoInt]
      \union [tool : {"run_query", "run_statement"}, sql : STRING, limit : GoInt]

VARIABLES
  catalog,   \* catalog[d]: Absent, or the width of each of d's tables
  data,      \* rows in the table the statements are about
  changes,   \* catalog changes so far
  req,       \* req[c]: the arguments of call c
  at,        \* at[c]: the query c has to make next
  holds,     \* calls that hold a connection
  names,     \* names[c]: tables leanTables kept for c
  cut,       \* cut[c]: truncate found more of them
  columns,   \* columns[c]: what tableColumns gave for the first of them
  blocks,    \* blocks[c]: blocks of c's statement the server has written
  stream,    \* stream[c]: what the server has sent about c's statement
  wrote,     \* wrote[c]: the progress callback's counter
  reply,     \* reply[c]: what the tool returned
  seen       \* seen[c]: states of the server while c ran (history)

callVars == <<req, names, cut, columns, reply>>
vars     == <<catalog, data, changes, holds, at, blocks, stream, wrote, callVars, seen>>

Queries == {"ping", "databases", "lean", "exists", "columns", "query", "exec"}
Running(c) == at[c] \in Queries
Server == [catalog |-> catalog, data |-> data]

(***************************************************************************)
(* Limits.                                                                 *)
(***************************************************************************)
\* limit + 1 in a Go int.
PlusOne(n) == IF n = MaxInt THEN -MaxInt - 1 ELSE n + 1

resolveLimit(arg, default) == IF arg > 0 THEN arg ELSE default

resolveTableLimit(arg, folded) ==
  resolveLimit(arg, IF folded THEN DefaultFoldedTableLimit ELSE DefaultTableLimit)

\* The first n of an ordered list.
First(s, n) == SubSeq(s, 1, IF Len(s) < n THEN Len(s) ELSE n)

\* ORDER BY name: the i-th name has i - 1 names before it.
Before(S, x) == {y \in S : y < x}
Ascending(S) ==
  [i \in 1 .. Cardinality(S) |-> CHOOSE x \in S : Cardinality(Before(S, x)) = i - 1]

\* A throw-mode cap turns a longer result into an error.
Overflows(n) == n > Cap

(***************************************************************************)
(* The gates of run_query and run_statement.                               *)
(***************************************************************************)
IsRowReturning(sql)       == sql \in {"select", "select_format", "show"}
HasUnsupportedOutput(sql) == sql = "select_format"
CanBound(sql)             == sql \in {"select", "select_format"}

GateError(r) ==
  CASE r.sql = "blank" -> "blank"
    [] r.sql = "multiple" -> "multiple"
    [] r.tool = "run_query" /\ ~IsRowReturning(r.sql) -> "not row-returning"
    [] r.tool = "run_statement" /\ IsRowReturning(r.sql) -> "row-returning"
    [] r.tool = "run_query" /\ HasUnsupportedOutput(r.sql) -> "output clause"
    [] OTHER -> ""

ArgumentError(r) ==
  CASE r.tool \in {"ping", "list_databases"} -> ""
    [] r.tool = "list_tables" -> IF r.database = 0 THEN "database is required" ELSE ""
    [] OTHER -> GateError(r)

FirstQuery(tool) ==
  CASE tool = "ping" -> "ping"
    [] tool = "list_databases" -> "databases" [] tool = "list_tables" -> "lean"
    [] tool = "run_query" -> "query" [] tool = "run_statement" -> "exec"

Error(e) == [error |-> e]

(***************************************************************************)
(* Calls and the pool.                                                     *)
(***************************************************************************)
\* A call arrives; bad arguments are refused before ClickHouse hears of them.
Start(c) ==
  /\ at[c] = "idle"
  /\ \E r \in Requests :
       /\ req' = [req EXCEPT ![c] = r]
       /\ IF ArgumentError(r) = ""
            THEN /\ at' = [at EXCEPT ![c] = FirstQuery(r.tool)]
                 /\ seen' = [seen EXCEPT ![c] = {Server}]
                 /\ UNCHANGED reply
            ELSE /\ at' = [at EXCEPT ![c] = "replied"]
                 /\ reply' = [reply EXCEPT ![c] = Error(ArgumentError(r))]
                 /\ UNCHANGED seen
  /\ UNCHANGED <<catalog, data, changes, holds, names, cut, columns, blocks, stream, wrote>>

\* The driver (external) lends a connection while one is free.
Acquire(c) ==
  /\ Running(c) /\ c \notin holds
  /\ Cardinality(holds) < Conns
  /\ holds' = holds \union {c}
  /\ UNCHANGED <<catalog, data, changes, at, blocks, stream, wrote, callVars, seen>>

\* rows.Close forgotten.
ReleaseNever(c) == holds' = holds

\* rows.Close or the end of Exec gives the connection back.
Release(c) == holds' = holds \ {c}

\* The end of a call that read the server.
Reply(c, r) ==
  /\ reply' = [reply EXCEPT ![c] = r]
  /\ at' = [at EXCEPT ![c] = "replied"]

\* The pool gave no connection in time, or the request was cancelled meanwhile.
AcquireFails(c) ==
  /\ Faults \intersect {"busy", "cancel"} # {}
  /\ Running(c) /\ c \notin holds
  /\ Reply(c, Error("connection"))
  /\ UNCHANGED <<catalog, data, changes, holds, req, names, cut, columns, blocks, stream, wrote, seen>>

\* A query fails: refused, timed out, cancelled, or its connection was lost.
QueryFails(c) ==
  /\ Faults \intersect {"error", "cancel"} # {}
  /\ c \in holds /\ at[c] # "exec"
  /\ Release(c)
  /\ Reply(c, Error("query"))
  /\ UNCHANGED <<catalog, data, changes, req, names, cut, columns, blocks, stream, wrote, seen>>

\* ping: SELECT 1, without arguments or limits.
Ping(c) ==
  /\ at[c] = "ping" /\ c \in holds
  /\ Release(c)
  /\ Reply(c, [ok |-> 1])
  /\ UNCHANGED <<catalog, data, changes, req, names, cut, columns, blocks, stream, wrote, seen>>

(***************************************************************************)
(* list_databases                                                          *)
(***************************************************************************)
Existing == {d \in Databases : catalog[d] # Absent}

\* A full page taken for a cut one.
truncateAtLimit(s, limit) ==
  IF limit <= 0 \/ Len(s) < limit
    THEN [kept |-> s, truncated |-> FALSE]
    ELSE [kept |-> SubSeq(s, 1, limit), truncated |-> TRUE]

\* names[1..limit], and whether there were more.
truncate(s, limit) ==
  IF limit <= 0 \/ Len(s) <= limit
    THEN [kept |-> s, truncated |-> FALSE]
    ELSE [kept |-> SubSeq(s, 1, limit), truncated |-> TRUE]

\* The server answers LIMIT n with the first n rows, a negative n with an error.
Fetch(S, n) == First(Ascending(S), n)

ListDatabases(c) ==
  /\ at[c] = "databases" /\ c \in holds
  /\ Release(c)
  /\ LET limit   == resolveLimit(req[c].limit, DefaultDatabaseLimit)
         fetched == Fetch(Existing, PlusOne(limit))
         kept    == truncate(fetched, limit)
     IN  Reply(c, IF PlusOne(limit) < 0 THEN Error("negative limit")
                  ELSE IF Overflows(Len(fetched)) THEN Error("cap")
                  ELSE [names |-> kept.kept, truncated |-> kept.truncated])
  /\ UNCHANGED <<catalog, data, changes, req, names, cut, columns, blocks, stream, wrote, seen>>

(***************************************************************************)
(* list_tables                                                             *)
(***************************************************************************)
Limit(r) == resolveTableLimit(r.limit, r.columns)

\* A non-positive number to fetch leaves the LIMIT clause out.
FetchOf(r) == IF r.table # 0 THEN 0 ELSE PlusOne(Limit(r))

Matching(r) ==
  IF catalog[r.database] = Absent THEN {}
  ELSE {t \in Tables : catalog[r.database][t] > 0 /\ r.table \in {0, t}}

LeanTables(r) ==
  IF FetchOf(r) > 0 THEN Fetch(Matching(r), FetchOf(r)) ELSE Ascending(Matching(r))

WantsColumns(r) == r.table # 0 \/ r.columns

\* What list_tables returns when there is nothing left to ask.
Listing(ns, ct, cs) == [names |-> ns, truncated |-> ct, columns |-> cs]

\* The database looked up whatever tables were found.
LeanTablesEmptyAlways(c) ==
  /\ at[c] = "lean" /\ c \in holds
  /\ Release(c)
  /\ at' = [at EXCEPT ![c] = "exists"]
  /\ UNCHANGED <<catalog, data, changes, callVars, blocks, stream, wrote, seen>>

LeanTablesEmpty(c) ==
  /\ at[c] = "lean" /\ c \in holds
  /\ LeanTables(req[c]) = <<>>
  /\ Release(c)
  /\ at' = [at EXCEPT ![c] = "exists"]
  /\ UNCHANGED <<catalog, data, changes, callVars, blocks, stream, wrote, seen>>

LeanTablesFound(c) ==
  /\ at[c] = "lean" /\ c \in holds
  /\ LeanTables(req[c]) # <<>>
  /\ Release(c)
  /\ LET r    == req[c]
         all  == LeanTables(r)
         kept == IF r.table = 0 THEN truncate(all, Limit(r))
                 ELSE [kept |-> all, truncated |-> FALSE]
     IN  /\ names' = [names EXCEPT ![c] = kept.kept]
         /\ cut' = [cut EXCEPT ![c] = kept.truncated]
         /\ IF Overflows(Len(all)) THEN Reply(c, Error("cap"))
            ELSE IF WantsColumns(r)
              THEN at' = [at EXCEPT ![c] = "columns"] /\ UNCHANGED reply
              ELSE Reply(c, Listing(kept.kept, kept.truncated, <<>>))
  /\ UNCHANGED <<catalog, data, changes, req, columns, blocks, stream, wrote, seen>>

\* The database not looked up.
VerdictUnchecked(r) == IF r.table # 0 THEN "table not found" ELSE ""

Verdict(r) == IF r.database \notin Existing THEN "database not found"
              ELSE IF r.table # 0 THEN "table not found" ELSE ""

DatabaseExists(c) ==
  /\ at[c] = "exists" /\ c \in holds
  /\ Release(c)
  /\ Reply(c, IF Verdict(req[c]) # "" THEN Error(Verdict(req[c]))
              ELSE Listing(<<>>, FALSE, <<>>))
  /\ UNCHANGED <<catalog, data, changes, req, names, cut, columns, blocks, stream, wrote, seen>>

Width(cat, d, t) == IF cat[d] = Absent THEN 0 ELSE cat[d][t]

\* No sentinel column.
TableColumnsNoSentinel(width) ==
  [count |-> IF width > MaxColumnsPerTable THEN MaxColumnsPerTable ELSE width,
   truncated |-> FALSE]

\* The columns of one table, at most MaxColumnsPerTable of them.
TableColumns(width) ==
  [count |-> IF width > MaxColumnsPerTable THEN MaxColumnsPerTable ELSE width,
   truncated |-> width > MaxColumnsPerTable]

\* One table's columns, in a query of its own.
NextTableColumns(c) ==
  /\ at[c] = "columns" /\ c \in holds
  /\ Release(c)
  /\ LET t  == names[c][Len(columns[c]) + 1]
         cs == Append(columns[c], TableColumns(Width(catalog, req[c].database, t)))
     IN  /\ columns' = [columns EXCEPT ![c] = cs]
         /\ IF Len(cs) = Len(names[c])
              THEN Reply(c, Listing(names[c], cut[c], cs))
              ELSE UNCHANGED <<at, reply>>
  /\ UNCHANGED <<catalog, data, changes, req, names, cut, blocks, stream, wrote, seen>>

(***************************************************************************)
(* run_query                                                               *)
(***************************************************************************)
RowLimit(r) == resolveLimit(r.limit, DefaultRowLimit)

\* No sentinel row; no LIMIT at all.
FetchedRowsNoSentinel(r) ==
  IF CanBound(r.sql) /\ data > RowLimit(r) THEN RowLimit(r) ELSE data
FetchedRowsUnbounded(r) == data

\* The rows the server sends: a SELECT is wrapped in LIMIT limit+1, anything else
\* runs as it is.
FetchedRows(r) ==
  IF CanBound(r.sql) /\ data > PlusOne(RowLimit(r)) THEN PlusOne(RowLimit(r)) ELSE data

\* Shape: the sentinel row is dropped and reported.
Shape(fetched, limit) ==
  [rows |-> IF fetched > limit THEN limit ELSE fetched, truncated |-> fetched > limit]

RunQuery(c) ==
  /\ at[c] = "query" /\ c \in holds
  /\ Release(c)
  /\ LET r == req[c] IN
       Reply(c, IF CanBound(r.sql) /\ PlusOne(RowLimit(r)) < 0 THEN Error("negative limit")
                ELSE IF Overflows(FetchedRows(r)) THEN Error("cap")
                ELSE Shape(FetchedRows(r), RowLimit(r)))
  /\ UNCHANGED <<catalog, data, changes, req, names, cut, columns, blocks, stream, wrote, seen>>

(***************************************************************************)
(* run_statement                                                           *)
(***************************************************************************)
\* Calls that run see the state the server is in.
Watch(server) ==
  seen' = [c \in Calls |-> IF Running(c) THEN seen[c] \union {server} ELSE seen[c]]

\* The server (external) writes a block and, from a revision that reports writes,
\* sends a progress packet.  It may go on for a statement whose caller has gone.
WriteBlock(c) ==
  /\ \/ at[c] = "exec" /\ c \in holds
     \/ "cancel" \in Faults /\ reply[c] = Error("statement")
  /\ blocks[c] < InsertRows
  /\ blocks' = [blocks EXCEPT ![c] = @ + 1]
  /\ stream' = [stream EXCEPT ![c].unread = IF stream[c].reports THEN @ + 1 ELSE @]
  /\ data' = data + 1
  /\ Watch([Server EXCEPT !.data = data + 1])
  /\ UNCHANGED <<catalog, changes, holds, at, wrote, callVars>>

\* The server (external) ends the stream, behind every packet.
EndOfStream(c) ==
  /\ at[c] = "exec" /\ c \in holds
  /\ blocks[c] = InsertRows /\ ~stream[c].ended
  /\ stream' = [stream EXCEPT ![c].ended = TRUE]
  /\ UNCHANGED <<catalog, data, changes, holds, at, blocks, wrote, callVars, seen>>

\* The counter set to the packet's rows instead of raised by them.
ProgressOverwrites(c) ==
  /\ stream[c].unread > 0
  /\ stream' = [stream EXCEPT ![c].unread = @ - 1]
  /\ wrote' = [wrote EXCEPT ![c] = 1]
  /\ UNCHANGED <<catalog, data, changes, holds, at, blocks, callVars, seen>>

\* The driver's goroutine reads a progress packet and calls back; it can outlive Exec.
Progress(c) ==
  /\ stream[c].unread > 0
  /\ stream' = [stream EXCEPT ![c].unread = @ - 1]
  /\ wrote' = [wrote EXCEPT ![c] = @ + 1]
  /\ UNCHANGED <<catalog, data, changes, holds, at, blocks, callVars, seen>>

\* Exec returns when it reads the end of the stream, which it reads in order.
ExecDone(c) ==
  /\ at[c] = "exec" /\ c \in holds
  /\ stream[c].ended /\ stream[c].unread = 0
  /\ Release(c)
  /\ Reply(c, [written |-> wrote[c]])
  /\ UNCHANGED <<catalog, data, changes, req, names, cut, columns, blocks, stream, wrote, seen>>

\* Exec fails, before, while or after the server writes; the count so far is
\* dropped.
ExecFails(c) ==
  /\ Faults \intersect {"error", "cancel"} # {}
  /\ at[c] = "exec" /\ c \in holds
  /\ Release(c)
  /\ Reply(c, Error("statement"))
  /\ UNCHANGED <<catalog, data, changes, req, names, cut, columns, blocks, stream, wrote, seen>>

(***************************************************************************)
(* The rest of the world: other clients, and DDL sent by other calls.      *)
(***************************************************************************)
Empty == [t \in Tables |-> 0]

Changed(d) ==
  (IF catalog[d] = Absent
     THEN (IF "create_database" \in Changes THEN {Empty} ELSE {})
            \union (IF "attach_database" \in Changes THEN [Tables -> {0} \union Widths] ELSE {})
     ELSE (IF "drop_database" \in Changes THEN {Absent} ELSE {})
            \union {[catalog[d] EXCEPT ![t] = w] :
                      t \in {u \in Tables : "create_table" \in Changes /\ catalog[d][u] = 0},
                      w \in Widths}
            \union {[catalog[d] EXCEPT ![t] = 0] :
                      t \in {u \in Tables : "drop_table" \in Changes /\ catalog[d][u] > 0}})

ChangeCatalog ==
  /\ changes < MaxChanges
  /\ \E d \in Databases : \E content \in Changed(d) :
       /\ catalog' = [catalog EXCEPT ![d] = content]
       /\ Watch([Server EXCEPT !.catalog = [catalog EXCEPT ![d] = content]])
  /\ changes' = changes + 1
  /\ UNCHANGED <<data, holds, at, blocks, stream, wrote, callVars>>

AddRow ==
  /\ data < MaxData
  /\ data' = data + 1
  /\ Watch([Server EXCEPT !.data = data + 1])
  /\ UNCHANGED <<catalog, changes, holds, at, blocks, stream, wrote, callVars>>

Init ==
  /\ catalog \in [Databases -> {Absent} \union [Tables -> {0} \union Widths]]
  /\ data \in 0 .. MaxData
  /\ changes = 0
  /\ req = [c \in Calls |-> NoReply]
  /\ at = [c \in Calls |-> "idle"]
  /\ holds = {}
  /\ names = [c \in Calls |-> <<>>]
  /\ cut = [c \in Calls |-> FALSE]
  /\ columns = [c \in Calls |-> <<>>]
  /\ blocks = [c \in Calls |-> 0]
  /\ stream \in [Calls -> [reports : Reporting, unread : {0}, ended : {FALSE}]]
  /\ wrote = [c \in Calls |-> 0]
  /\ reply = [c \in Calls |-> NoReply]
  /\ seen = [c \in Calls |-> {}]

\* ClickHouse (external) answers the query a call has sent, or it fails.
ServerAnswers(c) ==
  \/ Ping(c) \/ ListDatabases(c)
  \/ LeanTablesEmpty(c) \/ LeanTablesFound(c) \/ DatabaseExists(c) \/ NextTableColumns(c)
  \/ RunQuery(c)
  \/ ExecDone(c)

Next ==
  \/ \E c \in Calls : \/ Start(c) \/ Acquire(c) \/ AcquireFails(c) \/ QueryFails(c)
                      \/ Ping(c) \/ ListDatabases(c)
                      \/ LeanTablesEmpty(c) \/ LeanTablesFound(c) \/ DatabaseExists(c)
                      \/ NextTableColumns(c)
                      \/ RunQuery(c)
                      \/ WriteBlock(c) \/ EndOfStream(c) \/ Progress(c)
                      \/ ExecDone(c) \/ ExecFails(c)
  \/ ChangeCatalog
  \/ AddRow

Spec == Init /\ [][Next]_vars

\* The driver lends a free connection to somebody who waits, the server answers
\* what it was asked (max_execution_time and the driver's read timeout), and
\* goroutines run on.
Fairness ==
  \A c \in Calls : /\ WF_vars(Acquire(c)) /\ WF_vars(ServerAnswers(c))
                   /\ WF_vars(WriteBlock(c)) /\ WF_vars(EndOfStream(c))
                   /\ WF_vars(Progress(c))

FairSpec == Spec /\ Fairness

(***************************************************************************)
(* Properties.                                                             *)
(***************************************************************************)
Replied(c, tool) == at[c] = "replied" /\ req[c].tool = tool
Ok(c)            == "error" \notin DOMAIN reply[c]
Failed(c, e)     == reply[c] = Error(e)

Contents    == [Databases -> {Absent} \union [Tables -> {0} \union Widths]]
ColumnCount == [count : Nat, truncated : BOOLEAN]
Errors      == {"blank", "multiple", "not row-returning", "row-returning", "output clause",
                "database is required", "database not found", "table not found",
                "connection", "query", "statement", "cap", "negative limit"}
Streams     == [reports : Reporting, unread : Nat, ended : BOOLEAN]
Replies ==
  [error : Errors] \union [ok : {1}] \union [names : Seq(Databases), truncated : BOOLEAN]
    \union [names : Seq(Tables), truncated : BOOLEAN, columns : Seq(ColumnCount)]
    \union [rows : Nat, truncated : BOOLEAN] \union [written : Nat]

ASSUME ReplyAssumption == NoReply \notin Replies

\* Every variable holds what its comment says; in particular the pool never lends
\* more connections than it has, and only to calls that run a query.
TypeOK ==
  /\ catalog \in Contents /\ data \in Nat /\ changes \in 0 .. MaxChanges
  /\ req \in [Calls -> Requests \union {NoReply}]
  /\ at \in [Calls -> Queries \union {"idle", "replied"}]
  /\ holds \subseteq {c \in Calls : Running(c)}
  /\ IsFiniteSet(holds) /\ Cardinality(holds) <= Conns
  /\ names \in [Calls -> Seq(Tables)] /\ cut \in [Calls -> BOOLEAN]
  /\ columns \in [Calls -> Seq(ColumnCount)]
  /\ \A c \in Calls : Len(columns[c]) <= Len(names[c])
  /\ blocks \in [Calls -> 0 .. InsertRows] /\ wrote \in [Calls -> Nat]
  /\ stream \in [Calls -> Streams]
  /\ reply \in [Calls -> Replies \union {NoReply}]
  /\ \A c \in Calls : reply[c] = NoReply <=> at[c] # "replied"
  /\ seen \in [Calls -> SUBSET [catalog : Contents, data : Nat]]

Names(s, d) == IF s.catalog[d] = Absent THEN {}
               ELSE {t \in Tables : s.catalog[d][t] > 0}

\* list_databases and list_tables return, in order, the first `limit` names of
\* what the server held at one moment of the call, and say truncated exactly when
\* it held more (limit+1 rows are fetched, the sentinel is dropped), whatever
\* changed while columns were looked up.
IsFirstOf(ns, truncated, S, limit) ==
  /\ Len(ns) = (IF Cardinality(S) < limit THEN Cardinality(S) ELSE limit)
  /\ \A i, j \in 1 .. Len(ns) : i < j => ns[i] < ns[j]
  /\ \A i \in 1 .. Len(ns) : ns[i] \in S /\ Cardinality({n \in S : n < ns[i]}) < limit
  /\ truncated <=> Cardinality(S) > limit

ListingsAreSnapshots ==
  \A c \in Calls :
    /\ (Replied(c, "list_databases") /\ Ok(c)) => \E s \in seen[c] :
         IsFirstOf(reply[c].names, reply[c].truncated,
                   {d \in Databases : s.catalog[d] # Absent},
                   resolveLimit(req[c].limit, DefaultDatabaseLimit))
    /\ (Replied(c, "list_tables") /\ Ok(c) /\ req[c].table = 0) => \E s \in seen[c] :
         IsFirstOf(reply[c].names, reply[c].truncated, Names(s, req[c].database),
                   Limit(req[c]))

\* The verdict on an empty listing is put together from two queries, and each half
\* of it is true of a moment of the call: a database "not found" was missing, one
\* reported as empty (or as lacking the table) was seen without tables (without
\* it) and was seen to exist.  The two moments may differ: a database attached
\* with its tables in between is reported as empty, which it never was.
VerdictsAreTrue ==
  \A c \in Calls : Replied(c, "list_tables") =>
    LET d       == req[c].database
        Existed == \E s \in seen[c] : s.catalog[d] # Absent
        Lacked(ts) == \E s \in seen[c] : ts \intersect Names(s, d) = {}
    IN /\ Failed(c, "database not found") => \E s \in seen[c] : s.catalog[d] = Absent
       /\ Failed(c, "table not found") =>
            Existed /\ Lacked({req[c].table})
       /\ (Ok(c) /\ reply[c].names = <<>>) => Existed /\ Lacked(Tables)

\* Table t had the columns k at some moment of call c.
HadColumns(c, t, k) ==
  /\ k.count <= MaxColumnsPerTable
  /\ \E s \in seen[c] : LET w == Width(s.catalog, req[c].database, t) IN
       IF k.truncated THEN w > k.count ELSE w = k.count

\* Each table is listed with columns it had at some moment of the call, or with
\* none because it was gone; columns of one table never appear under another.
ColumnsAreTheirTables ==
  \A c \in Calls : (Replied(c, "list_tables") /\ Ok(c) /\ WantsColumns(req[c])) =>
    /\ Len(reply[c].columns) = Len(reply[c].names)
    /\ \A i \in DOMAIN reply[c].names : HadColumns(c, reply[c].names[i], reply[c].columns[i])

\* run_query returns the first `limit` rows of what the query had at one moment and
\* says truncated exactly when there were more.
RowsAreHonest ==
  \A c \in Calls : (Replied(c, "run_query") /\ Ok(c)) => \E s \in seen[c] :
    LET limit == resolveLimit(req[c].limit, DefaultRowLimit) IN
    /\ reply[c].rows = (IF s.data < limit THEN s.data ELSE limit)
    /\ reply[c].truncated <=> s.data > limit

\* A bounded query with a limit below the cap never runs into the cap, however
\* much data there is: the LIMIT keeps it away.
LimitKeepsTheCapAway ==
  \A c \in Calls :
    (Replied(c, "run_query") /\ CanBound(req[c].sql)
       /\ resolveLimit(req[c].limit, DefaultRowLimit) < Cap) =>
      ~Failed(c, "cap") /\ ~Failed(c, "negative limit")

\* A statement that succeeds has been written whole, and the count it reports is all
\* of it where the server reports writes and 0 where it does not (the count is
\* best-effort, run_statement's own words), also while other statements write; and
\* one that wrote anything is reported as done or as failed, never as refused.
WrittenIsCounted ==
  \A c \in Calls : Replied(c, "run_statement") =>
    /\ Ok(c) => /\ blocks[c] = InsertRows
                /\ reply[c].written = (IF stream[c].reports THEN InsertRows ELSE 0)
    /\ blocks[c] > 0 => Ok(c) \/ Failed(c, "statement")

(***************************************************************************)
(* Why they hold: a call has seen the server it asks, asks what its tool   *)
(* asks, and carries from one query to the next only what it has seen.     *)
(***************************************************************************)
SeesTheServer == \A c \in Calls : Running(c) => Server \in seen[c]

QueryOfItsTool(c) ==
  /\ at[c] # "idle" => req[c] \in Requests
  /\ Running(c) =>
       /\ ArgumentError(req[c]) = ""
       /\ \/ at[c] = FirstQuery(req[c].tool)
          \/ at[c] \in {"exists", "columns"} /\ req[c].tool = "list_tables"

EmptyWasSeen(c) ==
  at[c] = "exists" =>
    \E s \in seen[c] : \A t \in Names(s, req[c].database) : req[c].table \notin {0, t}

ListedAtOneMoment(c) ==
  /\ at[c] \in {"idle", "lean"} => columns[c] = <<>>
  /\ at[c] = "columns" =>
       /\ Len(columns[c]) < Len(names[c])
       /\ req[c].table = 0 => \E s \in seen[c] :
            IsFirstOf(names[c], cut[c], Names(s, req[c].database), Limit(req[c]))

ColumnsSoFar(c) ==
  at[c] = "columns" =>
    \A i \in 1 .. Len(columns[c]) : HadColumns(c, names[c][i], columns[c][i])

\* Every block is on its way, counted or never reported, and the stream ends behind
\* the last of them; a count is returned at the end of the stream, and not before.
BlocksAreCounted(c) ==
  /\ IF stream[c].reports THEN wrote[c] + stream[c].unread = blocks[c]
                          ELSE wrote[c] = 0 /\ stream[c].unread = 0
  /\ stream[c].ended => blocks[c] = InsertRows
  /\ blocks[c] > 0 => \/ at[c] = "exec" /\ c \in holds
                      \/ at[c] = "replied" /\ (Ok(c) \/ Failed(c, "statement"))
  /\ (Replied(c, "run_statement") /\ Ok(c)) =>
       stream[c].ended /\ stream[c].unread = 0 /\ reply[c].written = wrote[c]

CallInv(c) ==
  QueryOfItsTool(c) /\ EmptyWasSeen(c) /\ ListedAtOneMoment(c) /\ ColumnsSoFar(c)

\* What the count of a statement rests on besides.
WriteInv == \A c \in Calls : BlocksAreCounted(c)

Inv == TypeOK /\ SeesTheServer /\ \A c \in Calls : CallInv(c)

\* A call that has begun is answered, however few connections there are: no call
\* waits for a connection while it holds one.
CallsAreAnswered == \A c \in Calls : Running(c) ~> at[c] = "replied"
=============================================================================

------------------------- MODULE ToolListingsProof --------------------------
(***************************************************************************)
(* What list_databases and list_tables say is true of the server, for any  *)
(* number of calls, names and columns, whatever other clients change while *)
(* a listing is put together.                                              *)
(***************************************************************************)
EXTENDS ToolCallsProof

\* list_tables ends with the cap, with a verdict on a listing that was seen empty, or
\* with names of one moment and columns of each of them.
LEMMA ListTablesReply ==
  ASSUME Inv, NEW c \in Calls, at'[c] = "replied",
         LeanTablesFound(c) \/ DatabaseExists(c) \/ NextTableColumns(c)
  PROVE  \/ reply'[c] = Error("cap")
         \/ /\ \/ Verdict(req[c]) # "" /\ reply'[c] = Error(Verdict(req[c]))
               \/ Verdict(req[c]) = "" /\ reply'[c] = Listing(<<>>, FALSE, <<>>)
            /\ \E s \in seen[c] :
                 \A t \in Names(s, req[c].database) : req[c].table \notin {0, t}
         \/ \E ns \in Seq(Tables), ct \in BOOLEAN, cs \in Seq(ColumnCount) :
              /\ ns # <<>> /\ reply'[c] = Listing(ns, ct, cs)
              /\ req[c].table = 0 => \E s \in seen[c] :
                   IsFirstOf(ns, ct, Names(s, req[c].database), Limit(req[c]))
              /\ WantsColumns(req[c]) =>
                   /\ Len(cs) = Len(ns)
                   /\ \A i \in 1 .. Len(ns) : HadColumns(c, ns[i], cs[i])
<1>1. /\ at \in [Calls -> Queries \union {"idle", "replied"}]
      /\ reply \in [Calls -> Replies \union {NoReply}]
      /\ names[c] \in Seq(Tables) /\ cut[c] \in BOOLEAN
  BY DEF Inv, TypeOK
<1>2. ASSUME NEW r, Reply(c, r) PROVE reply'[c] = r
  BY <1>1, <1>2 DEF Reply
<1>3. CASE LeanTablesFound(c)
  <2>1. Server \in seen[c]
    <3>1. Running(c)
      BY <1>3 DEF LeanTablesFound, Running, Queries
    <3> QED
      BY <3>1, AskerFacts
  <2>2. PICK ns \in Seq(Tables) : \E ct \in BOOLEAN :
          /\ ns # <<>>
          /\ req[c].table = 0 =>
               IsFirstOf(ns, ct, Names(Server, req[c].database), Limit(req[c]))
          /\ \/ Reply(c, Error("cap"))
             \/ at' = [at EXCEPT ![c] = "columns"]
             \/ ~WantsColumns(req[c]) /\ Reply(c, Listing(ns, ct, <<>>))
    BY <1>3, LeanTablesFoundFacts
  <2>3. PICK ct \in BOOLEAN :
          /\ ns # <<>>
          /\ req[c].table = 0 =>
               IsFirstOf(ns, ct, Names(Server, req[c].database), Limit(req[c]))
          /\ \/ Reply(c, Error("cap"))
             \/ at' = [at EXCEPT ![c] = "columns"]
             \/ ~WantsColumns(req[c]) /\ Reply(c, Listing(ns, ct, <<>>))
    BY <2>2
  <2>4. at' # [at EXCEPT ![c] = "columns"]
    BY <1>1
  <2>5. <<>> \in Seq(ColumnCount)
    OBVIOUS
  <2>6. ASSUME ~WantsColumns(req[c]), reply'[c] = Listing(ns, ct, <<>>)
        PROVE  \E cs \in Seq(ColumnCount) :
                 /\ reply'[c] = Listing(ns, ct, cs)
                 /\ WantsColumns(req[c]) =>
                      /\ Len(cs) = Len(ns)
                      /\ \A i \in 1 .. Len(ns) : HadColumns(c, ns[i], cs[i])
    BY <2>5, <2>6
  <2> QED
    BY <1>2, <2>1, <2>3, <2>4, <2>6
<1>4. CASE DatabaseExists(c)
  <2>1. \E s \in seen[c] : \A t \in Names(s, req[c].database) : req[c].table \notin {0, t}
    BY <1>4 DEF DatabaseExists, Inv, CallInv, EmptyWasSeen
  <2>2. Reply(c, IF Verdict(req[c]) # "" THEN Error(Verdict(req[c]))
                 ELSE Listing(<<>>, FALSE, <<>>))
    BY <1>4 DEF DatabaseExists
  <2> QED
    BY <1>2, <2>1, <2>2
<1>5. CASE NextTableColumns(c)
  <2>1. at[c] = "columns"
    BY <1>5 DEF NextTableColumns
  <2>2. PICK cs \in Seq(ColumnCount) :
          /\ Len(cs) <= Len(names[c])
          /\ \A i \in 1 .. Len(cs) : HadColumns(c, names[c][i], cs[i])
          /\ IF Len(cs) = Len(names[c]) THEN Reply(c, Listing(names[c], cut[c], cs))
                                        ELSE UNCHANGED <<at, reply>>
    BY <1>5, NextTableColumnsFacts
  <2>3. Len(cs) = Len(names[c]) /\ Reply(c, Listing(names[c], cut[c], cs))
    BY <2>1, <2>2
  <2>4. /\ Len(columns[c]) < Len(names[c]) /\ Len(columns[c]) \in Nat
        /\ req[c].table = 0 => \E s \in seen[c] :
             IsFirstOf(names[c], cut[c], Names(s, req[c].database), Limit(req[c]))
    BY <2>1 DEF Inv, CallInv, ListedAtOneMoment, TypeOK
  <2>5. names[c] # <<>>
    <3>1. Len(<<>>) = 0
      OBVIOUS
    <3> QED
      BY <2>4, <3>1
  <2> QED
    BY <1>1, <1>2, <2>2, <2>3, <2>4, <2>5
<1> QED
  BY <1>3, <1>4, <1>5

LEMMA ListingFacts ==
  ASSUME NEW ns, NEW ct, NEW cs
  PROVE  /\ \A e : Listing(ns, ct, cs) # Error(e)
         /\ Listing(ns, ct, cs).names = ns /\ Listing(ns, ct, cs).truncated = ct
         /\ Listing(ns, ct, cs).columns = cs
         /\ "error" \notin DOMAIN Listing(ns, ct, cs)
<1>1. "error" \notin DOMAIN Listing(ns, ct, cs)
  BY DEF Listing
<1>2. \A e : Listing(ns, ct, cs) # Error(e)
  BY <1>1, ErrorFacts
<1> QED
  BY <1>1, <1>2 DEF Listing

LEMMA EmptyListing ==
  /\ \A e : Listing(<<>>, FALSE, <<>>) # Error(e)
  /\ Listing(<<>>, FALSE, <<>>).names = <<>>
  /\ Listing(<<>>, FALSE, <<>>).truncated = FALSE
  /\ Listing(<<>>, FALSE, <<>>).columns = <<>>
<1> DEFINE empty == Listing(<<>>, FALSE, <<>>)
<1>1. /\ "error" \notin DOMAIN empty
      /\ empty.names = <<>> /\ empty.truncated = FALSE /\ empty.columns = <<>>
  BY DEF Listing
<1> HIDE DEF empty
<1>2. \A e : empty # Error(e)
  BY <1>1, ErrorFacts
<1> QED
  BY <1>1, <1>2 DEF empty

\* The arguments of a call of list_tables, and the limit it asks for.
LEMMA ListTablesArguments ==
  ASSUME Inv, NEW c \in Calls, at[c] \in {"lean", "exists", "columns"}
  PROVE  req[c].database \in Databases /\ req[c].table \in Tables \union {0}
           /\ Limit(req[c]) \in Nat \ {0}
<1>1. req[c] \in Requests /\ req[c].tool = "list_tables" /\ req[c].database \in Databases
  <2>1. Running(c)
    BY DEF Running, Queries
  <2> QED
    BY <2>1, AskerFacts
<1>2. req[c].limit \in GoInt /\ req[c].table \in Tables \union {0} /\ req[c].columns \in BOOLEAN
  BY <1>1, RequestFacts
<1>3. DefaultTableLimit \in 1 .. Cap - 1 /\ DefaultFoldedTableLimit \in 1 .. Cap - 1
        /\ MaxInt \in Nat
  BY LimitAssumption
<1>4. Limit(req[c]) \in 1 .. MaxInt
  <2>1. CASE req[c].columns
    BY <1>2, <1>3, <2>1, LimitFacts DEF Limit, resolveTableLimit
  <2>2. CASE ~req[c].columns
    BY <1>2, <1>3, <2>2, LimitFacts DEF Limit, resolveTableLimit
  <2> QED
    BY <2>1, <2>2
<1> QED
  BY <1>1, <1>2, <1>3, <1>4

LEMMA NothingIsFirstOfNothing ==
  ASSUME NEW limit \in Nat \ {0} PROVE IsFirstOf(<<>>, FALSE, {}, limit)
<1>1. Cardinality({}) = 0
  BY FS_EmptySet
<1>2. Len(<<>>) = 0 /\ 1 .. 0 = {}
  OBVIOUS
<1>3. 0 = (IF 0 < limit THEN 0 ELSE limit) /\ ~(0 > limit)
  OBVIOUS
<1> QED
  BY <1>1, <1>2, <1>3 DEF IsFirstOf

(***************************************************************************)
(* Listings are snapshots.                                                 *)
(***************************************************************************)

LEMMA DatabasesStep ==
  ASSUME Inv, ListingsAreSnapshots, [Next]_vars, NEW d \in Calls,
         Replied(d, "list_databases")', Ok(d)'
  PROVE  \E s \in seen'[d] :
           IsFirstOf(reply'[d].names, reply'[d].truncated,
                     {b \in Databases : s.catalog[b] # Absent},
                     resolveLimit(req'[d].limit, DefaultDatabaseLimit))
<1> DEFINE Snapshot == \E s \in seen'[d] :
             IsFirstOf(reply'[d].names, reply'[d].truncated,
                       {b \in Databases : s.catalog[b] # Absent},
                       resolveLimit(req'[d].limit, DefaultDatabaseLimit))
<1> SUFFICES Snapshot
  OBVIOUS
<1>1. CASE Keeps(d) /\ Replied(d, "list_databases")
  <2>1. Ok(d)
    BY <1>1 DEF Ok, Keeps
  <2>2. \E s \in seen[d] :
          IsFirstOf(reply[d].names, reply[d].truncated,
                    {b \in Databases : s.catalog[b] # Absent},
                    resolveLimit(req[d].limit, DefaultDatabaseLimit))
    BY <1>1, <2>1 DEF ListingsAreSnapshots
  <2> QED
    BY <1>1, <2>2 DEF Keeps
<1>2. CASE req'[d] = req[d] /\ seen'[d] = seen[d] /\ Server \in seen[d] /\ ListDatabases(d)
  <2>1. PICK r \in Replies :
          /\ Reply(d, r)
          /\ \/ r \in {Error("negative limit"), Error("cap")}
             \/ \E ns, truncated :
                  /\ r = [names |-> ns, truncated |-> truncated]
                  /\ IsFirstOf(ns, truncated, {b \in Databases : Server.catalog[b] # Absent},
                               resolveLimit(req[d].limit, DefaultDatabaseLimit))
    BY <1>2, ListDatabasesReply
  <2>2. reply'[d] = r
    BY <2>1 DEF Reply, Inv, TypeOK
  <2>3. r \notin {Error("negative limit"), Error("cap")}
    BY <2>2, ErrorFacts DEF Ok
  <2>4. PICK ns, truncated :
          /\ r = [names |-> ns, truncated |-> truncated]
          /\ IsFirstOf(ns, truncated, {b \in Databases : Server.catalog[b] # Absent},
                       resolveLimit(req[d].limit, DefaultDatabaseLimit))
    BY <2>1, <2>3
  <2>5. reply'[d].names = ns /\ reply'[d].truncated = truncated
    BY <2>2, <2>4
  <2> QED
    BY <1>2, <2>4, <2>5
<1>3. \/ Keeps(d) /\ Replied(d, "list_databases")
      \/ req'[d] = req[d] /\ seen'[d] = seen[d] /\ Server \in seen[d] /\ ListDatabases(d)
  BY Ending
<1> HIDE DEF Snapshot
<1> QED
  BY <1>1, <1>2, <1>3

LEMMA TablesStep ==
  ASSUME Inv, ListingsAreSnapshots, [Next]_vars, NEW d \in Calls,
         Replied(d, "list_tables")', Ok(d)', req'[d].table = 0
  PROVE  \E s \in seen'[d] :
           IsFirstOf(reply'[d].names, reply'[d].truncated, Names(s, req'[d].database),
                     Limit(req'[d]))
<1> DEFINE Snapshot == \E s \in seen'[d] :
             IsFirstOf(reply'[d].names, reply'[d].truncated, Names(s, req'[d].database),
                       Limit(req'[d]))
<1> SUFFICES Snapshot
  OBVIOUS
<1>1. CASE Keeps(d) /\ Replied(d, "list_tables")
  <2>1. Ok(d) /\ req[d].table = 0
    BY <1>1 DEF Ok, Keeps
  <2>2. \E s \in seen[d] :
          IsFirstOf(reply[d].names, reply[d].truncated, Names(s, req[d].database), Limit(req[d]))
    BY <1>1, <2>1 DEF ListingsAreSnapshots
  <2> QED
    BY <1>1, <2>2 DEF Keeps
<1>2. CASE /\ req'[d] = req[d] /\ seen'[d] = seen[d] /\ req[d].tool = "list_tables"
           /\ LeanTablesFound(d) \/ DatabaseExists(d) \/ NextTableColumns(d)
  <2>1. /\ at[d] \in {"lean", "exists", "columns"} /\ at'[d] = "replied"
        /\ req[d].table = 0
    BY <1>2 DEF LeanTablesFound, DatabaseExists, NextTableColumns, Replied
  <2>2. Limit(req[d]) \in Nat \ {0}
    BY <1>2, <2>1, ListTablesArguments
  <2>3. ~ \E e : reply'[d] = Error(e)
    BY ErrorFacts DEF Ok
  <2>4. ASSUME NEW s \in seen[d], reply'[d] = Listing(<<>>, FALSE, <<>>),
               \A t \in Names(s, req[d].database) : req[d].table \notin {0, t}
        PROVE  IsFirstOf(reply'[d].names, reply'[d].truncated, Names(s, req[d].database),
                         Limit(req[d]))
    <3>1. Names(s, req[d].database) = {}
      BY <2>1, <2>4
    <3>2. reply'[d].names = <<>> /\ reply'[d].truncated = FALSE
      BY <2>4, EmptyListing
    <3> QED
      BY <2>2, <3>1, <3>2, NothingIsFirstOfNothing
  <2>5. ASSUME NEW ns, NEW ct, NEW cs, reply'[d] = Listing(ns, ct, cs)
        PROVE  reply'[d].names = ns /\ reply'[d].truncated = ct
    BY <2>5, ListingFacts
  <2>6. \/ /\ reply'[d] = Listing(<<>>, FALSE, <<>>)
           /\ \E s \in seen[d] :
                \A t \in Names(s, req[d].database) : req[d].table \notin {0, t}
        \/ \E ns \in Seq(Tables), ct \in BOOLEAN, cs \in Seq(ColumnCount) :
             /\ reply'[d] = Listing(ns, ct, cs)
             /\ \E s \in seen[d] : IsFirstOf(ns, ct, Names(s, req[d].database), Limit(req[d]))
    BY <1>2, <2>1, <2>3, ListTablesReply
  <2>7. CASE \E ns \in Seq(Tables), ct \in BOOLEAN, cs \in Seq(ColumnCount) :
               /\ reply'[d] = Listing(ns, ct, cs)
               /\ \E s \in seen[d] : IsFirstOf(ns, ct, Names(s, req[d].database), Limit(req[d]))
    BY <1>2, <2>5, <2>7
  <2> QED
    BY <1>2, <2>4, <2>6, <2>7
<1>3. \/ Keeps(d) /\ Replied(d, "list_tables")
      \/ /\ req'[d] = req[d] /\ seen'[d] = seen[d] /\ req[d].tool = "list_tables"
         /\ LeanTablesFound(d) \/ DatabaseExists(d) \/ NextTableColumns(d)
  BY Ending
<1> HIDE DEF Snapshot
<1> QED
  BY <1>1, <1>2, <1>3

\* list_databases and list_tables return, in order, the first `limit` names of what the
\* server held at one moment of the call, and say truncated exactly when it held more
\* (internal/tools/list_databases.go, list_tables.go: limit+1 rows and truncate).
THEOREM ListingsHold == Spec => []ListingsAreSnapshots
<1>1. Init => ListingsAreSnapshots
  BY DEF Init, ListingsAreSnapshots, Replied
<1>2. Inv /\ ListingsAreSnapshots /\ [Next]_vars => ListingsAreSnapshots'
  <2> SUFFICES ASSUME Inv, ListingsAreSnapshots, [Next]_vars PROVE ListingsAreSnapshots'
    OBVIOUS
  <2>1. ASSUME NEW d \in Calls, Replied(d, "list_databases")', Ok(d)'
        PROVE  \E s \in seen'[d] :
                 IsFirstOf(reply'[d].names, reply'[d].truncated,
                           {b \in Databases : s.catalog[b] # Absent},
                           resolveLimit(req'[d].limit, DefaultDatabaseLimit))
    BY <2>1, DatabasesStep
  <2>2. ASSUME NEW d \in Calls, Replied(d, "list_tables")', Ok(d)', req'[d].table = 0
        PROVE  \E s \in seen'[d] :
                 IsFirstOf(reply'[d].names, reply'[d].truncated, Names(s, req'[d].database),
                           Limit(req'[d]))
    BY <2>2, TablesStep
  <2> QED
    BY <2>1, <2>2 DEF ListingsAreSnapshots
<1> QED
  BY <1>1, <1>2, InvHolds, PTL DEF Spec

(***************************************************************************)
(* Verdicts are true.                                                      *)
(***************************************************************************)

LEMMA VerdictsStep == Inv /\ VerdictsAreTrue /\ [Next]_vars => VerdictsAreTrue'
<1> SUFFICES ASSUME Inv, VerdictsAreTrue, [Next]_vars, NEW c \in Calls,
                    Replied(c, "list_tables")'
             PROVE  /\ Failed(c, "database not found")' =>
                         \E s \in seen'[c] : s.catalog[req'[c].database] = Absent
                    /\ Failed(c, "table not found")' =>
                         /\ \E s \in seen'[c] : s.catalog[req'[c].database] # Absent
                         /\ \E s \in seen'[c] :
                              {req'[c].table} \intersect Names(s, req'[c].database) = {}
                    /\ (Ok(c)' /\ reply'[c].names = <<>>) =>
                         /\ \E s \in seen'[c] : s.catalog[req'[c].database] # Absent
                         /\ \E s \in seen'[c] :
                              Tables \intersect Names(s, req'[c].database) = {}
  BY DEF VerdictsAreTrue
<1>1. CASE Keeps(c) /\ Replied(c, "list_tables")
  <2>1. /\ req'[c] = req[c] /\ reply'[c] = reply[c] /\ seen[c] \subseteq seen'[c]
        /\ (Ok(c)' <=> Ok(c))
        /\ \A e : Failed(c, e)' <=> Failed(c, e)
    BY <1>1 DEF Keeps, Ok, Failed
  <2>2. /\ Failed(c, "database not found") =>
             \E s \in seen[c] : s.catalog[req[c].database] = Absent
        /\ Failed(c, "table not found") =>
             /\ \E s \in seen[c] : s.catalog[req[c].database] # Absent
             /\ \E s \in seen[c] : {req[c].table} \intersect Names(s, req[c].database) = {}
        /\ (Ok(c) /\ reply[c].names = <<>>) =>
             /\ \E s \in seen[c] : s.catalog[req[c].database] # Absent
             /\ \E s \in seen[c] : Tables \intersect Names(s, req[c].database) = {}
    BY <1>1 DEF VerdictsAreTrue
  <2> QED
    BY <2>1, <2>2
<1>2. CASE ~Ok(c)' /\ ~Failed(c, "database not found")' /\ ~Failed(c, "table not found")'
  BY <1>2
<1>3. CASE /\ req'[c] = req[c] /\ seen'[c] = seen[c] /\ Server \in seen[c]
           /\ req[c].tool = "list_tables"
           /\ LeanTablesFound(c) \/ DatabaseExists(c) \/ NextTableColumns(c)
  <2>1. at[c] \in {"lean", "exists", "columns"} /\ at'[c] = "replied"
    BY <1>3 DEF LeanTablesFound, DatabaseExists, NextTableColumns, Replied
  <2>2. req[c].database \in Databases /\ req[c].table \in Tables \union {0}
    BY <1>3, <2>1, ListTablesArguments
  <2>3. Server.catalog[req[c].database] = Absent <=> req[c].database \notin Existing
    BY <2>2 DEF Server, Existing
  <2>4. ASSUME reply'[c] = Error("cap")
        PROVE  ~Ok(c)' /\ ~Failed(c, "database not found")' /\ ~Failed(c, "table not found")'
    BY <2>4, ErrorFacts DEF Ok, Failed
  <2>5. ASSUME NEW ns, NEW ct, NEW cs, ns # <<>>, reply'[c] = Listing(ns, ct, cs)
        PROVE  /\ reply'[c].names # <<>>
               /\ ~Failed(c, "database not found")' /\ ~Failed(c, "table not found")'
    <3>1. reply'[c].names = ns /\ \A e : reply'[c] # Error(e)
      BY <2>5, ListingFacts
    <3> QED
      BY <2>5, <3>1 DEF Failed
  <2>6. ASSUME NEW s \in seen[c], Verdict(req[c]) # "", reply'[c] = Error(Verdict(req[c])),
               \A t \in Names(s, req[c].database) : req[c].table \notin {0, t}
        PROVE  /\ ~Ok(c)'
               /\ Failed(c, "database not found")' => Server.catalog[req[c].database] = Absent
               /\ Failed(c, "table not found")' =>
                    /\ Server.catalog[req[c].database] # Absent
                    /\ {req[c].table} \intersect Names(s, req[c].database) = {}
    <3>1. ~Ok(c)' /\ \A e : Failed(c, e)' => Verdict(req[c]) = e
      BY <2>6, ErrorFacts DEF Ok, Failed
    <3>2. /\ Verdict(req[c]) = "database not found" => req[c].database \notin Existing
          /\ Verdict(req[c]) = "table not found" => req[c].database \in Existing
      BY DEF Verdict
    <3>3. {req[c].table} \intersect Names(s, req[c].database) = {}
      BY <2>6
    <3> QED
      BY <2>3, <3>1, <3>2, <3>3
  <2>7. ASSUME NEW s \in seen[c], Verdict(req[c]) = "",
               reply'[c] = Listing(<<>>, FALSE, <<>>),
               \A t \in Names(s, req[c].database) : req[c].table \notin {0, t}
        PROVE  /\ ~Failed(c, "database not found")' /\ ~Failed(c, "table not found")'
               /\ Server.catalog[req[c].database] # Absent
               /\ Tables \intersect Names(s, req[c].database) = {}
    <3>1. req[c].database \in Existing /\ req[c].table = 0
      BY <2>7 DEF Verdict
    <3>2. Names(s, req[c].database) = {}
      BY <2>7, <3>1
    <3>3. ~Failed(c, "database not found")' /\ ~Failed(c, "table not found")'
      BY <2>7, EmptyListing DEF Failed
    <3> QED
      BY <2>3, <3>1, <3>2, <3>3
  <2>8. \/ reply'[c] = Error("cap")
        \/ /\ \/ Verdict(req[c]) # "" /\ reply'[c] = Error(Verdict(req[c]))
              \/ Verdict(req[c]) = "" /\ reply'[c] = Listing(<<>>, FALSE, <<>>)
           /\ \E s \in seen[c] :
                \A t \in Names(s, req[c].database) : req[c].table \notin {0, t}
        \/ \E ns, ct, cs : ns # <<>> /\ reply'[c] = Listing(ns, ct, cs)
    <3>1. at'[c] = "replied" /\ (LeanTablesFound(c) \/ DatabaseExists(c) \/ NextTableColumns(c))
      BY <1>3, <2>1
    <3> QED
      BY <3>1, ListTablesReply
  <2>9. CASE reply'[c] = Error("cap")
    BY <2>4, <2>9
  <2>10. CASE \E s \in seen[c] :
                \A t \in Names(s, req[c].database) : req[c].table \notin {0, t}
    <3>1. PICK s \in seen[c] :
            \A t \in Names(s, req[c].database) : req[c].table \notin {0, t}
      BY <2>10
    <3>2. CASE Verdict(req[c]) # "" /\ reply'[c] = Error(Verdict(req[c]))
      <4>1. /\ ~Ok(c)'
            /\ Failed(c, "database not found")' => Server.catalog[req[c].database] = Absent
            /\ Failed(c, "table not found")' =>
                 /\ Server.catalog[req[c].database] # Absent
                 /\ {req[c].table} \intersect Names(s, req[c].database) = {}
        BY <3>1, <3>2, <2>6
      <4> QED
        BY <1>3, <4>1
    <3>3. CASE Verdict(req[c]) = "" /\ reply'[c] = Listing(<<>>, FALSE, <<>>)
      <4>1. /\ ~Failed(c, "database not found")' /\ ~Failed(c, "table not found")'
            /\ Server.catalog[req[c].database] # Absent
            /\ Tables \intersect Names(s, req[c].database) = {}
        BY <3>1, <3>3, <2>7
      <4> QED
        BY <1>3, <4>1
    <3>4. CASE \E ns, ct, cs : ns # <<>> /\ reply'[c] = Listing(ns, ct, cs)
      BY <2>5, <3>4
    <3> QED
      BY <2>8, <2>9, <3>2, <3>3, <3>4
  <2>11. CASE \E ns, ct, cs : ns # <<>> /\ reply'[c] = Listing(ns, ct, cs)
    BY <2>5, <2>11
  <2> QED
    BY <2>8, <2>9, <2>10, <2>11
<1> QED
  BY <1>1, <1>2, <1>3, Ending

\* What list_tables says of an empty listing is put together from two queries, and each
\* half is true of a moment of the call (tableVerdict in internal/tools/list_tables.go).
THEOREM VerdictsHold == Spec => []VerdictsAreTrue
<1>1. Init => VerdictsAreTrue
  BY DEF Init, VerdictsAreTrue, Replied
<1> QED
  BY <1>1, VerdictsStep, InvHolds, PTL DEF Spec

(***************************************************************************)
(* Columns are their tables'.                                              *)
(***************************************************************************)

LEMMA ColumnsStep == Inv /\ ColumnsAreTheirTables /\ [Next]_vars => ColumnsAreTheirTables'
<1> SUFFICES ASSUME Inv, ColumnsAreTheirTables, [Next]_vars, NEW c \in Calls,
                    Replied(c, "list_tables")', Ok(c)', WantsColumns(req'[c])
             PROVE  /\ Len(reply'[c].columns) = Len(reply'[c].names)
                    /\ \A i \in DOMAIN reply'[c].names :
                         HadColumns(c, reply[c].names[i], reply[c].columns[i])'
  BY DEF ColumnsAreTheirTables, WantsColumns
<1>1. ASSUME NEW t, NEW k, HadColumns(c, t, k), req'[c] = req[c], seen[c] \subseteq seen'[c]
      PROVE  HadColumns(c, t, k)'
  BY <1>1 DEF HadColumns
<1>2. CASE Keeps(c) /\ Replied(c, "list_tables")
  <2>1. /\ Ok(c) /\ WantsColumns(req[c]) /\ req'[c] = req[c] /\ reply'[c] = reply[c]
        /\ seen[c] \subseteq seen'[c]
    BY <1>2 DEF Keeps, Ok
  <2>2. /\ Len(reply[c].columns) = Len(reply[c].names)
        /\ \A i \in DOMAIN reply[c].names :
             HadColumns(c, reply[c].names[i], reply[c].columns[i])
    BY <1>2, <2>1 DEF ColumnsAreTheirTables
  <2> QED
    BY <2>1, <2>2 DEF HadColumns
<1>3. CASE /\ req'[c] = req[c] /\ seen'[c] = seen[c] /\ req[c].tool = "list_tables"
           /\ LeanTablesFound(c) \/ DatabaseExists(c) \/ NextTableColumns(c)
  <2>1. at'[c] = "replied" /\ WantsColumns(req[c])
    BY <1>3 DEF Replied
  <2>2. ~ \E e : reply'[c] = Error(e)
    BY ErrorFacts DEF Ok
  <2>3. CASE Verdict(req[c]) = "" /\ reply'[c] = Listing(<<>>, FALSE, <<>>)
    <3>1. reply'[c].names = <<>> /\ reply'[c].columns = <<>>
      BY <2>3, EmptyListing
    <3> QED
      BY <3>1
  <2>4. ASSUME NEW ns \in Seq(Tables), NEW ct \in BOOLEAN, NEW cs,
               reply'[c] = Listing(ns, ct, cs), Len(cs) = Len(ns),
               \A i \in 1 .. Len(ns) : HadColumns(c, ns[i], cs[i])
        PROVE  /\ Len(reply'[c].columns) = Len(reply'[c].names)
               /\ \A i \in DOMAIN reply'[c].names :
                    HadColumns(c, reply[c].names[i], reply[c].columns[i])'
    <3>1. reply'[c].names = ns /\ reply'[c].columns = cs /\ DOMAIN ns = 1 .. Len(ns)
      BY <2>4, ListingFacts
    <3> QED
      BY <1>3, <2>4, <3>1 DEF HadColumns
  <2>5. \/ Verdict(req[c]) = "" /\ reply'[c] = Listing(<<>>, FALSE, <<>>)
        \/ \E ns \in Seq(Tables), ct \in BOOLEAN, cs \in Seq(ColumnCount) :
             /\ reply'[c] = Listing(ns, ct, cs) /\ Len(cs) = Len(ns)
             /\ \A i \in 1 .. Len(ns) : HadColumns(c, ns[i], cs[i])
    BY <1>3, <2>1, <2>2, ListTablesReply
  <2> QED
    BY <2>3, <2>4, <2>5
<1> QED
  BY <1>2, <1>3, Ending

\* Each table is listed with columns it had at some moment of the call, or with none
\* because it was gone; columns of one table never appear under another (tableColumns).
THEOREM ColumnsHold == Spec => []ColumnsAreTheirTables
<1>1. Init => ColumnsAreTheirTables
  BY DEF Init, ColumnsAreTheirTables, Replied
<1> QED
  BY <1>1, ColumnsStep, InvHolds, PTL DEF Spec
=============================================================================

----------------------------- MODULE MCToolCalls -----------------------------
(***************************************************************************)
(* Instances of ToolCalls for TLC.                                         *)
(***************************************************************************)
EXTENDS ToolCalls, TLC

Tbl(d, t, cols, l) ==
  [tool |-> "list_tables", database |-> d, table |-> t, columns |-> cols, limit |-> l]
Dbs(l) == [tool |-> "list_databases", limit |-> l]
Sql(tool, s, l) == [tool |-> tool, sql |-> s, limit |-> l]

\* Listings: browsing with and without a limit, with columns, one table, an
\* unlimited request (the largest int) and no database at all.
MCListings ==
  {Dbs(1), Dbs(0), Dbs(MaxInt), Tbl(1, 0, FALSE, 1), Tbl(1, 0, FALSE, MaxInt),
   Tbl(1, 0, TRUE, 0), Tbl(1, 0, TRUE, 2), Tbl(1, 2, FALSE, 0), Tbl(0, 0, FALSE, 0)}

\* Queries around the limit, without a LIMIT and beyond it; statements; what the gates
\* refuse; a ping and a listing of two queries and more to share the pool with.
MCStatements ==
  {Sql("run_query", "select", l) : l \in {0, 1, 9}}
    \union {Sql("run_query", "show", 1), Sql("run_query", "multiple", 0)}
    \union {Sql("run_statement", "insert", 0)}
    \union {[tool |-> "ping"], Tbl(1, 0, TRUE, 2)}
=============================================================================

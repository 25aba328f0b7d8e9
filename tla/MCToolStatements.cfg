\* Two calls, of one query, of several, or a statement, share one connection, with failures
\* and cancelled calls.
SPECIFICATION FairSpec
CONSTANTS
  c1 = c1  c2 = c2
  Calls = {c1, c2}
  Requests <- MCStatements
  Conns = 1
  Databases = {1}
  Tables = {1}
  Widths = {1}
  Absent = Absent
  NoReply = NoReply
  DefaultRowLimit = 2
  DefaultDatabaseLimit = 1
  DefaultTableLimit = 2
  DefaultFoldedTableLimit = 1
  MaxColumnsPerTable = 1
  Cap = 3
  MaxInt = 9
  InsertRows = 2
  Reporting = {TRUE, FALSE}
  Changes = {}
  MaxChanges = 0
  MaxData = 2
  Faults = {"busy", "error", "cancel"}
\* Every call has been answered and nobody adds rows any more.
CHECK_DEADLOCK FALSE
INVARIANTS
  RowsAreHonest
  LimitKeepsTheCapAway
  WrittenIsCounted
PROPERTIES
  CallsAreAnswered

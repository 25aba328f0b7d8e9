\* One listing at a time while other clients create and drop databases and tables.
SPECIFICATION Spec
CONSTANTS
  c1 = c1
  Calls = {c1}
  Requests <- MCListings
  Conns = 1
  Databases = {1, 2}
  Tables = {1, 2}
  Widths = {1, 2}
  Absent = Absent
  NoReply = NoReply
  DefaultRowLimit = 2
  DefaultDatabaseLimit = 1
  DefaultTableLimit = 2
  DefaultFoldedTableLimit = 1
  MaxColumnsPerTable = 1
  Cap = 4
  MaxInt = 9
  InsertRows = 2
  Reporting = {TRUE}
  Changes = {"create_database", "attach_database", "drop_database", "create_table", "drop_table"}
  MaxChanges = 3
  MaxData = 0
  Faults = {"busy", "error"}
\* Every call has been answered and nobody changes anything any more.
CHECK_DEADLOCK FALSE
INVARIANTS
  Inv
  ListingsAreSnapshots
  VerdictsAreTrue
  ColumnsAreTheirTables

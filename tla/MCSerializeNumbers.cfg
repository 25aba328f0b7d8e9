\* Columns of Int64.
SPECIFICATION Spec
CONSTANTS
  Leaves = {"UInt64", "Int64"}
  Siblings = {}
  Keys = {"String"}
  MaxDepth = 2
\* Nothing is declared around the deepest types.
CHECK_DEADLOCK FALSE
INVARIANTS
  LargeIntegersAreStrings

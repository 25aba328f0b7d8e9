\* Every type of up to three constructors above a leaf.
SPECIFICATION Spec
CONSTANTS
  Leaves <- MCLeaves
  Siblings = {"Date", "Enum8"}
  Keys = {"String", "Date", "UInt64"}
  MaxDepth = 3
\* Nothing is declared around the deepest types.
CHECK_DEADLOCK FALSE
INVARIANTS
  RenderedByItsType

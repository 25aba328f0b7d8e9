\* Every text of up to six symbols: literals, escapes, comments and separators; words
\* behind comments and parentheses; what a query ends in; FORMAT and INTO OUTFILE.
SPECIFICATION Spec
CONSTANTS
  Alphabets <- MCEvery
  MaxLen = 6
\* Nothing can be typed after the longest text.
CHECK_DEADLOCK FALSE
INVARIANTS
  NoStatementIsDropped
  WrapKeepsTheQuery
  RoutedByTheFirstWord
  BlankMeansNothingToRun
  RefusedOnlyForAClause

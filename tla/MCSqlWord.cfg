\* SELECT with a star right after it.
SPECIFICATION Spec
CONSTANTS
  Alphabets <- MCRouting
  MaxLen = 3
\* Nothing can be typed after the longest text.
CHECK_DEADLOCK FALSE
INVARIANTS
  QueriesAreRecognised

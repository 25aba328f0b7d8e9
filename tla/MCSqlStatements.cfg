\* A separator after backticks with a backslash between them.
SPECIFICATION Spec
CONSTANTS
  Alphabets <- MCBackticks
  MaxLen = 6
\* Nothing can be typed after the longest text.
CHECK_DEADLOCK FALSE
INVARIANTS
  RealSeparatorsArePlaced

----------------------------- MODULE MCSqlGate -----------------------------
(***************************************************************************)
(* Instances of SqlGate for TLC: every text over an alphabet, up to a      *)
(* length.                                                                 *)
(***************************************************************************)
EXTENDS SqlGate

\* Literals, comments and separators.
SeparatorSymbols == {"x", "'", "bq", "\\", "-", "/", "*", "\n", ";"}

\* Queries and writes behind comments and parentheses.
RoutingSymbols == {"SELECT", "INSERT", "-", "/", "*", "\n", " ", "("}

\* What a query may end in.
EndingSymbols == {"SELECT", "'", "\\", "-", "\n", " ", ";"}

\* The word FORMAT as a column, an alias, a part of a literal, a clause; INTO OUTFILE.
OutputSymbols == {"x", "FORMAT", "INTO OUTFILE", " ", "\n", "'", "-", ";", "*"}

\* The marks only the server knows, among those the scanner knows.
ServerSymbols == {"x", "'", "bq", "\\", "\n", ";", "#!", "$$"}

\* Backticks and backslashes before a separator.
BacktickSymbols == {"x", "bq", "\\", ";"}

MCEvery == {SeparatorSymbols, RoutingSymbols, EndingSymbols, OutputSymbols, ServerSymbols}
MCRouting   == {RoutingSymbols}
MCBackticks == {BacktickSymbols}
=============================================================================

-------------------------------- MODULE Text --------------------------------
(***************************************************************************)
(* Texts as sequences of symbols (words, punctuation, " "), and what Go's  *)
(* strings package does to them.                                           *)
(***************************************************************************)
EXTENDS Integers, Sequences, SequencesExt, FiniteSetsExt

Space == " "

\* strings.IndexByte; 0 when there is none.
IndexOf(s, c) == LET at == {i \in DOMAIN s : s[i] = c} IN IF at = {} THEN 0 ELSE Min(at)

\* strings.TrimSpace
TrimSpace(s) ==
  LET solid == {i \in DOMAIN s : s[i] # Space}
  IN IF solid = {} THEN <<>> ELSE SubSeq(s, Min(solid), Max(solid))

\* strings.TrimRight(s, c)
TrimRight(s, c) ==
  LET kept == {i \in DOMAIN s : s[i] # c} IN IF kept = {} THEN <<>> ELSE SubSeq(s, 1, Max(kept))

\* strings.Split
Split(s, c) ==
  LET cuts == {0, Len(s) + 1} \cup {i \in DOMAIN s : s[i] = c}
  IN {SubSeq(s, cut[1] + 1, cut[2] - 1) :
        cut \in {p \in cuts \X cuts : p[1] < p[2] /\ \A m \in cuts : m <= p[1] \/ m >= p[2]}}

\* strings.Fields
Fields(s) == {w \in Split(s, Space) : w # <<>>}
=============================================================================

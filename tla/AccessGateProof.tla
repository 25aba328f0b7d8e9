-------------------------- MODULE AccessGateProof ---------------------------
(***************************************************************************)
(* What a process that starts has, who gets past its gate and whose        *)
(* sessions they are, for any environments, texts, tokens and keys.        *)
(***************************************************************************)
EXTENDS AccessGate, WellFoundedInduction, SequenceTheorems, TLAPS

(***************************************************************************)
(* Texts.                                                                  *)
(***************************************************************************)

\* A set of naturals with something in it has a least element.
LEMMA LeastOfNaturals ==
  ASSUME NEW S \in SUBSET Nat, S # {}
  PROVE  \E x \in S : \A y \in S : x <= y
<1> DEFINE R == {ss \in Nat \X Nat : ss[1] < ss[2]}
<1>1. PICK x \in S : \A y \in S : ~(<<y, x>> \in R)
  <2>1. IsWellFoundedOn(R, Nat)
    BY NatLessThanWellFounded DEF OpToRel
  <2> HIDE DEF R
  <2> QED
    BY <2>1, WFMin
<1>2. ASSUME NEW y \in S PROVE x <= y
  <2>1. x \in Nat /\ y \in Nat
    OBVIOUS
  <2>2. y < x => <<y, x>> \in R
    BY <2>1
  <2> HIDE DEF R
  <2>3. ~(y < x)
    BY <1>1, <2>2
  <2> QED
    BY <2>1, <2>3
<1> QED
  BY <1>2

\* The first and the last of some positions.
LEMMA Extremes ==
  ASSUME NEW n \in Nat, NEW S \in SUBSET (1 .. n), S # {}
  PROVE  /\ Min(S) \in S /\ Max(S) \in S
         /\ \A x \in S : Min(S) <= x /\ x <= Max(S)
<1>1. \E x \in S : \A y \in S : x <= y
  <2>1. S \in SUBSET Nat
    OBVIOUS
  <2> QED
    BY <2>1, LeastOfNaturals
<1>2. \E x \in S : \A y \in S : x >= y
  <2> DEFINE T == {n - x : x \in S}
  <2>1. T \in SUBSET Nat /\ T # {}
    <3>1. \A x \in S : x \in 1 .. n
      OBVIOUS
    <3>2. \A x \in S : n - x \in Nat
      BY <3>1
    <3> QED
      BY <3>2
  <2>2. PICK m \in T : \A k \in T : m <= k
    BY <2>1, LeastOfNaturals
  <2>3. PICK x \in S : m = n - x
    BY <2>2
  <2>4. \A y \in S : n - x <= n - y
    BY <2>2, <2>3
  <2>5. \A y \in S : x >= y
    BY <2>4
  <2> QED
    BY <2>5
<1>3. Min(S) \in S /\ \A x \in S : Min(S) <= x
  BY <1>1 DEF Min
<1>4. Max(S) \in S /\ \A x \in S : Max(S) >= x
  BY <1>2 DEF Max
<1> QED
  BY <1>3, <1>4

\* What is left of a text without the blanks at its ends.
LEMMA TrimFacts ==
  ASSUME NEW R, NEW s \in Seq(R)
  PROVE  /\ TrimSpace(s) \in Seq(R)
         /\ TrimSpace(s) = <<>> <=> (\A i \in 1 .. Len(s) : s[i] = Space)
         /\ TrimSpace(s) # <<>> =>
              /\ TrimSpace(s)[1] # Space
              /\ TrimSpace(s)[Len(TrimSpace(s))] # Space
<1> DEFINE solid == {i \in DOMAIN s : s[i] # Space}
<1>1. Len(s) \in Nat /\ DOMAIN s = 1 .. Len(s) /\ solid \in SUBSET (1 .. Len(s))
  OBVIOUS
<1>2. CASE solid = {}
  <2>1. TrimSpace(s) = <<>>
    BY <1>2 DEF TrimSpace
  <2> QED
    BY <1>1, <1>2, <2>1
<1>3. CASE solid # {}
  <2> DEFINE a == Min(solid)
             b == Max(solid)
  <2>1. a \in solid /\ b \in solid /\ a <= b
    <3> HIDE DEF solid
    <3> QED
      BY <1>1, <1>3, Extremes
  <2>2. TrimSpace(s) = SubSeq(s, a, b)
    BY <1>3 DEF TrimSpace
  <2>3. /\ a \in 1 .. Len(s) /\ b \in 1 .. Len(s) /\ s[a] # Space /\ s[b] # Space
    BY <1>1, <2>1
  <2> HIDE DEF a, b, solid
  <2>4. /\ SubSeq(s, a, b) \in Seq(R) /\ Len(SubSeq(s, a, b)) = b - a + 1
        /\ \A i \in 1 .. b - a + 1 : SubSeq(s, a, b)[i] = s[a + i - 1]
    BY <1>1, <2>1, <2>3, SubSeqProperties
  <2>5. 1 \in 1 .. b - a + 1 /\ b - a + 1 \in 1 .. b - a + 1
    BY <2>1, <2>3
  <2>6. SubSeq(s, a, b)[1] = s[a] /\ SubSeq(s, a, b)[b - a + 1] = s[b]
    <3>1. a + 1 - 1 = a /\ a + (b - a + 1) - 1 = b
      BY <2>3
    <3> QED
      BY <2>4, <2>5, <3>1
  <2>7. SubSeq(s, a, b) # <<>>
    <3>1. b - a + 1 # 0
      BY <2>1, <2>3
    <3> QED
      BY <2>4, <3>1
  <2> QED
    BY <2>2, <2>3, <2>4, <2>6, <2>7
<1> QED
  BY <1>2, <1>3

\* A text that begins and ends with something solid stays as it is.
LEMMA TrimKeeps ==
  ASSUME NEW R, NEW s \in Seq(R), s # <<>>, s[1] # Space, s[Len(s)] # Space
  PROVE  TrimSpace(s) = s
<1> DEFINE solid == {i \in DOMAIN s : s[i] # Space}
           a == Min(solid)
           b == Max(solid)
<1>1. /\ Len(s) \in Nat /\ DOMAIN s = 1 .. Len(s) /\ solid \in SUBSET (1 .. Len(s))
      /\ 1 \in solid /\ Len(s) \in solid
  OBVIOUS
<1>2. /\ a \in solid /\ b \in solid /\ \A x \in solid : a <= x /\ x <= b
  <2>1. solid # {}
    BY <1>1
  <2> HIDE DEF solid
  <2> QED
    BY <1>1, <2>1, Extremes
<1>3. TrimSpace(s) = SubSeq(s, a, b)
  BY <1>1 DEF TrimSpace
<1> HIDE DEF a, b, solid
<1>4. a = 1 /\ b = Len(s)
  <2>1. a \in 1 .. Len(s) /\ b \in 1 .. Len(s)
    BY <1>1, <1>2
  <2>2. a <= 1 /\ Len(s) <= b
    BY <1>1, <1>2
  <2>3. a \in Int /\ b \in Int /\ Len(s) \in Int /\ 1 <= a /\ b <= Len(s)
    BY <1>1, <2>1
  <2> QED
    BY <2>2, <2>3
<1> QED
  BY <1>3, <1>4, SubSeqFull

LEMMA TrimTwice ==
  ASSUME NEW R, NEW s \in Seq(R)
  PROVE  TrimSpace(TrimSpace(s)) = TrimSpace(s)
<1>1. CASE TrimSpace(s) = <<>>
  <2>1. {i \in DOMAIN <<>> : <<>>[i] # Space} = {}
    OBVIOUS
  <2>2. TrimSpace(<<>>) = <<>>
    BY <2>1 DEF TrimSpace
  <2> QED
    BY <1>1, <2>2
<1>2. CASE TrimSpace(s) # <<>>
  <2> DEFINE t == TrimSpace(s)
  <2>1. t \in Seq(R) /\ t # <<>> /\ t[1] # Space /\ t[Len(t)] # Space
    BY <1>2, TrimFacts
  <2> HIDE DEF t
  <2>2. TrimSpace(t) = t
    BY <2>1, TrimKeeps
  <2> QED
    BY <2>2 DEF t
<1> QED
  BY <1>1, <1>2

\* The words that Fields finds are those that stand in the text.
LEMMA FieldsAreWords ==
  ASSUME NEW R, NEW s \in Seq(R), NEW w
  PROVE  w \in Fields(s) <=> StandsIn(w, s)
<1> DEFINE n == Len(s)
           cuts == {0, n + 1} \cup {i \in DOMAIN s : s[i] = Space}
<1>0. n \in Nat /\ DOMAIN s = 1 .. n
  OBVIOUS
<1>1. n \in Int /\ \A m \in cuts : m \in Int /\ 0 <= m /\ m <= n + 1
  <2> HIDE DEF n
  <2> QED
    BY <1>0
<1>5. /\ 0 \in cuts /\ n + 1 \in cuts
      /\ \A m \in 1 .. n : (m \in cuts => s[m] = Space) /\ (s[m] = Space => m \in cuts)
  <2> HIDE DEF n
  <2> QED
    BY <1>0
<1>2. w \in Fields(s) <=>
        /\ w # <<>>
        /\ \E p \in cuts, q \in cuts :
             /\ p < q /\ \A m \in cuts : m <= p \/ m >= q
             /\ w = SubSeq(s, p + 1, q - 1)
  <2> DEFINE between(p, q) == p < q /\ \A m \in cuts : m <= p \/ m >= q
             pairs == {p \in cuts \X cuts : between(p[1], p[2])}
  <2>1. Split(s, Space) = {SubSeq(s, cut[1] + 1, cut[2] - 1) : cut \in pairs}
    BY DEF Split
  <2>2. ASSUME NEW cut \in pairs
        PROVE  cut[1] \in cuts /\ cut[2] \in cuts /\ between(cut[1], cut[2])
    OBVIOUS
  <2>3. ASSUME NEW p \in cuts, NEW q \in cuts, between(p, q)
        PROVE  <<p, q>> \in pairs /\ <<p, q>>[1] = p /\ <<p, q>>[2] = q
    BY <2>3
  <2> HIDE DEF pairs, between
  <2>4. w \in Fields(s) =>
          w # <<>> /\ \E p \in cuts, q \in cuts : between(p, q) /\ w = SubSeq(s, p + 1, q - 1)
    <3> HIDE DEF cuts
    <3> QED
      BY <2>1, <2>2 DEF Fields
  <2>5. ASSUME w # <<>>, NEW p \in cuts, NEW q \in cuts, between(p, q), w = SubSeq(s, p + 1, q - 1)
        PROVE  w \in Fields(s)
    <3> HIDE DEF cuts
    <3>1. w = SubSeq(s, <<p, q>>[1] + 1, <<p, q>>[2] - 1) /\ <<p, q>> \in pairs
      BY <2>3, <2>5
    <3> QED
      BY <2>1, <2>5, <3>1 DEF Fields
  <2> HIDE DEF cuts, n
  <2> QED
    BY <2>4, <2>5 DEF between
<1> HIDE DEF n, cuts
<1>3. ASSUME NEW p \in cuts, NEW q \in cuts, p < q, \A m \in cuts : m <= p \/ m >= q,
             w = SubSeq(s, p + 1, q - 1), w # <<>>
      PROVE  StandsIn(w, s)
  <2>1. p \in Int /\ q \in Int /\ 0 <= p /\ p <= n + 1 /\ 0 <= q /\ q <= n + 1
    BY <1>1
  <2>2. p + 1 <= q - 1
    <3>1. p + 1 \in Int /\ q - 1 \in Int
      BY <1>1, <2>1
    <3>2. ~(q - 1 < p + 1)
      BY <1>3, <3>1, SubSeqEmpty
    <3> QED
      BY <3>1, <3>2
  <2>3. p + 1 \in 1 .. n /\ q - 1 \in 1 .. n
    BY <1>1, <2>1, <2>2
  <2>4. ASSUME NEW k \in p + 1 .. q - 1 PROVE s[k] # Space
    <3>1. k \in 1 .. n /\ ~(k <= p) /\ ~(k >= q)
      BY <1>1, <2>1, <2>3
    <3>2. k \notin cuts
      BY <1>3, <3>1
    <3> QED
      BY <1>5, <3>1, <3>2
  <2>5. p + 1 > 1 => s[p + 1 - 1] = Space
    <3>1. p + 1 > 1 => p \in 1 .. n /\ p + 1 - 1 = p
      BY <1>1, <1>3, <2>1
    <3> QED
      BY <1>5, <3>1
  <2>6. q - 1 < n => s[q - 1 + 1] = Space
    <3>1. q - 1 < n => q \in 1 .. n /\ q - 1 + 1 = q
      BY <1>1, <1>3, <2>1
    <3> QED
      BY <1>5, <3>1
  <2> QED
    <3> DEFINE i == p + 1
               j == q - 1
    <3>1. i \in 1 .. n /\ j \in 1 .. n /\ i <= j
      BY <2>2, <2>3
    <3>2. w = SubSeq(s, i, j)
      BY <1>3
    <3>3. \A k \in i .. j : s[k] # Space
      BY <2>4
    <3>4. i > 1 => s[i - 1] = Space
      BY <2>1, <2>5
    <3>5. j < n => s[j + 1] = Space
      BY <1>1, <2>1, <2>6
    <3> HIDE DEF i, j
    <3> QED
      BY <1>0, <3>1, <3>2, <3>3, <3>4, <3>5 DEF StandsIn, n
<1>4. ASSUME NEW i \in 1 .. n, NEW j \in 1 .. n, i <= j, w = SubSeq(s, i, j),
             \A k \in i .. j : s[k] # Space, i > 1 => s[i - 1] = Space,
             j < n => s[j + 1] = Space
      PROVE  w \in Fields(s)
  <2>1. i - 1 \in cuts
    <3>1. i = 1 \/ (i - 1 \in 1 .. n /\ i > 1)
      BY <1>1
    <3> QED
      BY <1>5, <1>4, <3>1
  <2>2. j + 1 \in cuts
    <3>1. j = n \/ (j + 1 \in 1 .. n /\ j < n)
      BY <1>1
    <3> QED
      BY <1>5, <1>4, <3>1
  <2>3. i - 1 < j + 1 /\ i - 1 + 1 = i /\ j + 1 - 1 = j
    BY <1>1, <1>4
  <2>4. ASSUME NEW m \in cuts PROVE m <= i - 1 \/ m >= j + 1
    <3>1. m \in Int
      BY <1>1
    <3>2. m \notin i .. j
      <4>1. \A k \in i .. j : k \in 1 .. n
        BY <1>1
      <4> QED
        BY <1>4, <1>5, <4>1
    <3> QED
      BY <1>1, <3>1, <3>2
  <2>5. w # <<>>
    <3>1. Len(SubSeq(s, i, j)) = j - i + 1
      BY <1>1, <1>4, SubSeqProperties
    <3>2. j - i + 1 # 0
      BY <1>1, <1>4
    <3> QED
      BY <1>4, <3>1, <3>2
  <2> DEFINE p == i - 1
             q == j + 1
  <2>6. /\ p \in cuts /\ q \in cuts /\ p < q /\ \A m \in cuts : m <= p \/ m >= q
        /\ w = SubSeq(s, p + 1, q - 1)
    BY <1>4, <2>1, <2>2, <2>3, <2>4
  <2> HIDE DEF p, q
  <2> QED
    BY <1>2, <2>5, <2>6
<1> QED
  BY <1>0, <1>2, <1>3, <1>4 DEF StandsIn, n

(***************************************************************************)
(* Settings.                                                               *)
(***************************************************************************)

Endpoints == {"issuer", "resourceURI", "authURL", "tokenURL", "clientID", "clientSecret"}
Policy    == {"identityClaim", "requiredClaim", "requiredValue"}

\* Which settings the parts hold.
LEMMA DerivedFields == ASSUME NEW e PROVE DOMAIN deriveProvider(e) = Endpoints
<1>1. CASE Provider(e) = <<"entra">>
  BY <1>1 DEF deriveProvider, deriveEntra, Endpoints
<1>2. CASE Provider(e) = <<"google">>
  BY <1>2 DEF deriveProvider, deriveGoogle, Endpoints
<1>3. CASE Provider(e) # <<"entra">> /\ Provider(e) # <<"google">>
  BY <1>3 DEF deriveProvider, Explicit, Endpoints
<1> QED
  BY <1>1, <1>2, <1>3

\* The settings of a gate.
LEMMA OIDCFacts ==
  ASSUME NEW e
  PROVE  /\ DOMAIN OIDC(e) = {"issuer", "resourceURI"} \cup Policy
         /\ OIDC(e).issuer = deriveProvider(e).issuer
         /\ OIDC(e).resourceURI = deriveProvider(e).resourceURI
         /\ \A x \in Policy : OIDC(e)[x] = loadAccessPolicy(e)[x]
<1> DEFINE d == [issuer |-> deriveProvider(e).issuer, resourceURI |-> deriveProvider(e).resourceURI]
<1>1. OIDC(e) = Joined(d, loadAccessPolicy(e))
  BY DEF OIDC
<1>2. DOMAIN d = {"issuer", "resourceURI"} /\ DOMAIN loadAccessPolicy(e) = Policy
  BY DEF loadAccessPolicy, Policy
<1>3. \A x \in Policy : x \notin {"issuer", "resourceURI"}
  BY DEF Policy
<1>4. d["issuer"] = deriveProvider(e).issuer /\ d["resourceURI"] = deriveProvider(e).resourceURI
  OBVIOUS
<1> HIDE DEF d
<1>5. /\ DOMAIN OIDC(e) = {"issuer", "resourceURI"} \cup Policy
      /\ \A x \in {"issuer", "resourceURI"} : OIDC(e)[x] = d[x]
      /\ \A x \in Policy \ {"issuer", "resourceURI"} : OIDC(e)[x] = loadAccessPolicy(e)[x]
  BY <1>1, <1>2 DEF Joined
<1> QED
  BY <1>3, <1>4, <1>5

Modes == {<<"off">>, <<"bearer">>, <<"broker">>}
Basic == {"transport", "HTTPAddr", "authMode"}
Login == {"authURL", "tokenURL", "clientID", "clientSecret"}
Public == {"publicURL", "AllowedRedirectHosts", "scopes"}

LEMMA ServerFacts ==
  ASSUME NEW e, AuthMode(e) \in Modes
  PROVE  /\ "authMode" \in DOMAIN loadServer(e) /\ loadServer(e).authMode = AuthMode(e)
         /\ DOMAIN loadServer(e) \subseteq
              Basic \cup Endpoints \cup Policy \cup Public
         /\ AuthMode(e) # <<"off">> =>
              /\ {"issuer", "resourceURI"} \cup Policy \subseteq DOMAIN loadServer(e)
              /\ loadServer(e).issuer = deriveProvider(e).issuer
              /\ loadServer(e).resourceURI = deriveProvider(e).resourceURI
              /\ \A x \in Policy : loadServer(e)[x] = loadAccessPolicy(e)[x]
         /\ AuthMode(e) = <<"broker">> =>
              /\ Login \cup Public \subseteq DOMAIN loadServer(e)
              /\ \A x \in Login : loadServer(e)[x] = deriveProvider(e)[x]
              /\ \A x \in Public : loadServer(e)[x] = loadBroker(e)[x]
<1> DEFINE own == [transport |-> Transport(e),
                   HTTPAddr  |-> envString(e, "MCP_HTTP_ADDR", <<":8080">>),
                   authMode  |-> AuthMode(e)]
           login == Joined(deriveProvider(e), loadBroker(e))
<1>1. loadServer(e) = Joined(own, ServerParts(e))
  BY DEF loadServer
<1>2. DOMAIN own = Basic /\ own["authMode"] = AuthMode(e) /\ "authMode" \in Basic
  BY DEF Basic
<1>3. DOMAIN loadBroker(e) = Public
  BY DEF loadBroker, Public
<1>4. /\ \A x \in Endpoints \cup Policy \cup Public : x \notin Basic
      /\ \A x \in Login : x \in Endpoints /\ x \notin {"issuer", "resourceURI"} \cup Policy
      /\ \A x \in Public : x \notin Endpoints \cup Policy
      /\ "issuer" \in Endpoints /\ "resourceURI" \in Endpoints
  BY DEF Endpoints, Policy, Basic, Login, Public
<1>5. /\ DOMAIN login = Endpoints \cup Public
      /\ \A x \in Endpoints : login[x] = deriveProvider(e)[x]
      /\ \A x \in Public : login[x] = loadBroker(e)[x]
  <2>1. /\ DOMAIN login = Endpoints \cup Public
        /\ \A x \in Endpoints : login[x] = deriveProvider(e)[x]
        /\ \A x \in Public \ Endpoints : login[x] = loadBroker(e)[x]
    BY <1>3, DerivedFields DEF Joined
  <2> HIDE DEF login
  <2> QED
    BY <1>4, <2>1
<1> HIDE DEF own, login
<1>6. CASE AuthMode(e) = <<"off">>
  <2>1. ServerParts(e) = <<>> /\ DOMAIN <<>> = {}
    BY <1>6 DEF ServerParts
  <2>2. AuthMode(e) # <<"broker">>
    BY <1>6
  <2>3. DOMAIN loadServer(e) = Basic \cup {} /\ \A x \in Basic : loadServer(e)[x] = own[x]
    BY <1>1, <1>2, <2>1 DEF Joined
  <2> QED
    BY <1>2, <1>6, <2>2, <2>3
<1>7. CASE AuthMode(e) = <<"bearer">>
  <2>0. AuthMode(e) # <<"off">> /\ AuthMode(e) # <<"broker">>
    BY <1>7
  <2>1. ServerParts(e) = OIDC(e)
    BY <2>0 DEF ServerParts
  <2> DEFINE gate == {"issuer", "resourceURI"} \cup Policy
  <2>2. DOMAIN OIDC(e) = gate
    BY OIDCFacts
  <2>3. \A x \in gate : x \notin Basic
    BY <1>4
  <2>4. "issuer" \in gate /\ "resourceURI" \in gate /\ Policy \subseteq gate
    OBVIOUS
  <2>5. gate \subseteq Endpoints \cup Policy
    BY <1>4
  <2> HIDE DEF gate
  <2>6. /\ DOMAIN loadServer(e) = Basic \cup gate
        /\ \A x \in Basic : loadServer(e)[x] = own[x]
        /\ \A x \in gate \ Basic : loadServer(e)[x] = OIDC(e)[x]
    BY <1>1, <1>2, <2>1, <2>2 DEF Joined
  <2>7. loadServer(e)["authMode"] = AuthMode(e) /\ "authMode" \in DOMAIN loadServer(e)
    BY <1>2, <2>6
  <2>8. \A x \in gate : loadServer(e)[x] = OIDC(e)[x]
    BY <2>3, <2>6
  <2>9. DOMAIN loadServer(e) \subseteq Basic \cup Endpoints \cup Policy \cup Public
    BY <2>5, <2>6
  <2> QED
    BY <2>0, <2>4, <2>6, <2>7, <2>8, <2>9, OIDCFacts DEF gate
<1>8. CASE AuthMode(e) = <<"broker">>
  <2>0. AuthMode(e) # <<"off">>
    BY <1>8
  <2>1. ServerParts(e) = Joined(OIDC(e), login)
    BY <2>0, <1>8 DEF ServerParts, login
  <2>2. /\ DOMAIN ServerParts(e) = {"issuer", "resourceURI"} \cup Policy \cup Endpoints \cup Public
        /\ \A x \in {"issuer", "resourceURI"} \cup Policy : ServerParts(e)[x] = OIDC(e)[x]
        /\ \A x \in Login \cup Public : ServerParts(e)[x] = login[x]
    <3>1. \A x \in Public : x \notin {"issuer", "resourceURI"}
      BY <1>4
    <3> DEFINE gate == {"issuer", "resourceURI"} \cup Policy
               rest == Endpoints \cup Public
    <3>2. DOMAIN OIDC(e) = gate /\ DOMAIN login = rest
      BY <1>5, OIDCFacts
    <3>3. \A x \in Login \cup Public : x \in rest \ gate
      BY <1>4, <3>1
    <3>4. gate \cup rest = {"issuer", "resourceURI"} \cup Policy \cup Endpoints \cup Public
      OBVIOUS
    <3>5. \A x \in {"issuer", "resourceURI"} \cup Policy : x \in gate
      OBVIOUS
    <3> HIDE DEF gate, rest
    <3>6. /\ DOMAIN ServerParts(e) = gate \cup rest
          /\ \A x \in gate : ServerParts(e)[x] = OIDC(e)[x]
          /\ \A x \in rest \ gate : ServerParts(e)[x] = login[x]
      BY <2>1, <3>2 DEF Joined
    <3> QED
      BY <3>3, <3>4, <3>5, <3>6
  <2>3. /\ DOMAIN loadServer(e) = Basic \cup DOMAIN ServerParts(e)
        /\ loadServer(e)["authMode"] = AuthMode(e)
        /\ \A x \in DOMAIN ServerParts(e) : loadServer(e)[x] = ServerParts(e)[x]
    <3> DEFINE parts == DOMAIN ServerParts(e)
    <3>1. \A x \in parts : x \notin Basic
      BY <1>4, <2>2
    <3>2. /\ DOMAIN loadServer(e) = Basic \cup parts
          /\ \A x \in Basic : loadServer(e)[x] = own[x]
          /\ \A x \in parts \ Basic : loadServer(e)[x] = ServerParts(e)[x]
      BY <1>1, <1>2 DEF Joined
    <3> HIDE DEF parts
    <3> QED
      BY <1>2, <3>1, <3>2 DEF parts
  <2>5. /\ \A x \in {"issuer", "resourceURI"} \cup Policy : loadServer(e)[x] = OIDC(e)[x]
        /\ \A x \in Login \cup Public : loadServer(e)[x] = login[x]
    BY <1>4, <2>2, <2>3
  <2>6. DOMAIN loadServer(e) \subseteq Basic \cup Endpoints \cup Policy \cup Public
    BY <1>4, <2>2, <2>3
  <2>7. {"issuer", "resourceURI"} \cup Policy \cup Login \cup Public \subseteq DOMAIN loadServer(e)
    BY <1>4, <2>2, <2>3
  <2> QED
    BY <1>2, <1>4, <1>5, <2>0, <2>3, <2>5, <2>6, <2>7, OIDCFacts
<1> QED
  BY <1>6, <1>7, <1>8 DEF Modes

\* A process that starts has the settings its environment asks for.
LEMMA LoadFacts ==
  ASSUME NEW e, Load(e) # Refused
  PROVE  /\ AcceptsClickHouse(e) /\ AcceptsServer(e) /\ AuthMode(e) \in Modes
         /\ Load(e).authMode = AuthMode(e)
         /\ Load(e).Port = loadClickHouse(e).Port
         /\ AuthMode(e) # <<"off">> =>
              /\ Load(e).issuer = deriveProvider(e).issuer
              /\ Load(e).resourceURI = deriveProvider(e).resourceURI
              /\ \A x \in Policy : Load(e)[x] = loadAccessPolicy(e)[x]
         /\ AuthMode(e) = <<"broker">> =>
              /\ \A x \in Login : Load(e)[x] = deriveProvider(e)[x]
              /\ Load(e).publicURL = PublicURL(e)
              /\ Load(e).AllowedRedirectHosts = RedirectHosts(e)
<1>1. AcceptsClickHouse(e) /\ AcceptsServer(e)
  BY DEF Load
<1>2. AuthMode(e) \in Modes
  BY <1>1 DEF AcceptsServer, Modes
<1>3. Load(e) = Joined(loadServer(e), loadClickHouse(e))
  BY <1>1 DEF Load
<1>4. \A x \in DOMAIN loadServer(e) : Load(e)[x] = loadServer(e)[x]
  BY <1>3 DEF Joined
<1>5. "Port" \in DOMAIN loadClickHouse(e)
  BY DEF loadClickHouse
<1>6. "Port" \notin DOMAIN loadServer(e)
  BY <1>2, ServerFacts DEF Basic, Endpoints, Policy, Public
<1>7. Load(e).Port = loadClickHouse(e).Port
  BY <1>3, <1>5, <1>6 DEF Joined
<1>8. AuthMode(e) = <<"broker">> =>
        /\ \A x \in Login : Load(e)[x] = deriveProvider(e)[x]
        /\ \A x \in Public : Load(e)[x] = loadBroker(e)[x]
  BY <1>2, <1>4, ServerFacts
<1>9. AuthMode(e) = <<"broker">> =>
        /\ Load(e).publicURL = PublicURL(e)
        /\ Load(e).AllowedRedirectHosts = RedirectHosts(e)
  BY <1>8 DEF Public, loadBroker
<1> QED
  BY <1>1, <1>2, <1>4, <1>7, <1>8, <1>9, ServerFacts

\* Of the texts that a number is written as, only one is it.
LEMMA PortFacts ==
  ASSUME NEW e, AcceptsClickHouse(e)
  PROVE  loadClickHouse(e).Port \in 1 .. MaxPort
<1>1. PICK port \in Ports(e) : port \in 1 .. MaxPort
  BY DEF AcceptsClickHouse
<1>2. ASSUME NEW m \in Ports(e), NEW n \in Ports(e)
      PROVE  m = n
  <2>1. CASE "CLICKHOUSE_PORT" \in DOMAIN e
    <3>1. /\ m \in Numerals /\ n \in Numerals
          /\ <<ToString(m)>> = <<ToString(n)>>
      BY <2>1 DEF Ports, envInt, Atoi
    <3>2. ToString(m) = ToString(n)
      BY <3>1
    <3> QED
      BY <3>1, <3>2, NumeralsAssumption
  <2>2. CASE "CLICKHOUSE_PORT" \notin DOMAIN e
    BY <2>2 DEF Ports, envInt
  <2> QED
    BY <2>1, <2>2
<1>3. loadClickHouse(e).Port = CHOOSE n \in Ports(e) : TRUE
  BY DEF loadClickHouse
<1>4. loadClickHouse(e).Port \in Ports(e)
  <2>1. Ports(e) # {}
    BY <1>1
  <2> QED
    BY <1>3, <2>1
<1> QED
  BY <1>1, <1>2, <1>4

SomeText(s) == \E R : s \in Seq(R)

\* An environment of texts.
Texted(e) == \A key \in DOMAIN e : SomeText(e[key])

LEMMA TrimmedFacts ==
  ASSUME NEW e, Texted(e), NEW key
  PROVE  /\ SomeText(Trimmed(e, key))
         /\ TrimSpace(Trimmed(e, key)) = Trimmed(e, key)
         /\ Trimmed(e, key) # <<>> => key \in DOMAIN e
<1>1. <<>> \in Seq({}) /\ \A i \in 1 .. Len(<<>>) : <<>>[i] = Space
  OBVIOUS
<1>2. TrimSpace(<<>>) = <<>>
  BY <1>1, TrimFacts
<1>3. CASE key \in DOMAIN e
  <2>1. PICK R : e[key] \in Seq(R)
    BY <1>3 DEF Texted, SomeText
  <2>2. Trimmed(e, key) = TrimSpace(e[key])
    BY <1>3 DEF Trimmed, envString
  <2>3. TrimSpace(e[key]) \in Seq(R) /\ TrimSpace(TrimSpace(e[key])) = TrimSpace(e[key])
    BY <2>1, TrimFacts, TrimTwice
  <2> QED
    BY <1>3, <2>2, <2>3 DEF SomeText
<1>4. CASE key \notin DOMAIN e
  <2>1. Trimmed(e, key) = <<>>
    BY <1>2, <1>4 DEF Trimmed, envString
  <2> QED
    BY <1>1, <1>2, <2>1 DEF SomeText
<1> QED
  BY <1>3, <1>4

\* Present and without blanks at its ends.
Complete(text) == text # <<>> /\ text = TrimSpace(text)

\* A text between two solid symbols has no blank to lose.
LEMMA Enclosed ==
  ASSUME NEW s, SomeText(s), NEW a, NEW c, a # Space, c # Space, NEW t, t = <<a>> \o <<"/">> \o s \o <<c>>
  PROVE  Complete(t) /\ Head(t) = a
<1>1. PICK R : s \in Seq(R)
  BY DEF SomeText
<1> DEFINE T == R \cup {a, "/", c}
<1>2. s \in Seq(T) /\ <<a>> \in Seq(T) /\ <<"/">> \in Seq(T) /\ <<c>> \in Seq(T)
  <2>1. s \in Seq(T)
    BY <1>1
  <2> QED
    BY <2>1
<1> HIDE DEF T
<1>3. t \in Seq(T) /\ Len(t) = Len(s) + 3 /\ Len(s) \in Nat /\ t[1] = a /\ t[Len(s) + 3] = c
  BY <1>2
<1>4. t # <<>> /\ t[Len(t)] = c
  BY <1>3
<1>5. TrimSpace(t) = t
  BY <1>3, <1>4, TrimKeeps
<1>6. Head(t) = t[1]
  BY <1>3, <1>4
<1> QED
  BY <1>3, <1>4, <1>5, <1>6 DEF Complete

LEMMA Solid ==
  /\ "https://login.microsoftonline.com" # Space /\ "https://accounts.google.com" # Space
  /\ "https://oauth2.googleapis.com" # Space /\ "/v2.0" # Space /\ "/token" # Space
  /\ "/oauth2/v2.0/authorize" # Space /\ "/oauth2/v2.0/token" # Space
  /\ "/o/oauth2/v2/auth" # Space
BY Zenon DEF Space

LEMMA Pair ==
  ASSUME NEW a, NEW b, a # Space, b # Space
  PROVE  LET t == <<a>> \o <<b>>
         IN t # <<>> /\ TrimSpace(t) = t /\ Head(t) = a
<1> DEFINE t == <<a>> \o <<b>>
<1>1. t \in Seq({a, b}) /\ Len(t) = 2 /\ t[1] = a /\ t[2] = b /\ t # <<>> /\ Head(t) = a
  OBVIOUS
<1> HIDE DEF t
<1>2. t[Len(t)] = b
  BY <1>1
<1>3. TrimSpace(t) = t
  BY <1>1, <1>2, TrimKeeps
<1> QED
  BY <1>1, <1>3 DEF t

LEMMA EntraComplete ==
  ASSUME NEW e, Texted(e), AcceptsServer(e), AuthMode(e) = <<"broker">>, Provider(e) = <<"entra">>
  PROVE  /\ \A x \in Endpoints : Complete(deriveProvider(e)[x])
         /\ \A x \in {"issuer", "authURL", "tokenURL"} :
              Head(deriveProvider(e)[x]) = "https://login.microsoftonline.com"
<1> DEFINE tenant == Trimmed(e, "AZURE_TENANT_ID")
           client == Trimmed(e, "AZURE_CLIENT_ID")
           host   == "https://login.microsoftonline.com"
           under(path) == <<host>> \o <<"/">> \o tenant \o <<path>>
<1>1. deriveProvider(e) = deriveEntra(e)
  BY DEF deriveProvider
<1>2. client # <<>> /\ Trimmed(e, "AZURE_CLIENT_SECRET") # <<>>
  <2>1. ProviderKeys[Provider(e)] = {"AZURE_TENANT_ID", "AZURE_CLIENT_ID", "AZURE_CLIENT_SECRET"}
    BY DEF ProviderKeys
  <2> QED
    BY <2>1 DEF AcceptsServer, AcceptsBroker, requireEnv
<1>3. /\ SomeText(tenant) /\ SomeText(client) /\ Complete(client)
      /\ Complete(Trimmed(e, "AZURE_CLIENT_SECRET"))
  BY <1>2, TrimmedFacts DEF Complete
<1>4. ASSUME NEW path \in {"/v2.0", "/oauth2/v2.0/authorize", "/oauth2/v2.0/token"}
      PROVE  Complete(under(path)) /\ Head(under(path)) = host
  <2>1. path # Space /\ host # Space
    BY Solid
  <2>2. SomeText(tenant)
    BY <1>3
  <2> HIDE DEF tenant, host
  <2> DEFINE t == under(path)
  <2>3. t = <<host>> \o <<"/">> \o tenant \o <<path>>
    OBVIOUS
  <2> HIDE DEF t
  <2>4. Complete(t)
    BY <2>1, <2>2, <2>3, Enclosed
  <2>5. Head(t) = host
    BY <2>1, <2>2, <2>3, Enclosed
  <2> QED
    BY <2>4, <2>5 DEF t
<1>5. /\ deriveProvider(e).issuer = under("/v2.0")
      /\ deriveProvider(e).authURL = under("/oauth2/v2.0/authorize")
      /\ deriveProvider(e).tokenURL = under("/oauth2/v2.0/token")
      /\ deriveProvider(e).clientID = client
      /\ deriveProvider(e).clientSecret = Trimmed(e, "AZURE_CLIENT_SECRET")
      /\ deriveProvider(e).resourceURI = TrimSpace(envString(e, "MCP_RESOURCE_URI", client))
  BY <1>1 DEF deriveEntra, entraAuthorityBase
<1>6. SomeText(envString(e, "MCP_RESOURCE_URI", client))
  BY <1>3 DEF envString, Texted
<1>7. Complete(deriveProvider(e).resourceURI)
  <2>1. deriveProvider(e).resourceURI # <<>>
    BY DEF AcceptsServer, AcceptsOIDC
  <2>2. PICK R : envString(e, "MCP_RESOURCE_URI", client) \in Seq(R)
    BY <1>6 DEF SomeText
  <2> QED
    BY <1>5, <2>1, <2>2, TrimTwice DEF Complete
<1> HIDE DEF under, tenant, client
<1> QED
  BY <1>3, <1>4, <1>5, <1>7 DEF Endpoints

LEMMA GoogleComplete ==
  ASSUME NEW e, Texted(e), AcceptsServer(e), AuthMode(e) = <<"broker">>, Provider(e) = <<"google">>
  PROVE  /\ \A x \in Endpoints : Complete(deriveProvider(e)[x])
         /\ \A x \in {"issuer", "authURL", "tokenURL"} :
              Head(deriveProvider(e)[x]) \in {"https://accounts.google.com", "https://oauth2.googleapis.com"}
<1> DEFINE client == Trimmed(e, "GOOGLE_CLIENT_ID")
           accounts == "https://accounts.google.com"
           tokens == "https://oauth2.googleapis.com"
<1>0. Provider(e) # <<"entra">>
  OBVIOUS
<1>1. deriveProvider(e) = deriveGoogle(e)
  BY <1>0 DEF deriveProvider
<1>2. client # <<>> /\ Trimmed(e, "GOOGLE_CLIENT_SECRET") # <<>>
  <2>1. ProviderKeys[Provider(e)] = {"GOOGLE_CLIENT_ID", "GOOGLE_CLIENT_SECRET"}
    BY <1>0 DEF ProviderKeys
  <2> QED
    BY <2>1 DEF AcceptsServer, AcceptsBroker, requireEnv
<1>3. /\ SomeText(client) /\ Complete(client)
      /\ Complete(Trimmed(e, "GOOGLE_CLIENT_SECRET"))
  BY <1>2, TrimmedFacts DEF Complete
<1>4. /\ Complete(<<accounts>> \o <<"/o/oauth2/v2/auth">>)
      /\ Head(<<accounts>> \o <<"/o/oauth2/v2/auth">>) = accounts
      /\ Complete(<<tokens>> \o <<"/token">>)
      /\ Head(<<tokens>> \o <<"/token">>) = tokens
  BY Solid, Pair DEF Complete
<1>5. Complete(<<accounts>>) /\ Head(<<accounts>>) = accounts
  <2>1. /\ <<accounts>> \in Seq({accounts}) /\ <<accounts>> # <<>> /\ Len(<<accounts>>) = 1
        /\ <<accounts>>[1] = accounts /\ Head(<<accounts>>) = accounts
    OBVIOUS
  <2>2. accounts # Space
    BY Solid
  <2> QED
    BY <2>1, <2>2, TrimKeeps DEF Complete
<1>6. /\ deriveProvider(e).issuer = <<accounts>>
      /\ deriveProvider(e).authURL = <<accounts>> \o <<"/o/oauth2/v2/auth">>
      /\ deriveProvider(e).tokenURL = <<tokens>> \o <<"/token">>
      /\ deriveProvider(e).clientID = client
      /\ deriveProvider(e).clientSecret = Trimmed(e, "GOOGLE_CLIENT_SECRET")
      /\ deriveProvider(e).resourceURI = TrimSpace(envString(e, "MCP_RESOURCE_URI", client))
  BY <1>1 DEF deriveGoogle, googleAccountsBase, googleTokenBase
<1>7. SomeText(envString(e, "MCP_RESOURCE_URI", client))
  BY <1>3 DEF envString, Texted
<1>8. Complete(deriveProvider(e).resourceURI)
  <2>1. deriveProvider(e).resourceURI # <<>>
    BY DEF AcceptsServer, AcceptsOIDC
  <2>2. PICK R : envString(e, "MCP_RESOURCE_URI", client) \in Seq(R)
    BY <1>7 DEF SomeText
  <2> QED
    BY <1>6, <2>1, <2>2, TrimTwice DEF Complete
<1> HIDE DEF client
<1> QED
  BY <1>3, <1>4, <1>5, <1>6, <1>8 DEF Endpoints

LEMMA ExplicitComplete ==
  ASSUME NEW e, Texted(e), AcceptsServer(e), AuthMode(e) \in {<<"bearer">>, <<"broker">>},
         Provider(e) \notin {<<"entra">>, <<"google">>}
  PROVE  /\ Complete(deriveProvider(e).issuer) /\ Complete(deriveProvider(e).resourceURI)
         /\ AuthMode(e) = <<"broker">> => \A x \in Login : Complete(deriveProvider(e)[x])
<1>1. deriveProvider(e) = Explicit(e)
  BY DEF deriveProvider
<1>2. /\ deriveProvider(e).issuer # <<>> /\ deriveProvider(e).resourceURI # <<>>
  BY DEF AcceptsServer, AcceptsOIDC
<1>3. AuthMode(e) = <<"broker">> =>
        \A key \in {"OIDC_CLIENT_ID", "OIDC_CLIENT_SECRET", "OIDC_AUTHORIZE_URL", "OIDC_TOKEN_URL"} :
          Trimmed(e, key) # <<>>
  <2>1. Provider(e) \in DOMAIN ProviderKeys =>
          ProviderKeys[Provider(e)] =
            {"OIDC_CLIENT_ID", "OIDC_CLIENT_SECRET", "OIDC_AUTHORIZE_URL", "OIDC_TOKEN_URL"}
    BY DEF ProviderKeys
  <2> QED
    BY <2>1 DEF AcceptsServer, AcceptsBroker, requireEnv
<1>4. \A key : TrimSpace(Trimmed(e, key)) = Trimmed(e, key)
  BY TrimmedFacts
<1>5. /\ Explicit(e).issuer = Trimmed(e, "OIDC_ISSUER")
      /\ Explicit(e).resourceURI = Trimmed(e, "MCP_RESOURCE_URI")
      /\ Explicit(e).authURL = Trimmed(e, "OIDC_AUTHORIZE_URL")
      /\ Explicit(e).tokenURL = Trimmed(e, "OIDC_TOKEN_URL")
      /\ Explicit(e).clientID = Trimmed(e, "OIDC_CLIENT_ID")
      /\ Explicit(e).clientSecret = Trimmed(e, "OIDC_CLIENT_SECRET")
  BY DEF Explicit
<1> QED
  BY <1>1, <1>2, <1>3, <1>4, <1>5 DEF Complete, Login

(***************************************************************************)
(* The inductive invariant.                                                *)
(***************************************************************************)

LEMMA InitInv == Init => Inv
<1> SUFFICES ASSUME Init PROVE Inv
  OBVIOUS
<1>1. ~Up
  BY DEF Init, Up
<1>2. TypeOK
  BY <1>1, GateAssumption DEF Init, TypeOK
<1>3. EnvIsTexts
  BY TextAssumption DEF Init, EnvIsTexts, NamingKeys
<1> QED
  BY <1>1, <1>2, <1>3 DEF Inv, CfgIsLoaded, SessionsHavePrincipals

LEMMA EditKeepsInv == ASSUME Inv, Edit PROVE Inv'
<1>1. ~Up /\ ~Up'
  BY DEF Edit, Up
<1>2. TypeOK'
  BY <1>1, GateAssumption DEF Inv, TypeOK, Edit
<1>3. EnvIsTexts'
  <2>1. PICK key \in DOMAIN Texts :
          env' \in {[k \in (DOMAIN env) \ {key} |-> env[k]]}
                    \cup {[k \in (DOMAIN env) \cup {key} |-> IF k = key THEN text ELSE env[k]] :
                            text \in Texts[key]}
    BY DEF Edit
  <2>2. ASSUME NEW k \in DOMAIN env'
        PROVE  (k \in DOMAIN env /\ env'[k] = env[k]) \/ (k = key /\ env'[k] \in Texts[key])
    BY <2>1
  <2>3. \A k \in DOMAIN env' : IsText(env'[k])
    BY <2>2, TextAssumption DEF Inv, EnvIsTexts
  <2>4. "OIDC_IDENTITY_CLAIM" \in DOMAIN env' => env'["OIDC_IDENTITY_CLAIM"] \in NamingKeys
    BY <2>2 DEF Inv, EnvIsTexts, NamingKeys
  <2> QED
    BY <2>3, <2>4 DEF EnvIsTexts
<1> QED
  BY <1>1, <1>2, <1>3 DEF Inv, CfgIsLoaded, SessionsHavePrincipals

LEMMA StartKeepsInv == ASSUME Inv, Start PROVE Inv'
<1>1. ~Up /\ cached = {} /\ \A s \in Sessions : sessions[s] = NoSession
  BY DEF Start, Inv, TypeOK
<1>2. /\ cfg' = Load(env) /\ Load(env) # Refused
      /\ UNCHANGED <<env, edits, published, cached, now, sessions>>
  BY DEF Start
<1>3. TypeOK'
  BY <1>1, <1>2 DEF Inv, TypeOK
<1>4. SessionsHavePrincipals'
  BY <1>1, <1>2 DEF SessionsHavePrincipals
<1>5. CfgIsLoaded' /\ EnvIsTexts'
  BY <1>2 DEF Inv, CfgIsLoaded, EnvIsTexts
<1> QED
  BY <1>3, <1>4, <1>5 DEF Inv

LEMMA StopKeepsInv == ASSUME Inv, Stop PROVE Inv'
<1>1. ~Up'
  BY DEF Stop, Up
<1>2. TypeOK'
  BY <1>1 DEF Inv, TypeOK, Stop
<1>3. EnvIsTexts'
  BY DEF Inv, EnvIsTexts, Stop
<1> QED
  BY <1>1, <1>2, <1>3 DEF Inv, CfgIsLoaded, SessionsHavePrincipals

\* Steps that touch neither the settings nor the sessions.
LEMMA ElseKeepsInv ==
  ASSUME Inv, UNCHANGED <<env, edits, cfg, sessions>>,
         published' \in Keys, cached' \subseteq Keys, now' \in 0 .. MaxTime,
         ~Up => cached' = {}
  PROVE  Inv'
<1>1. Up' = Up /\ Gated' = Gated /\ \A t \in Tokens : UserID(t)' = UserID(t) /\ Principal(t)' = Principal(t)
  BY DEF Up, Gated, UserID, Principal
<1>2. TypeOK'
  BY <1>1 DEF Inv, TypeOK
<1>3. CfgIsLoaded' /\ EnvIsTexts'
  BY <1>1 DEF Inv, CfgIsLoaded, EnvIsTexts
<1>4. SessionsHavePrincipals'
  BY <1>1 DEF Inv, SessionsHavePrincipals
<1> QED
  BY <1>2, <1>3, <1>4 DEF Inv

LEMMA KeysStayKeys == ASSUME Inv, NEW t PROVE KeysFor(t) \subseteq Keys
BY DEF Inv, TypeOK, KeysFor

LEMMA OpenKeepsInv == ASSUME Inv, NEW t \in Tokens, NEW s \in Sessions, Open(t, s) PROVE Inv'
<1>1. /\ Up /\ UNCHANGED <<env, edits, cfg, published, now>>
      /\ sessions' = [sessions EXCEPT ![s] = Principal(t)]
      /\ cached' \subseteq Keys
      /\ Gated => UserID(t) # <<>>
  BY KeysStayKeys DEF Open, Serving, Passes, Verify, Inv, TypeOK
<1>2. Up' = Up /\ Gated' = Gated /\ \A u \in Tokens : UserID(u)' = UserID(u) /\ Principal(u)' = Principal(u)
  BY <1>1 DEF Up, Gated, UserID, Principal
<1>3. /\ DOMAIN sessions' = Sessions
      /\ \A r \in Sessions : sessions'[r] = IF r = s THEN Principal(t) ELSE sessions[r]
  BY <1>1 DEF Inv, TypeOK
<1>4. Gated => Principal(t).user = UserID(t)
  BY DEF Principal
<1>5. TypeOK'
  BY <1>1, <1>2, <1>3, <1>4 DEF Inv, TypeOK
<1>6. SessionsHavePrincipals'
  BY <1>1, <1>2, <1>3 DEF Inv, SessionsHavePrincipals
<1>7. CfgIsLoaded' /\ EnvIsTexts'
  BY <1>1, <1>2 DEF Inv, CfgIsLoaded, EnvIsTexts
<1> QED
  BY <1>5, <1>6, <1>7 DEF Inv

LEMMA NextKeepsInv == ASSUME Inv, [Next]_vars PROVE Inv'
<1>0. published \in Keys /\ cached \subseteq Keys /\ now \in 0 .. MaxTime /\ (~Up => cached = {})
  BY DEF Inv, TypeOK
<1>1. CASE Rotate
  BY <1>0, <1>1, ElseKeepsInv DEF Rotate
<1>2. CASE Tick
  <2>1. now' \in 0 .. MaxTime
    BY <1>0, <1>2, GateAssumption DEF Tick
  <2> QED
    BY <1>0, <1>2, <2>1, ElseKeepsInv DEF Tick
<1>3. ASSUME NEW t \in Tokens, Ask(t) PROVE Inv'
  BY <1>0, <1>3, KeysStayKeys, ElseKeepsInv DEF Ask, Serving
<1>4. CASE UNCHANGED vars
  BY <1>0, <1>4, ElseKeepsInv DEF vars
<1> QED
  BY <1>1, <1>2, <1>3, <1>4, EditKeepsInv, StartKeepsInv, StopKeepsInv, OpenKeepsInv DEF Next

\* Whatever the environments, the texts an operator gives variables, the tokens and
\* the keys (config.go, main.go and verifier.go together).
THEOREM InvHolds == Spec => []Inv
BY InitInv, NextKeepsInv, PTL DEF Spec

\* Nothing of a process outlives it, and no session behind the gate is without a user
\* (Verify, buildHTTPHandler).
THEOREM TypeCorrect == Spec => []TypeOK
BY InvHolds, PTL DEF Inv

(***************************************************************************)
(* What a process that starts has.                                         *)
(***************************************************************************)

LEMMA EnvTexted == ASSUME Inv PROVE Texted(env)
BY DEF Inv, EnvIsTexts, IsText, Texted, SomeText

\* The settings of a gate that is up.
LEMMA GateSettings ==
  ASSUME Inv, Up
  PROVE  /\ Texted(env) /\ AcceptsServer(env) /\ AuthMode(env) \in Modes /\ cfg.authMode = AuthMode(env)
         /\ Gated => AuthMode(env) \in {<<"bearer">>, <<"broker">>}
         /\ AuthMode(env) \in {<<"bearer">>, <<"broker">>} =>
              /\ cfg.issuer = deriveProvider(env).issuer
              /\ cfg.resourceURI = deriveProvider(env).resourceURI
              /\ \A x \in Policy : cfg[x] = loadAccessPolicy(env)[x]
         /\ InBroker => AuthMode(env) = <<"broker">>
         /\ AuthMode(env) = <<"broker">> =>
              /\ InBroker
              /\ \A x \in Login : cfg[x] = deriveProvider(env)[x]
              /\ cfg.publicURL = PublicURL(env)
              /\ cfg.AllowedRedirectHosts = RedirectHosts(env)
<1>1. cfg = Load(env) /\ Load(env) # Refused
  BY DEF Inv, CfgIsLoaded
<1>2. AuthMode(env) \in {<<"bearer">>, <<"broker">>} => AuthMode(env) # <<"off">>
  OBVIOUS
<1> QED
  BY <1>1, <1>2, LoadFacts, EnvTexted DEF Gated, InBroker

\* By provider, where there is a gate: no setting is empty, or padded with blanks, and
\* a named provider's are at its hosts.
LEMMA ProviderSettings ==
  ASSUME NEW e, Texted(e), AcceptsServer(e), AuthMode(e) \in {<<"bearer">>, <<"broker">>}
  PROVE  /\ Complete(deriveProvider(e).issuer) /\ Complete(deriveProvider(e).resourceURI)
         /\ AuthMode(e) = <<"broker">> => \A x \in Login : Complete(deriveProvider(e)[x])
<1>1. CASE Provider(e) \in {<<"entra">>, <<"google">>}
  <2>1. AuthMode(e) = <<"broker">>
    <3>1. <<"generic">> \notin {<<"entra">>, <<"google">>}
      OBVIOUS
    <3> QED
      BY <1>1, <3>1 DEF Provider
  <2>2. \A x \in Endpoints : Complete(deriveProvider(e)[x])
    BY <1>1, <2>1, EntraComplete, GoogleComplete
  <2> QED
    BY <2>2 DEF Endpoints, Login
<1>2. CASE Provider(e) \notin {<<"entra">>, <<"google">>}
  BY <1>2, ExplicitComplete
<1> QED
  BY <1>1, <1>2

\* The public URL is the base URL without the slashes at its end.
LEMMA BaseFacts ==
  ASSUME Inv, InBroker
  PROVE  cfg.publicURL = TrimRight(BaseURL, "/") /\ BaseURL # <<>> /\ SomeText(BaseURL)
<1>1. /\ Texted(env) /\ AcceptsServer(env) /\ AuthMode(env) = <<"broker">>
      /\ cfg.publicURL = TrimRight(BaseURL, "/")
  BY GateSettings DEF InBroker, PublicURL, BaseURL
<1>2. BaseURL # <<>>
  BY <1>1 DEF AcceptsServer, AcceptsBroker, requireEnv, BaseURL
<1> QED
  BY <1>1, <1>2, TrimmedFacts DEF BaseURL

\* No variable moves a named provider's issuer or endpoints to another host
\* (config.go: deriveEntra and deriveGoogle).
THEOREM ProviderHolds == Spec => []NamedProviderStaysPut
<1>1. Inv => NamedProviderStaysPut
  <2> SUFFICES ASSUME Inv, InBroker, NamedProvider(env) \in DOMAIN ProviderHosts
               PROVE  {Head(cfg.issuer), Head(cfg.authURL), Head(cfg.tokenURL)}
                        \subseteq ProviderHosts[NamedProvider(env)]
    BY DEF NamedProviderStaysPut
  <2> DEFINE hosts == {Head(cfg.issuer), Head(cfg.authURL), Head(cfg.tokenURL)}
  <2>1. /\ Texted(env) /\ AcceptsServer(env) /\ AuthMode(env) = <<"broker">>
        /\ cfg.issuer = deriveProvider(env).issuer
        /\ cfg.authURL = deriveProvider(env).authURL
        /\ cfg.tokenURL = deriveProvider(env).tokenURL
    BY GateSettings DEF InBroker, Login
  <2>2. Provider(env) = NamedProvider(env)
    BY <2>1 DEF Provider
  <2>3. CASE NamedProvider(env) = <<"entra">>
    <3>1. ProviderHosts[NamedProvider(env)] = {"https://login.microsoftonline.com"}
      BY <2>3 DEF ProviderHosts
    <3> QED
      BY <2>1, <2>2, <2>3, <3>1, EntraComplete
  <2>4. CASE NamedProvider(env) = <<"google">>
    <3>1. ProviderHosts[NamedProvider(env)] =
            {"https://accounts.google.com", "https://oauth2.googleapis.com"}
      BY <2>4 DEF ProviderHosts
    <3> QED
      BY <2>1, <2>2, <2>4, <3>1, GoogleComplete
  <2> QED
    BY <2>3, <2>4 DEF ProviderHosts
<1> QED
  BY <1>1, InvHolds, PTL

\* Nothing is left of a text without the c's at its end when it has nothing else.
LEMMA TrimRightEmpty ==
  ASSUME NEW R, NEW s \in Seq(R), NEW c
  PROVE  TrimRight(s, c) = <<>> <=> ToSet(s) \subseteq {c}
<1> DEFINE kept == {i \in DOMAIN s : s[i] # c}
<1>1. Len(s) \in Nat /\ DOMAIN s = 1 .. Len(s) /\ kept \in SUBSET (1 .. Len(s))
  OBVIOUS
<1>2. kept = {} <=> ToSet(s) \subseteq {c}
  BY DEF ToSet
<1>3. CASE kept = {}
  BY <1>2, <1>3 DEF TrimRight
<1>4. CASE kept # {}
  <2> DEFINE b == Max(kept)
  <2>1. b \in kept
    <3> HIDE DEF kept
    <3> QED
      BY <1>1, <1>4, Extremes
  <2>2. b \in 1 .. Len(s) /\ TrimRight(s, c) = SubSeq(s, 1, b)
    BY <1>1, <1>4, <2>1 DEF TrimRight
  <2> HIDE DEF b, kept
  <2>3. Len(SubSeq(s, 1, b)) = b
    BY <1>1, <2>2, SubSeqProperties
  <2>4. Len(<<>>) = 0 /\ b # 0
    BY <1>1, <2>2
  <2>5. TrimRight(s, c) # <<>>
    BY <2>2, <2>3, <2>4
  <2> QED
    BY <1>2, <1>4, <2>5
<1> QED
  BY <1>3, <1>4

\* What of a process that starts is there, and where config.go lets it be empty
\* (loadOIDC, loadBroker, loadAccessPolicy, loadClickHouse).
THEOREM ConfigHolds == Spec => []RequiredSettingsAreThere
<1>1. Inv => RequiredSettingsAreThere
  <2> SUFFICES ASSUME Inv, Up
               PROVE  /\ \A field \in Needed : Complete(cfg[field])
                      /\ InBroker => (cfg.publicURL = <<>> <=> ToSet(BaseURL) = {"/"})
                      /\ InBroker => <<>> \notin cfg.AllowedRedirectHosts
                      /\ Gated => (cfg.requiredClaim = <<>>
                           <=> ToSet(envString(env, "OIDC_REQUIRED_CLAIM", <<>>)) \subseteq {Space})
                      /\ Gated /\ cfg.requiredClaim # <<>> => cfg.requiredValue # <<>>
                      /\ cfg.Port \in 1..MaxPort
    BY DEF RequiredSettingsAreThere, Complete
  <2>1. Gated => Complete(cfg.issuer) /\ Complete(cfg.resourceURI)
    BY GateSettings, ProviderSettings
  <2>2. InBroker => \A x \in Login : Complete(cfg[x])
    BY GateSettings, ProviderSettings
  <2>3. \A field \in Needed : Complete(cfg[field])
    BY <2>1, <2>2 DEF Needed, Login
  <2>4. Gated /\ cfg.requiredClaim # <<>> => cfg.requiredValue # <<>>
    <3> SUFFICES ASSUME Gated PROVE cfg.requiredClaim # <<>> => cfg.requiredValue # <<>>
      OBVIOUS
    <3>1. AcceptsPolicy(env)
      BY GateSettings DEF AcceptsServer, AcceptsOIDC
    <3>2. /\ cfg.requiredClaim = loadAccessPolicy(env).requiredClaim
          /\ cfg.requiredValue = loadAccessPolicy(env).requiredValue
      BY GateSettings DEF Policy
    <3> QED
      BY <3>1, <3>2 DEF AcceptsPolicy
  <2>5. InBroker => <<>> \notin cfg.AllowedRedirectHosts
    BY GateSettings DEF RedirectHosts
  <2>6. cfg.Port \in 1..MaxPort
    <3>1. cfg = Load(env) /\ Load(env) # Refused
      BY DEF Inv, CfgIsLoaded
    <3> QED
      BY <3>1, LoadFacts, PortFacts
  <2>7. InBroker => (cfg.publicURL = <<>> <=> ToSet(BaseURL) = {"/"})
    <3> SUFFICES ASSUME InBroker
                 PROVE  cfg.publicURL = <<>> <=> ToSet(BaseURL) = {"/"}
      OBVIOUS
    <3>1. cfg.publicURL = TrimRight(BaseURL, "/") /\ BaseURL # <<>> /\ SomeText(BaseURL)
      BY BaseFacts
    <3>2. PICK R : BaseURL \in Seq(R)
      BY <3>1 DEF SomeText
    <3>3. TrimRight(BaseURL, "/") = <<>> <=> ToSet(BaseURL) \subseteq {"/"}
      BY <3>2, TrimRightEmpty
    <3>4. ToSet(BaseURL) # {}
      <4>1. 1 \in DOMAIN BaseURL
        BY <3>1, <3>2
      <4> QED
        BY <4>1 DEF ToSet
    <3> QED
      BY <3>1, <3>3, <3>4
  <2>8. Gated => (cfg.requiredClaim = <<>>
          <=> ToSet(envString(env, "OIDC_REQUIRED_CLAIM", <<>>)) \subseteq {Space})
    <3> SUFFICES ASSUME Gated
                 PROVE  cfg.requiredClaim = <<>>
                          <=> ToSet(envString(env, "OIDC_REQUIRED_CLAIM", <<>>)) \subseteq {Space}
      OBVIOUS
    <3> DEFINE text == envString(env, "OIDC_REQUIRED_CLAIM", <<>>)
    <3>1. cfg.requiredClaim = TrimSpace(text)
      BY GateSettings DEF Policy, loadAccessPolicy, Trimmed
    <3>2. SomeText(text)
      BY GateSettings DEF Texted, SomeText, envString
    <3>3. PICK R : text \in Seq(R)
      BY <3>2 DEF SomeText
    <3> HIDE DEF text
    <3>4. TrimSpace(text) = <<>> <=> \A i \in 1 .. Len(text) : text[i] = Space
      BY <3>3, TrimFacts
    <3>5. DOMAIN text = 1 .. Len(text)
      BY <3>3
    <3>6. TrimSpace(text) = <<>> <=> ToSet(text) \subseteq {Space}
      BY <3>4, <3>5 DEF ToSet
    <3> QED
      BY <3>1, <3>6 DEF text
  <2> QED
    BY <2>3, <2>4, <2>5, <2>6, <2>7, <2>8
<1> QED
  BY <1>1, InvHolds, PTL

\* Without the slashes after it, a host stands alone.
LEMMA TrimRightAlone ==
  ASSUME NEW R, NEW s \in Seq(R), s # <<>>, NEW c, s[1] # c, \A i \in 2..Len(s) : s[i] = c
  PROVE  TrimRight(s, c) = <<s[1]>>
<1> DEFINE kept == {i \in DOMAIN s : s[i] # c}
<1>1. Len(s) \in Nat /\ DOMAIN s = 1 .. Len(s) /\ 1 \in 1 .. Len(s)
  OBVIOUS
<1>2. kept = {1}
  <2>1. \A i \in 1 .. Len(s) : i = 1 \/ i \in 2 .. Len(s)
    BY <1>1
  <2> QED
    BY <1>1, <2>1
<1>3. Max({1}) = 1
  BY <1>1, Extremes, {1} \in SUBSET (1 .. Len(s))
<1>4. TrimRight(s, c) = SubSeq(s, 1, 1)
  BY <1>2, <1>3 DEF TrimRight
<1> HIDE DEF kept
<1>5. SubSeq(s, 1, 1) \in Seq(R) /\ Len(SubSeq(s, 1, 1)) = 1 /\ SubSeq(s, 1, 1)[1] = s[1]
  BY <1>1, SubSeqProperties
<1>6. SubSeq(s, 1, 1) = <<s[1]>>
  <2> DEFINE t == SubSeq(s, 1, 1)
             u == <<s[1]>>
  <2>1. t \in Seq(R) /\ Len(t) = 1 /\ t[1] = s[1]
    BY <1>5
  <2>2. u \in Seq(R) /\ Len(u) = 1 /\ u[1] = s[1]
    BY <1>1
  <2> HIDE DEF t, u
  <2>3. \A i \in 1 .. 1 : t[i] = u[i]
    BY <2>1, <2>2
  <2>4. t = u
    BY <2>1, <2>2, <2>3, SeqEqual
  <2> QED
    BY <2>4 DEF t, u
<1> QED
  BY <1>4, <1>6

\* A client that follows the metadata reaches the broker's routes at the host of its
\* public URL and is registered as the provider's app (config.go: loadBroker; broker.go:
\* NewProxy, RegisterRoutes, HandleRegister).
THEOREM DiscoveryHolds == Spec => []DiscoveryLeadsToLogin
<1>1. Inv => DiscoveryLeadsToLogin
  <2> DEFINE metadata == HandleAuthServerMetadata("GET").body
             endpoints == {metadata.authorization_endpoint, metadata.token_endpoint,
                           metadata.registration_endpoint}
             asked == [redirect_uris |-> "uris", scope |-> "scope"]
             registered == HandleRegister("POST", [object |-> asked]).body
  <2> SUFFICES ASSUME Inv, InBroker, HostAlone
               PROVE  /\ \A e \in endpoints : Len(e) = 2 /\ e[1] = BaseURL[1] /\ e[2] \in Routes
                      /\ registered.client_id = Trimmed(env, AppVariable(NamedProvider(env)))
                      /\ registered.redirect_uris = asked.redirect_uris
    BY DEF DiscoveryLeadsToLogin
  <2>1. /\ Texted(env) /\ AuthMode(env) = <<"broker">>
        /\ cfg.clientID = deriveProvider(env).clientID
    BY GateSettings DEF InBroker, Login
  <2>2. cfg.publicURL = <<BaseURL[1]>>
    <3>1. cfg.publicURL = TrimRight(BaseURL, "/") /\ BaseURL # <<>> /\ SomeText(BaseURL)
      BY BaseFacts
    <3>2. PICK R : BaseURL \in Seq(R)
      BY <3>1 DEF SomeText
    <3> QED
      BY <3>1, <3>2, TrimRightAlone DEF HostAlone
  <2>3. endpoints = {<<BaseURL[1]>> \o <<route>> :
                       route \in {"/oauth/authorize", "/oauth/token", "/oauth/register"}}
    <3>1. metadata = authServerMetadata
      <4>1. "GET" \notin {"OPTIONS", "HEAD"}
        OBVIOUS
      <4>2. HandleAuthServerMetadata("GET") = [status |-> 200, body |-> authServerMetadata]
        BY <4>1 DEF HandleAuthServerMetadata
      <4> QED
        BY <4>2
    <3>2. /\ metadata.authorization_endpoint = <<BaseURL[1]>> \o <<"/oauth/authorize">>
          /\ metadata.token_endpoint = <<BaseURL[1]>> \o <<"/oauth/token">>
          /\ metadata.registration_endpoint = <<BaseURL[1]>> \o <<"/oauth/register">>
      BY <2>2, <3>1 DEF authServerMetadata
    <3> HIDE DEF metadata
    <3> QED
      BY <3>2
  <2>4. \A e \in endpoints : Len(e) = 2 /\ e[1] = BaseURL[1] /\ e[2] \in Routes
    <3>1. ASSUME NEW route \in {"/oauth/authorize", "/oauth/token", "/oauth/register"},
                 NEW e, e = <<BaseURL[1]>> \o <<route>>
          PROVE  Len(e) = 2 /\ e[1] = BaseURL[1] /\ e[2] \in Routes
      <4>1. Len(e) = 2 /\ e[1] = BaseURL[1] /\ e[2] = route
        BY <3>1
      <4>2. route \in Routes
        BY DEF Routes
      <4> QED
        BY <4>1, <4>2
    <3> HIDE DEF endpoints
    <3> QED
      BY <2>3, <3>1
  <2>5. registered = dcrResponse(asked)
    <3>1. "object" \in DOMAIN [object |-> asked] /\ [object |-> asked].object = asked
      OBVIOUS
    <3>2. HandleRegister("POST", [object |-> asked]) = [status |-> 201, body |-> dcrResponse(asked)]
      <4> HIDE DEF asked
      <4> QED
        BY <3>1 DEF HandleRegister
    <3> QED
      BY <3>2
  <2>6. registered.client_id = cfg.clientID /\ registered.redirect_uris = asked.redirect_uris
    <3> HIDE DEF registered
    <3> QED
      BY <2>5 DEF dcrResponse, Joined
  <2>7. cfg.clientID = Trimmed(env, AppVariable(NamedProvider(env)))
    <3>1. Provider(env) = NamedProvider(env)
      BY <2>1 DEF Provider
    <3>2. CASE Provider(env) = <<"entra">>
      BY <2>1, <3>1, <3>2 DEF deriveProvider, deriveEntra, AppVariable
    <3>3. CASE Provider(env) = <<"google">>
      BY <2>1, <3>1, <3>3 DEF deriveProvider, deriveGoogle, AppVariable
    <3>4. CASE Provider(env) # <<"entra">> /\ Provider(env) # <<"google">>
      BY <2>1, <3>1, <3>4 DEF deriveProvider, Explicit, AppVariable
    <3> QED
      BY <3>2, <3>3, <3>4
  <2> QED
    BY <2>4, <2>6, <2>7
<1> QED
  BY <1>1, InvHolds, PTL

(***************************************************************************)
(* Who gets past the gate, and into whose session.                         *)
(***************************************************************************)

\* An identity is what one of the four claims says, and there is one when some claim
\* says anything.
LEMMA IdentityFacts ==
  ASSUME NEW claim, NEW claims
  PROVE  /\ identity(claim, claims) # <<>> =>
              \E i \in 1 .. 4 : \E text \in Strings(Claim(claims, NamingClaims(claim)[i])) :
                identity(claim, claims) = TrimSpace(text)
         /\ (\E i \in 1 .. 4 : \E text \in Strings(Claim(claims, NamingClaims(claim)[i])) :
               TrimSpace(text) # <<>>) => identity(claim, claims) # <<>>
<1> DEFINE value(i) == Claim(claims, NamingClaims(claim)[i])
           usable == {i \in 1 .. 4 : \E text \in Strings(value(i)) : TrimSpace(text) # <<>>}
<1>1. identity(claim, claims) = IF usable = {} THEN <<>> ELSE TrimSpace(value(Min(usable)).string)
  BY DEF identity
<1>2. usable \in SUBSET (1 .. 4) /\ 4 \in Nat
  OBVIOUS
<1>3. ASSUME NEW i \in usable
      PROVE  /\ i \in 1 .. 4 /\ value(i).string \in Strings(value(i))
             /\ TrimSpace(value(i).string) # <<>>
  BY DEF Strings
<1>4. usable # {} => Min(usable) \in usable
  <2> HIDE DEF usable
  <2> QED
    BY <1>2, Extremes
<1>5. (\E i \in 1 .. 4 : \E text \in Strings(value(i)) : TrimSpace(text) # <<>>) => usable # {}
  OBVIOUS
<1> HIDE DEF usable
<1>6. ASSUME identity(claim, claims) # <<>>
      PROVE  \E i \in 1 .. 4 : \E text \in Strings(value(i)) : identity(claim, claims) = TrimSpace(text)
  <2>1. usable # {}
    BY <1>1, <1>6
  <2> DEFINE m == Min(usable)
  <2>2. m \in 1 .. 4 /\ value(m).string \in Strings(value(m))
    BY <1>3, <1>4, <2>1
  <2>3. identity(claim, claims) = TrimSpace(value(m).string)
    BY <1>1, <2>1
  <2> HIDE DEF m
  <2> QED
    BY <2>2, <2>3
<1>7. ASSUME usable # {} PROVE identity(claim, claims) # <<>>
  BY <1>1, <1>3, <1>4, <1>7
<1> QED
  BY <1>5, <1>6, <1>7

\* The claims that the four names stand for.
LEMMA NamingFacts ==
  ASSUME Inv, Up, Gated, NEW i \in 1 .. 4
  PROVE  NamingClaims(cfg.identityClaim)[i] \in NamingKeys
<1>1. cfg.identityClaim = envString(env, "OIDC_IDENTITY_CLAIM", <<"email">>)
  <2>1. "identityClaim" \in Policy
    BY DEF Policy
  <2>2. cfg["identityClaim"] = loadAccessPolicy(env)["identityClaim"]
    BY <2>1, GateSettings
  <2> QED
    BY <2>2 DEF loadAccessPolicy
<1>2. cfg.identityClaim \in NamingKeys
  BY <1>1 DEF envString, Inv, EnvIsTexts, NamingKeys
<1>3. /\ <<"preferred_username">> \in NamingKeys /\ <<"email">> \in NamingKeys
      /\ <<"sub">> \in NamingKeys
  BY DEF NamingKeys
<1>4. i = 1 \/ i = 2 \/ i = 3 \/ i = 4
  OBVIOUS
<1> DEFINE c == cfg.identityClaim
<1> HIDE DEF c
<1>5. NamingClaims(c)[i] \in {c, <<"preferred_username">>, <<"email">>, <<"sub">>}
  BY <1>4 DEF NamingClaims
<1> QED
  BY <1>2, <1>3, <1>5 DEF c

\* Nobody gets into a session that another principal opened, as long as the issuer
\* gives no two principals the same name (Verify and identity in verifier.go).
THEOREM SessionsHold == Spec => []SessionsKeepTheirPrincipal
<1>1. Inv => SessionsKeepTheirPrincipal
  <2> SUFFICES ASSUME Inv, Up, Gated, NEW t \in Tokens, NEW s \in Sessions, Verify(t), MayUse(t, s)
               PROVE  t.owner = sessions[s].owner
    BY DEF SessionsKeepTheirPrincipal
  <2>1. PICK u \in Tokens : sessions[s] = Principal(u) /\ UserID(u) # <<>>
    BY DEF Inv, SessionsHavePrincipals, MayUse
  <2>2. UserID(t) = UserID(u)
    BY <2>1 DEF MayUse, Principal
  <2>3. PICK i \in 1 .. 4 :
          \E text \in Strings(Claim(t.claims, NamingClaims(cfg.identityClaim)[i])) :
            UserID(t) = TrimSpace(text)
    BY <2>1, <2>2, IdentityFacts DEF UserID
  <2>4. PICK j \in 1 .. 4 :
          \E text \in Strings(Claim(u.claims, NamingClaims(cfg.identityClaim)[j])) :
            UserID(u) = TrimSpace(text)
    BY <2>1, IdentityFacts DEF UserID
  <2>5. /\ NamingClaims(cfg.identityClaim)[i] \in NamingKeys
        /\ NamingClaims(cfg.identityClaim)[j] \in NamingKeys
    BY NamingFacts
  <2>6. t.owner = u.owner
    <3> DEFINE c == NamingClaims(cfg.identityClaim)[i]
               d == NamingClaims(cfg.identityClaim)[j]
    <3>1. PICK text \in Strings(Claim(t.claims, c)) : UserID(t) = TrimSpace(text)
      BY <2>3
    <3>2. PICK other \in Strings(Claim(u.claims, d)) : UserID(u) = TrimSpace(other)
      BY <2>4
    <3>3. TrimSpace(text) = TrimSpace(other) /\ TrimSpace(text) # <<>>
      BY <2>1, <2>2, <3>1, <3>2
    <3>4. c \in NamingKeys /\ d \in NamingKeys
      BY <2>5
    <3> HIDE DEF c, d
    <3> QED
      BY <3>3, <3>4, NamesAssumption
  <2> QED
    BY <2>1, <2>6 DEF Principal
<1> QED
  BY <1>1, InvHolds, PTL

\* What the operator's environment asks of a token is what the settings ask.
LEMMA IssuerFacts == ASSUME Inv, Up, Gated PROVE cfg.issuer = IssuerMeant
<1> DEFINE tenant == TrimSpace(env["AZURE_TENANT_ID"])
<1>1. /\ AuthMode(env) \in {<<"bearer">>, <<"broker">>} /\ Texted(env) /\ AcceptsServer(env)
      /\ cfg.issuer = deriveProvider(env).issuer /\ cfg.issuer # <<>>
  BY GateSettings, ProviderSettings DEF Complete
<1>2. InBroker <=> AuthMode(env) = <<"broker">>
  <2>1. <<"bearer">> # <<"broker">>
    OBVIOUS
  <2> QED
    BY <1>1, <2>1, GateSettings
<1>3. <<"entra">> # <<"google">> /\ <<"generic">> # <<"entra">> /\ <<"generic">> # <<"google">>
  OBVIOUS
<1>4. AuthMode(env) = <<"broker">> =>
        /\ Provider(env) = NamedProvider(env)
        /\ Provider(env) \in {<<"entra">>, <<"google">>, <<"generic">>}
  BY <1>1 DEF AcceptsServer, AcceptsBroker, ProviderKeys, Provider
<1>5. CASE ~Named
  <2>1. Provider(env) = <<"generic">>
    BY <1>2, <1>4, <1>5 DEF Named, Provider
  <2>2. cfg.issuer = Trimmed(env, "OIDC_ISSUER")
    BY <1>1, <1>3, <2>1 DEF deriveProvider, Explicit
  <2>3. "OIDC_ISSUER" \in DOMAIN env
    BY <1>1, <2>2, TrimmedFacts
  <2> QED
    BY <1>5, <2>2, <2>3 DEF IssuerMeant, Trimmed, envString
<1>6. CASE Named /\ NamedProvider(env) = <<"google">>
  <2>1. Provider(env) = <<"google">>
    BY <1>2, <1>4, <1>6 DEF Named
  <2>2. cfg.issuer = <<"https://accounts.google.com">>
    BY <1>1, <1>3, <2>1 DEF deriveProvider, deriveGoogle, googleAccountsBase
  <2> QED
    BY <1>6, <2>2 DEF IssuerMeant
<1>7. CASE Named /\ NamedProvider(env) = <<"entra">>
  <2>1. Provider(env) = <<"entra">> /\ AuthMode(env) = <<"broker">>
    BY <1>2, <1>4, <1>7 DEF Named
  <2>2. cfg.issuer = entraAuthorityBase \o <<"/">> \o Trimmed(env, "AZURE_TENANT_ID") \o <<"/v2.0">>
    BY <1>1, <2>1 DEF deriveProvider, deriveEntra
  <2>3. "AZURE_TENANT_ID" \in DOMAIN env
    <3>1. ProviderKeys[Provider(env)] = {"AZURE_TENANT_ID", "AZURE_CLIENT_ID", "AZURE_CLIENT_SECRET"}
      BY <2>1 DEF ProviderKeys
    <3>2. Trimmed(env, "AZURE_TENANT_ID") # <<>>
      BY <1>1, <2>1, <3>1 DEF AcceptsServer, AcceptsBroker, requireEnv
    <3> QED
      BY <1>1, <3>2, TrimmedFacts
  <2>4. Trimmed(env, "AZURE_TENANT_ID") = tenant
    BY <2>3 DEF Trimmed, envString
  <2>5. entraAuthorityBase \o <<"/">> = <<"https://login.microsoftonline.com", "/">>
    <3>1. ASSUME NEW a, NEW b PROVE <<a>> \o <<b>> = <<a, b>>
      <4> DEFINE s == <<a>> \o <<b>>
                 t == <<a, b>>
      <4>1. s \in Seq({a, b}) /\ Len(s) = 2 /\ s[1] = a /\ s[2] = b
        OBVIOUS
      <4>2. t \in Seq({a, b}) /\ Len(t) = 2 /\ t[1] = a /\ t[2] = b
        OBVIOUS
      <4> HIDE DEF s, t
      <4>3. \A i \in 1 .. 2 : s[i] = t[i]
        BY <4>1, <4>2
      <4>4. s = t
        BY <4>1, <4>2, <4>3, SeqEqual
      <4> QED
        BY <4>4 DEF s, t
    <3> QED
      BY <3>1 DEF entraAuthorityBase
  <2>6. IssuerMeant = <<"https://login.microsoftonline.com", "/">> \o tenant \o <<"/v2.0">>
    BY <1>3, <1>7 DEF IssuerMeant
  <2> HIDE DEF tenant
  <2> QED
    BY <2>2, <2>4, <2>5, <2>6
<1> QED
  BY <1>2, <1>4, <1>5, <1>6, <1>7 DEF Named

LEMMA AudienceFacts == ASSUME Inv, Up, Gated PROVE cfg.resourceURI = AudienceMeant
<1>1. /\ AuthMode(env) \in {<<"bearer">>, <<"broker">>} /\ Texted(env) /\ AcceptsServer(env)
      /\ cfg.resourceURI = deriveProvider(env).resourceURI /\ cfg.resourceURI # <<>>
  BY GateSettings, ProviderSettings DEF Complete
<1>2. InBroker <=> AuthMode(env) = <<"broker">>
  <2>1. <<"bearer">> # <<"broker">>
    OBVIOUS
  <2> QED
    BY <1>1, <2>1, GateSettings
<1>3. <<"entra">> # <<"google">> /\ <<"generic">> # <<"entra">> /\ <<"generic">> # <<"google">>
  OBVIOUS
<1>4. AuthMode(env) = <<"broker">> =>
        /\ Provider(env) = NamedProvider(env)
        /\ Provider(env) \in {<<"entra">>, <<"google">>, <<"generic">>}
  BY <1>1 DEF AcceptsServer, AcceptsBroker, ProviderKeys, Provider
<1>5. CASE ~Named
  <2>1. Provider(env) = <<"generic">>
    BY <1>2, <1>4, <1>5 DEF Named, Provider
  <2>2. cfg.resourceURI = Trimmed(env, "MCP_RESOURCE_URI")
    BY <1>1, <1>3, <2>1 DEF deriveProvider, Explicit
  <2>3. "MCP_RESOURCE_URI" \in DOMAIN env
    BY <1>1, <2>2, TrimmedFacts
  <2> QED
    BY <1>5, <2>2, <2>3 DEF AudienceMeant, Trimmed, envString
<1>6. CASE Named
  <2>1. AuthMode(env) = <<"broker">> /\ Provider(env) \in {<<"entra">>, <<"google">>}
    BY <1>2, <1>4, <1>6 DEF Named
  <2>2. cfg.clientID = deriveProvider(env).clientID
    BY <2>1, GateSettings DEF Login
  <2>3. /\ cfg.resourceURI = TrimSpace(envString(env, "MCP_RESOURCE_URI", cfg.clientID))
        /\ TrimSpace(cfg.clientID) = cfg.clientID
    <3>1. CASE Provider(env) = <<"entra">>
      <4>1. deriveProvider(env) = deriveEntra(env)
        BY <3>1 DEF deriveProvider
      <4>2. deriveEntra(env).clientID = Trimmed(env, "AZURE_CLIENT_ID")
        BY DEF deriveEntra
      <4>3. deriveEntra(env).resourceURI =
              TrimSpace(envString(env, "MCP_RESOURCE_URI", Trimmed(env, "AZURE_CLIENT_ID")))
        BY DEF deriveEntra
      <4> QED
        BY <1>1, <2>2, <4>1, <4>2, <4>3, TrimmedFacts
    <3>2. CASE Provider(env) = <<"google">>
      <4>1. deriveProvider(env) = deriveGoogle(env)
        BY <1>3, <3>2 DEF deriveProvider
      <4>2. deriveGoogle(env).clientID = Trimmed(env, "GOOGLE_CLIENT_ID")
        BY DEF deriveGoogle
      <4>3. deriveGoogle(env).resourceURI =
              TrimSpace(envString(env, "MCP_RESOURCE_URI", Trimmed(env, "GOOGLE_CLIENT_ID")))
        BY DEF deriveGoogle
      <4> QED
        BY <1>1, <2>2, <4>1, <4>2, <4>3, TrimmedFacts
    <3> QED
      BY <2>1, <3>1, <3>2
  <2>4. CASE "MCP_RESOURCE_URI" \in DOMAIN env
    BY <2>3, <2>4 DEF AudienceMeant, envString
  <2>5. CASE "MCP_RESOURCE_URI" \notin DOMAIN env
    BY <1>6, <2>3, <2>5 DEF AudienceMeant, envString
  <2> QED
    BY <2>4, <2>5
<1> QED
  BY <1>5, <1>6

LEMMA PolicyFacts ==
  ASSUME Inv, Up, Gated
  PROVE  /\ cfg.requiredClaim = Trimmed(env, "OIDC_REQUIRED_CLAIM")
         /\ cfg.requiredClaim # <<>> => cfg.requiredValue = env["OIDC_REQUIRED_VALUE"]
<1>1. /\ cfg.requiredClaim = loadAccessPolicy(env).requiredClaim
      /\ cfg.requiredValue = loadAccessPolicy(env).requiredValue
      /\ AcceptsPolicy(env)
  BY GateSettings DEF Policy, AcceptsServer, AcceptsOIDC
<1>2. /\ loadAccessPolicy(env).requiredClaim = Trimmed(env, "OIDC_REQUIRED_CLAIM")
      /\ loadAccessPolicy(env).requiredValue = envString(env, "OIDC_REQUIRED_VALUE", <<>>)
  BY DEF loadAccessPolicy
<1>3. cfg.requiredClaim # <<>> => envString(env, "OIDC_REQUIRED_VALUE", <<>>) # <<>>
  BY <1>1, <1>2 DEF AcceptsPolicy
<1> QED
  BY <1>1, <1>2, <1>3 DEF envString

\* The text of a claim is a text, and only a claim that is there has one.
LEMMA ClaimFacts ==
  ASSUME NEW t \in Tokens, NEW c
  PROVE  /\ c \notin DOMAIN t.claims => "string" \notin DOMAIN Claim(t.claims, c)
                                        /\ "list" \notin DOMAIN Claim(t.claims, c)
         /\ c \in DOMAIN t.claims => Claim(t.claims, c) = t.claims[c]
         /\ \A text \in Strings(Claim(t.claims, c)) :
              /\ text \in Seq(ToSet(text)) /\ c \in DOMAIN t.claims
              /\ "string" \in DOMAIN t.claims[c] /\ text = t.claims[c].string
<1>1. c \notin DOMAIN t.claims => DOMAIN Claim(t.claims, c) = {"other"}
  BY DEF Claim
<1>2. "string" \notin {"other"} /\ "list" \notin {"other"}
  OBVIOUS
<1>3. c \in DOMAIN t.claims => Claim(t.claims, c) = t.claims[c]
  BY DEF Claim
<1>4. ASSUME NEW text \in Strings(Claim(t.claims, c))
      PROVE  /\ text \in Seq(ToSet(text)) /\ c \in DOMAIN t.claims
             /\ "string" \in DOMAIN t.claims[c] /\ text = t.claims[c].string
  <2>1. "string" \in DOMAIN Claim(t.claims, c) /\ text = Claim(t.claims, c).string
    BY <1>4 DEF Strings
  <2>2. c \in DOMAIN t.claims
    BY <1>1, <1>2, <2>1
  <2> QED
    BY <1>3, <2>1, <2>2, TextAssumption DEF IsText
<1> QED
  BY <1>1, <1>2, <1>3, <1>4

\* What accessAllowed lets through is what grants access.
LEMMA AccessFacts ==
  ASSUME NEW t \in Tokens, NEW claim, claim # <<>>, NEW value
  PROVE  accessAllowed(t.claims, claim, value)
           <=> claim \in DOMAIN t.claims /\ Grants(t.claims[claim], value)
<1> DEFINE v == Claim(t.claims, claim)
<1>1. accessAllowed(t.claims, claim, value)
        <=> \/ "string" \in DOMAIN v /\ value \in Fields(v.string)
            \/ "list" \in DOMAIN v /\ value \in v.list
  BY DEF accessAllowed
<1>2. CASE claim \notin DOMAIN t.claims
  BY <1>1, <1>2, ClaimFacts
<1>3. CASE claim \in DOMAIN t.claims
  <2>1. v = t.claims[claim]
    BY <1>3, ClaimFacts
  <2>2. "string" \in DOMAIN v => (value \in Fields(v.string) <=> StandsIn(value, v.string))
    <3>1. "string" \in DOMAIN v => v.string \in Seq(ToSet(v.string))
      BY <1>3, <2>1, TextAssumption DEF IsText
    <3> QED
      BY <3>1, FieldsAreWords
  <2> HIDE DEF v
  <2> QED
    BY <1>1, <1>3, <2>1, <2>2 DEF Grants
<1> QED
  BY <1>2, <1>3

LEMMA TextFacts ==
  ASSUME NEW R, NEW text \in Seq(R)
  PROVE  TrimSpace(text) # <<>> <=> ToSet(text) \ {Space} # {}
<1>1. TrimSpace(text) = <<>> <=> \A i \in 1 .. Len(text) : text[i] = Space
  BY TrimFacts
<1>2. DOMAIN text = 1 .. Len(text)
  OBVIOUS
<1> QED
  BY <1>1, <1>2 DEF ToSet

\* A token names somebody when one of the four claims is a text with more than blanks.
LEMMA NamedFacts ==
  ASSUME NEW t \in Tokens
  PROVE  UserID(t) # <<>> <=>
           \E c \in DOMAIN t.claims :
             /\ c \in {NamingClaims(cfg.identityClaim)[i] : i \in 1..4}
             /\ "string" \in DOMAIN t.claims[c] /\ ToSet(t.claims[c].string) \ {Space} # {}
<1> DEFINE four == {NamingClaims(cfg.identityClaim)[i] : i \in 1 .. 4}
           names(c) == /\ c \in four
                       /\ "string" \in DOMAIN t.claims[c] /\ ToSet(t.claims[c].string) \ {Space} # {}
<1>1. ASSUME UserID(t) # <<>> PROVE \E c \in DOMAIN t.claims : names(c)
  <2>1. PICK i \in 1 .. 4 :
          \E text \in Strings(Claim(t.claims, NamingClaims(cfg.identityClaim)[i])) :
            UserID(t) = TrimSpace(text)
    BY <1>1, IdentityFacts DEF UserID
  <2> DEFINE c == NamingClaims(cfg.identityClaim)[i]
  <2>2. PICK text \in Strings(Claim(t.claims, c)) : UserID(t) = TrimSpace(text)
    BY <2>1
  <2>3. c \in four
    OBVIOUS
  <2> HIDE DEF c, four
  <2>4. /\ text \in Seq(ToSet(text)) /\ c \in DOMAIN t.claims
        /\ "string" \in DOMAIN t.claims[c] /\ text = t.claims[c].string
    BY ClaimFacts
  <2>5. ToSet(text) \ {Space} # {}
    BY <1>1, <2>2, <2>4, TextFacts
  <2> QED
    BY <2>3, <2>4, <2>5
<1>2. ASSUME NEW c \in DOMAIN t.claims, names(c) PROVE UserID(t) # <<>>
  <2>1. PICK i \in 1 .. 4 : c = NamingClaims(cfg.identityClaim)[i]
    BY <1>2
  <2> DEFINE text == t.claims[c].string
  <2>2. text \in Seq(ToSet(text)) /\ text \in Strings(Claim(t.claims, c))
    BY <1>2, ClaimFacts, TextAssumption DEF IsText, Strings
  <2>3. ToSet(text) \ {Space} # {}
    BY <1>2
  <2> HIDE DEF text
  <2>4. TrimSpace(text) # <<>>
    BY <2>2, <2>3, TextFacts
  <2> QED
    BY <2>1, <2>2, <2>4, IdentityFacts DEF UserID
<1> HIDE DEF names
<1>3. UserID(t) # <<>> <=> \E c \in DOMAIN t.claims : names(c)
  BY <1>1, <1>2
<1> QED
  BY <1>3 DEF names

\* The conditions of Entitled, read off the settings.
LEMMA EntitledFacts ==
  ASSUME Inv, Up, Gated, NEW t \in Tokens
  PROVE  Entitled(t) <=>
           /\ t.iss = cfg.issuer /\ cfg.resourceURI \in t.aud /\ now <= t.exp
           /\ accessAllowed(t.claims, cfg.requiredClaim, cfg.requiredValue)
           /\ UserID(t) # <<>>
<1> DEFINE claim == Trimmed(env, "OIDC_REQUIRED_CLAIM")
           granted == claim # <<>> =>
                        claim \in DOMAIN t.claims /\ Grants(t.claims[claim], env["OIDC_REQUIRED_VALUE"])
           named == \E c \in DOMAIN t.claims :
                      /\ c \in {NamingClaims(cfg.identityClaim)[i] : i \in 1..4}
                      /\ "string" \in DOMAIN t.claims[c] /\ ToSet(t.claims[c].string) \ {Space} # {}
<1>1. Entitled(t) <=>
        /\ t.iss = IssuerMeant /\ AudienceMeant \in t.aud /\ now <= t.exp
        /\ granted /\ named
  BY Zenon DEF Entitled
<1>2. named <=> UserID(t) # <<>>
  BY NamedFacts
<1>3. granted <=> accessAllowed(t.claims, cfg.requiredClaim, cfg.requiredValue)
  <2>1. CASE claim = <<>>
    <3>1. accessAllowed(t.claims, cfg.requiredClaim, cfg.requiredValue)
      BY <2>1, PolicyFacts DEF accessAllowed
    <3> QED
      BY <2>1, <3>1
  <2>2. CASE claim # <<>>
    <3>1. cfg.requiredClaim = claim /\ cfg.requiredValue = env["OIDC_REQUIRED_VALUE"]
      BY <2>2, PolicyFacts
    <3> HIDE DEF claim
    <3>2. accessAllowed(t.claims, claim, env["OIDC_REQUIRED_VALUE"])
            <=> claim \in DOMAIN t.claims /\ Grants(t.claims[claim], env["OIDC_REQUIRED_VALUE"])
      BY <2>2, AccessFacts
    <3> QED
      BY <2>2, <3>1, <3>2
  <2> QED
    BY <2>1, <2>2
<1> HIDE DEF granted, named
<1>4. cfg.issuer = IssuerMeant /\ cfg.resourceURI = AudienceMeant
  BY IssuerFacts, AudienceFacts
<1> QED
  BY <1>1, <1>2, <1>3, <1>4, Zenon

\* Only tokens that meet every condition the operator's environment sets pass the gate
\* (Verify, accessAllowed and the settings of config.go).
THEOREM OnlyEntitledPass == Spec => []OnlyEntitledAreServed
<1>1. ASSUME Inv, Up, Gated, NEW t \in Tokens, Verify(t)
      PROVE  Entitled(t) /\ t.key \in Keys
  <2>1. /\ t.iss = cfg.issuer /\ now <= t.exp /\ t.key \in KeysFor(t)
        /\ cfg.resourceURI \in t.aud
        /\ accessAllowed(t.claims, cfg.requiredClaim, cfg.requiredValue)
        /\ UserID(t) # <<>>
    BY <1>1 DEF Verify, SignatureHolds
  <2>2. Entitled(t)
    BY <1>1, <2>1, EntitledFacts
  <2>3. t.key \in Keys
    BY <1>1, <2>1, KeysStayKeys
  <2> QED
    BY <2>2, <2>3
<1>2. Inv => OnlyEntitledAreServed
  BY <1>1 DEF OnlyEntitledAreServed
<1> QED
  BY <1>2, InvHolds, PTL

\* And all of them do, at once when signed with the key the issuer publishes, however
\* old the keys are that the verifier holds (go-oidc's key set, Verify).
THEOREM EntitledPass == Spec => []EntitledAreServed
<1>1. ASSUME Inv, Up, Gated, NEW t \in Tokens, Entitled(t), t.key = published
      PROVE  Verify(t)
  <2>1. /\ t.iss = cfg.issuer /\ now <= t.exp
        /\ cfg.resourceURI \in t.aud
        /\ accessAllowed(t.claims, cfg.requiredClaim, cfg.requiredValue)
        /\ UserID(t) # <<>>
    BY <1>1, EntitledFacts
  <2>2. t.key \in KeysFor(t)
    BY <1>1, <2>1 DEF KeysFor
  <2> QED
    BY <2>1, <2>2 DEF Verify, SignatureHolds
<1>2. Inv => EntitledAreServed
  BY <1>1 DEF EntitledAreServed
<1> QED
  BY <1>2, InvHolds, PTL
=============================================================================

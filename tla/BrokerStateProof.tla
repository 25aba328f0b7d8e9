-------------------------- MODULE BrokerStateProof --------------------------
(***************************************************************************)
(* What the signed state and the redirect guard of BrokerProxy guarantee   *)
(* for any clock steps, restarts and hosts.                                *)
(***************************************************************************)
EXTENDS BrokerProxyProof, SequenceTheorems

(***************************************************************************)
(* The redirect guard.                                                     *)
(***************************************************************************)

\* What IsSuffix says of the elements.
LEMMA SuffixElements ==
  ASSUME NEW S, NEW s \in Seq(S), NEW t \in Seq(S), IsSuffix(s, t)
  PROVE  /\ Len(s) <= Len(t)
         /\ \A i \in 1 .. Len(s) : t[Len(t) - Len(s) + i] = s[i]
<1> DEFINE rs == Reverse(s)
           rt == Reverse(t)
<1>1. Len(s) \in Nat /\ Len(t) \in Nat
  OBVIOUS
<1>2. rs \in Seq(S) /\ Len(rs) = Len(s) /\ \A i \in 1 .. Len(s) : rs[i] = s[Len(s) - i + 1]
  BY <1>1 DEF Reverse
<1>3. rt \in Seq(S) /\ Len(rt) = Len(t) /\ \A i \in 1 .. Len(t) : rt[i] = t[Len(t) - i + 1]
  BY <1>1 DEF Reverse
<1> HIDE DEF rs, rt
<1>4. Len(rs) <= Len(rt) /\ SubSeq(rs, 1, Len(rs)) = SubSeq(rt, 1, Len(rs))
  BY DEF IsSuffix, IsPrefix, rs, rt
<1>5. \A i \in 1 .. Len(s) : rs[i] = rt[i]
  <2> SUFFICES ASSUME NEW i \in 1 .. Len(s) PROVE rs[i] = rt[i]
    OBVIOUS
  <2>1. SubSeq(rs, 1, Len(rs))[i] = rs[i] /\ SubSeq(rt, 1, Len(rs))[i] = rt[i]
    BY <1>1, <1>2, <1>3, <1>4
  <2> QED
    BY <2>1, <1>4
<1>6. ASSUME NEW i \in 1 .. Len(s)
      PROVE  t[Len(t) - Len(s) + i] = s[i]
  <2> DEFINE j == Len(s) - i + 1
  <2>1. j \in 1 .. Len(s) /\ j \in 1 .. Len(t)
    BY <1>1, <1>2, <1>3, <1>4
  <2> HIDE DEF j
  <2>2. rs[j] = s[Len(s) - j + 1] /\ rt[j] = t[Len(t) - j + 1] /\ rs[j] = rt[j]
    BY <2>1, <1>2, <1>3, <1>5
  <2>3. Len(s) - j + 1 = i /\ Len(t) - j + 1 = Len(t) - Len(s) + i
    BY <1>1 DEF j
  <2> QED
    BY <2>2, <2>3
<1> QED
  BY <1>2, <1>3, <1>4, <1>6

\* A suffix that begins with its dot ends inside the domain (HostAllowed).
LEMMA DotSuffixIsInside ==
  ASSUME NEW host \in Seq(STRING), NEW domain \in Seq(STRING),
         IsSuffix(<<".">> \o domain, host)
  PROVE  Inside(host, domain)
<1> DEFINE S == STRING \union {"."}
           s == <<".">> \o domain
           at == Len(host) - Len(domain)
<1>0. host \in Seq(S) /\ domain \in Seq(S) /\ "." \in S
  OBVIOUS
<1> HIDE DEF S
<1>1. /\ s \in Seq(S) /\ Len(s) = Len(domain) + 1 /\ s[1] = "."
      /\ \A i \in 1 .. Len(domain) : s[i + 1] = domain[i]
  <2>1. /\ <<".">> \in Seq(S) /\ Len(<<".">>) = 1
        /\ <<".">>[1] = "." /\ Len(domain) \in Nat
    <3>1. <<".">> \in Seq(S)
      BY <1>0
    <3>2. Len(<<".">>) = 1
      OBVIOUS
    <3>3. <<".">>[1] = "."
      OBVIOUS
    <3>4. Len(domain) \in Nat
      BY <1>0
    <3> QED
      BY <3>1, <3>2, <3>3, <3>4
  <2>2. s \in Seq(S) /\ Len(s) = Len(domain) + 1
    BY <2>1, <1>0, ConcatProperties
  <2>3. \A i \in 1 .. Len(domain) + 1 : s[i] = IF i <= 1 THEN <<".">>[i] ELSE domain[i - 1]
    BY <2>1, <1>0, ConcatProperties
  <2> HIDE DEF s
  <2>4. s[1] = "."
    BY <2>1, <2>3
  <2>5. ASSUME NEW i \in 1 .. Len(domain) PROVE s[i + 1] = domain[i]
    <3>1. i + 1 \in 1 .. Len(domain) + 1 /\ ~(i + 1 <= 1) /\ (i + 1) - 1 = i
      BY <2>1
    <3> QED
      BY <3>1, <2>3
  <2> QED
    BY <2>2, <2>4, <2>5
<1> HIDE DEF s
<1>2. /\ Len(s) <= Len(host)
      /\ \A i \in 1 .. Len(s) : host[Len(host) - Len(s) + i] = s[i]
  BY <1>0, <1>1, SuffixElements DEF s
<1>3. Len(host) \in Nat /\ Len(domain) \in Nat
  BY <1>0
<1>4. at \in 1 .. Len(host) /\ host[at] = "."
  <2>1. 1 \in 1 .. Len(s) /\ Len(host) - Len(s) + 1 = at
    BY <1>1, <1>3
  <2> QED
    BY <2>1, <1>1, <1>2, <1>3
<1>5. SubSeq(host, at + 1, Len(host)) = domain
  <2> DEFINE tail == SubSeq(host, at + 1, Len(host))
  <2>1. tail \in Seq(S) /\ Len(tail) = Len(domain)
        /\ \A i \in 1 .. Len(domain) : tail[i] = host[at + i]
    BY <1>0, <1>3, <1>4
  <2>2. ASSUME NEW i \in 1 .. Len(domain) PROVE host[at + i] = domain[i]
    <3>1. i + 1 \in 1 .. Len(s) /\ Len(host) - Len(s) + (i + 1) = at + i
      BY <1>1, <1>3
    <3> QED
      BY <3>1, <1>1, <1>2
  <2> HIDE DEF tail
  <2>3. tail = domain
    BY <1>0, <2>1, <2>2
  <2> QED
    BY <2>3 DEF tail
<1>6. at \in DOMAIN host
  BY <1>0, <1>3, <1>4
<1> HIDE DEF at
<1> QED
  BY <1>4, <1>5, <1>6 DEF Inside

\* What the guard lets through is a safe target (validateClientRedirect).
LEMMA PermittedIsSafe ==
  ASSUME NEW u \in URI, PermittedRedirect(u)
  PROVE  SafeTarget(u)
<1>1. u.host \in Seq(STRING)
  BY DEF URI
<1>2. ASSUME HostAllowed(u.host)
      PROVE  \E d \in AllowedRedirectHosts : Inside(u.host, d)
  <2>1. PICK d \in AllowedRedirectHosts : u.host = d \/ IsSuffix(<<".">> \o d, u.host)
    BY <1>2 DEF HostAllowed
  <2>2. d \in Seq(STRING)
    BY HostAssumption
  <2>3. Inside(u.host, d)
    BY <1>1, <2>1, <2>2, DotSuffixIsInside DEF Inside
  <2> QED
    BY <2>3
<1> QED
  BY <1>2 DEF PermittedRedirect, IsLoopback, SafeTarget

(***************************************************************************)
(* The signed state.                                                       *)
(***************************************************************************)

LEMMA StateInvInit == Init => StateInv
BY DEF Init, StateInv, SignedByItsProcess, NoncesAreFresh, AcceptedInTime

\* What the parts of a blob are.
LEMMA BlobTypes ==
  ASSUME TypeOK, NEW a \in upAuths
  PROVE  /\ a.issued \in Nat /\ a.off \in Int /\ a.by \in Nat /\ a.blob.data.timestamp \in Int
         /\ a.blob.data.redirect \in URI /\ a.blob.data.nonce \in Nonces
BY DEF TypeOK, UpAuth, Blob, Data

\* A blob signed now carries the running process's key and the wall clock's time, and
\* a nonce no other blob has.
LEMMA SignedNow ==
  ASSUME TypeOK, NEW f \in Flows, NEW n \in Nonces \ Drawn,
         req[f] # NoRequest, AuthorizeAccepts(req[f])
  PROVE  LET a == UpstreamRedirect(f, n) IN
         /\ a.blob.sig = StateMAC(a.by, a.blob.data)
         /\ a.issued = uptime /\ a.blob.data.timestamp = a.issued + a.off
         /\ PermittedRedirect(a.blob.data.redirect)
         /\ a.blob.data.nonce = n
<1> DEFINE a == UpstreamRedirect(f, n)
<1>1. /\ a.blob.data = StateData(req[f], n) /\ a.blob.sig = StateMAC(key, StateData(req[f], n))
      /\ a.issued = uptime /\ a.by = key
  BY DEF UpstreamRedirect, SignState
<1>2. /\ StateData(req[f], n).timestamp = uptime + offset
      /\ StateData(req[f], n).redirect = req[f].redirect
      /\ StateData(req[f], n).nonce = n
  BY DEF StateData, now
<1>4. a.off = offset
  BY DEF UpstreamRedirect
<1> HIDE DEF a
<1>5. a.blob.data.timestamp = a.issued + a.off
  BY <1>1, <1>2, <1>4
<1>6. PermittedRedirect(a.blob.data.redirect)
  BY <1>1, <1>2 DEF AuthorizeAccepts
<1> QED
  BY <1>1, <1>2, <1>5, <1>6 DEF a

\* A callback is accepted by the process that signed its state, in time by its clock.
LEMMA AcceptedNow ==
  ASSUME TypeOK, Inv, StateInv, NEW c \in callbacks, CallbackAccepts(c)
  PROVE  \E a \in upAuths :
           /\ c.code = CodeFor(a) /\ key = a.by /\ c.blob = a.blob
           /\ uptime + offset - a.blob.data.timestamp \in -ClockSkew .. MaxStateAge
<1>1. PICK a \in upAuths : c.blob = a.blob /\ c.code = CodeFor(a)
  BY DEF Inv, CallbackOfARedirect, CallbackAccepts
<1>2. a.blob.sig = <<a.by, a.blob.data>> /\ a.blob.sig = <<key, a.blob.data>>
  BY <1>1 DEF StateInv, SignedByItsProcess, CallbackAccepts, VerifiedState, StateMAC
<1>3. key = a.by
  BY <1>2
<1>4. uptime + offset - a.blob.data.timestamp \in -ClockSkew .. MaxStateAge
  <2>1. Fresh(a.blob.data.timestamp)
    BY <1>1 DEF CallbackAccepts, VerifiedState
  <2>2. /\ a.blob.data.timestamp \in Int /\ uptime \in Int /\ offset \in Int
        /\ MaxStateAge \in Int /\ ClockSkew \in Int
    BY BlobTypes, ClockAssumption DEF TypeOK
  <2> DEFINE stamp == a.blob.data.timestamp
  <2> HIDE DEF stamp
  <2>3. Fresh(stamp) /\ stamp \in Int
    BY <2>1, <2>2 DEF stamp
  <2>4. uptime + offset - stamp \in -ClockSkew .. MaxStateAge
    BY <2>2, <2>3 DEF Fresh, now
  <2> QED
    BY <2>4 DEF stamp
<1> QED
  BY <1>1, <1>3, <1>4

LEMMA StateInvStep == TypeOK /\ Inv /\ StateInv /\ [Next]_vars => StateInv'
<1> SUFFICES ASSUME TypeOK, Inv, StateInv, [Next]_vars PROVE StateInv'
  OBVIOUS
<1> USE DEF clockVars, browserVars, tokenVars
<1>1. ASSUME NEW f \in Flows, HandleAuthorizeAccept(f) PROVE StateInv'
  <2>1. PICK n \in Nonces \ Drawn : upAuths' = upAuths \union {UpstreamRedirect(f, n)}
    BY <1>1 DEF HandleAuthorizeAccept
  <2> DEFINE new == UpstreamRedirect(f, n)
  <2>2. /\ new.blob.sig = StateMAC(new.by, new.blob.data)
        /\ new.issued = uptime /\ new.blob.data.timestamp = new.issued + new.off
        /\ PermittedRedirect(new.blob.data.redirect)
        /\ new.blob.data.nonce = n
    BY <1>1, SignedNow DEF HandleAuthorizeAccept
  <2> HIDE DEF new
  <2>3. SignedByItsProcess'
    BY <1>1, <2>1, <2>2 DEF new, HandleAuthorizeAccept, StateInv, SignedByItsProcess, TypeOK
  <2>4. \A a \in upAuths : a.blob.data.nonce # n
    BY DEF Drawn
  <2>5. NoncesAreFresh'
    BY <2>1, <2>2, <2>4 DEF new, StateInv, NoncesAreFresh
  <2>6. AcceptedInTime'
    BY <1>1, <2>1 DEF HandleAuthorizeAccept, StateInv, AcceptedInTime, CodeFor
  <2> QED
    BY <2>3, <2>5, <2>6 DEF StateInv
<1>2. ASSUME NEW c \in callbacks, HandleCallbackAccept(c) PROVE StateInv'
  <2>1. PICK a \in upAuths :
          /\ c.code = CodeFor(a) /\ key = a.by /\ c.blob = a.blob
          /\ uptime + offset - a.blob.data.timestamp \in -ClockSkew .. MaxStateAge
    BY <1>2, AcceptedNow DEF HandleCallbackAccept
  <2> DEFINE new == ClientRedirect(c)
  <2>2. /\ new.code = CodeFor(a) /\ new.by = a.by /\ new.dest = a.blob.data.redirect
        /\ new.at + new.off - a.blob.data.timestamp \in -ClockSkew .. MaxStateAge
    BY <2>1 DEF ClientRedirect
  <2> HIDE DEF new
  <2>4. redirects' = redirects \union {new} /\ upAuths' = upAuths
    BY <1>2 DEF HandleCallbackAccept, new
  <2>5. AcceptedInTime'
    BY <2>2, <2>4 DEF StateInv, AcceptedInTime, CodeFor
  <2>6. SignedByItsProcess' /\ NoncesAreFresh'
    BY <1>2 DEF HandleCallbackAccept, StateInv, SignedByItsProcess, NoncesAreFresh
  <2> QED
    BY <2>5, <2>6 DEF StateInv
<1>3. ASSUME UNCHANGED <<upAuths, redirects>>, uptime' \in Nat, uptime <= uptime'
      PROVE  StateInv'
  <2>1. \A a \in upAuths : a.issued <= uptime'
    BY <1>3, BlobTypes DEF StateInv, SignedByItsProcess, TypeOK
  <2>2. SignedByItsProcess'
    BY <1>3, <2>1 DEF StateInv, SignedByItsProcess
  <2>3. NoncesAreFresh' /\ AcceptedInTime'
    BY <1>3 DEF StateInv, NoncesAreFresh, AcceptedInTime, CodeFor
  <2> QED
    BY <2>2, <2>3 DEF StateInv
<1>4. uptime \in Nat
  BY DEF TypeOK
<1>5. ASSUME NEW f \in Flows, StartLogin(f) \/ HandleAuthorizeRefuse(f) \/ ClientReceives(f)
      PROVE  StateInv'
  BY <1>3, <1>4, <1>5 DEF StartLogin, HandleAuthorizeRefuse, ClientReceives
<1>6. ASSUME NEW a \in upAuths, Consent(a) \/ Deny(a) PROVE StateInv'
  BY <1>3, <1>4, <1>6 DEF Consent, Deny
<1>7. ASSUME NEW c \in callbacks, HandleCallbackRefuse(c) PROVE StateInv'
  BY <1>3, <1>4, <1>7 DEF HandleCallbackRefuse
<1>8. ASSUME NEW c \in Calls,
             \/ HandleTokenSend(c) \/ HandleTokenRefuse(c)
             \/ UpstreamGrant(c) \/ UpstreamReject(c)
             \/ HandleTokenRelay(c) \/ HandleTokenWithhold(c)
             \/ HandleTokenTimeout(c) \/ ClientHangsUp(c)
      PROVE  StateInv'
  BY <1>3, <1>4, <1>8
     DEF HandleTokenSend, HandleTokenRefuse, UpstreamGrant, UpstreamReject, HandleTokenRelay,
         HandleTokenWithhold, HandleTokenTimeout, ClientHangsUp
<1>9. CASE Restart \/ StepClock \/ UNCHANGED vars
  BY <1>3, <1>4, <1>9 DEF Restart, StepClock, vars
<1>10. CASE Tick
  BY <1>3, <1>4, <1>10 DEF Tick
<1> QED
  BY <1>1, <1>2, <1>5, <1>6, <1>7, <1>8, <1>9, <1>10 DEF Next

\* Each state blob is signed once, by one process, for a permitted redirect, and a
\* code is forwarded only with it, by that process and in time (signState, verifyState).
THEOREM StateInvHolds == Spec => []StateInv
BY InvInit, InvStep, TypeInit, TypeStep, StateInvInit, StateInvStep, PTL DEF Spec

\* A code leaves only for an allowed host (validateClientRedirect).
THEOREM CodesStayInside == Spec => []CodesLandOnPermittedHosts
<1>1. TypeOK /\ StateInv => CodesLandOnPermittedHosts
  <2> SUFFICES ASSUME TypeOK, StateInv, NEW r \in redirects PROVE SafeTarget(r.dest)
    BY DEF CodesLandOnPermittedHosts
  <2>1. PICK a \in upAuths : r.dest = a.blob.data.redirect
    BY DEF StateInv, AcceptedInTime
  <2>2. PermittedRedirect(r.dest)
    BY <2>1 DEF StateInv, SignedByItsProcess
  <2>3. r.dest \in URI
    BY <2>1, BlobTypes
  <2> QED
    BY <2>2, <2>3, PermittedIsSafe
<1> QED
  BY <1>1, TypeCorrect, StateInvHolds, PTL

\* A signed state is good for its own process and for maxStateAge of real time, plus
\* what the wall clock was set back between signing and verifying or minus what it
\* was set forward (verifyState).
THEOREM StatesExpire == Spec => []StateOutlivesNothing
<1>1. TypeOK /\ StateInv => StateOutlivesNothing
  <2> SUFFICES ASSUME TypeOK, StateInv, NEW r \in redirects, NEW a \in upAuths,
                      a.blob.data.nonce = r.code.nonce
               PROVE  /\ a.by = r.by
                      /\ r.at - a.issued <= MaxStateAge + (a.off - r.off)
                      /\ (r.at + r.off) - (a.issued + a.off) >= -ClockSkew
    BY DEF StateOutlivesNothing
  <2>1. PICK b \in upAuths :
          /\ r.code = CodeFor(b) /\ r.by = b.by
          /\ r.at + r.off - b.blob.data.timestamp \in -ClockSkew .. MaxStateAge
    BY DEF StateInv, AcceptedInTime
  <2>2. b = a
    BY <2>1 DEF CodeFor, StateInv, NoncesAreFresh
  <2>3. r.at + r.off - a.blob.data.timestamp \in -ClockSkew .. MaxStateAge
    BY <2>1, <2>2
  <2>4. a.blob.data.timestamp = a.issued + a.off
    BY DEF StateInv, SignedByItsProcess
  <2>5. /\ r.at \in Int /\ r.off \in Int /\ a.issued \in Int /\ a.off \in Int
        /\ MaxStateAge \in Int /\ ClockSkew \in Int
    BY BlobTypes, ClockAssumption DEF TypeOK, ToClient
  <2>6. /\ r.at - a.issued <= MaxStateAge + (a.off - r.off)
        /\ (r.at + r.off) - (a.issued + a.off) >= -ClockSkew
    BY <2>3, <2>4, <2>5
  <2> QED
    BY <2>1, <2>2, <2>6
<1> QED
  BY <1>1, TypeCorrect, StateInvHolds, PTL

\* An approval that comes back in time is accepted although the clock was set back by
\* up to clockSkew (verifyState).
THEOREM SkewIsHarmless == Spec => []SkewIsTolerated
<1>1. TypeOK /\ StateInv => SkewIsTolerated
  <2> SUFFICES ASSUME TypeOK, StateInv, NEW c \in callbacks, NEW a \in upAuths,
                      a.blob = c.blob, c.code # NoCode, a.by = key,
                      uptime - a.issued <= MaxStateAge,
                      offset \in (a.off - ClockSkew) .. a.off
               PROVE  CallbackAccepts(c)
    BY DEF SkewIsTolerated
  <2>1. /\ c.blob.sig = StateMAC(key, c.blob.data)
        /\ PermittedRedirect(c.blob.data.redirect)
        /\ a.issued <= uptime /\ a.blob.data.timestamp = a.issued + a.off
    BY DEF StateInv, SignedByItsProcess
  <2>2. /\ a.issued \in Int /\ a.off \in Int /\ a.blob.data.timestamp \in Int /\ uptime \in Int /\ offset \in Int
        /\ MaxStateAge \in Int /\ ClockSkew \in Int
    BY BlobTypes, ClockAssumption DEF TypeOK
  <2>3. /\ uptime + offset - a.blob.data.timestamp <= MaxStateAge
        /\ uptime + offset - a.blob.data.timestamp >= -ClockSkew
    BY <2>1, <2>2
  <2>4. Fresh(c.blob.data.timestamp)
    BY <2>2, <2>3 DEF Fresh, now
  <2> QED
    BY <2>1, <2>4 DEF CallbackAccepts, VerifiedState
<1> QED
  BY <1>1, TypeCorrect, StateInvHolds, PTL
=============================================================================

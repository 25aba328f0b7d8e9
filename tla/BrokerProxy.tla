----------------------------- MODULE BrokerProxy -----------------------------
(***************************************************************************)
(* The interactive OAuth broker of internal/auth: /oauth/authorize,        *)
(* /oauth/callback and /oauth/token, between MCP clients, their browsers   *)
(* and the upstream identity provider (IdP).                               *)
(*                                                                         *)
(* The broker stores nothing about a login.  What it must remember of an   *)
(* authorize request travels through the browser and the IdP in a `state`  *)
(* blob under an HMAC whose key lives and dies with the process.           *)
(*                                                                         *)
(* Messages that travel through a browser are sets that only grow: any of  *)
(* them may be lost, repeated, delayed or overtaken.  A token call is a    *)
(* direct request and is kept per call.  The clients, the users and the    *)
(* IdP are the environment.                                                *)
(***************************************************************************)
EXTENDS Integers, Sequences, SequencesExt

CONSTANTS
  Flows,                \* logins; the name also stands for its PKCE challenge
  Tries,                \* token calls one login's client may make
  Requests,             \* authorize requests a client may open
  TokenGrants,          \* grant types a client may post
  Nonces,               \* random nonces signState may draw
  LoopbackHosts,        \* localhost, 127.0.0.1, ::1
  AllowedRedirectHosts, \* OIDC_ALLOWED_REDIRECT_HOSTS
  NoChallenge,          \* an empty code_challenge, code_verifier
  NoCode,               \* an error, or a missing or oversized code
  NoToken,              \* no refresh token
  NoRequest, NoForm, NoAnswer,
  MaxStateAge,          \* maxStateAge, in ticks
  ClockSkew,            \* clockSkew, in ticks
  Offsets,              \* how far the wall clock may be off real time
  MaxUptime,            \* bound: real time explored, in ticks
  MaxKey,               \* bound: starts of the broker explored
  Faults                \* which of FaultNames may happen

\* A host is a sequence of name parts with "." among them, so that
\* "evil" next to "example" is a label of its own.
URI == [scheme : STRING, host : Seq(STRING), fragment : BOOLEAN]

FaultNames == {"reload", "deny", "verb", "restart", "timeout", "hangup", "fail", "body"}

ASSUME RequestAssumption ==
  Requests \subseteq [verb : STRING, redirect : URI, state : STRING, pkce : STRING]
ASSUME ClockAssumption ==
  /\ MaxStateAge \in Nat /\ ClockSkew \in Nat
  /\ MaxUptime \in Nat /\ MaxKey \in Nat
  /\ Offsets \subseteq Int /\ 0 \in Offsets
ASSUME HostAssumption == AllowedRedirectHosts \subseteq Seq(STRING)
ASSUME NullAssumption ==
  /\ NoChallenge \notin Flows
  /\ NoRequest \notin Requests
ASSUME FaultAssumption == Faults \subseteq FaultNames

VARIABLES
  uptime,     \* real time, in ticks
  offset,     \* wall clock minus real time
  key,        \* the running process's state key: fresh at every start
  req,        \* req[f]: the authorize request of f's client
  refused,    \* logins shown an error page by HandleAuthorize
  upAuths,    \* authorize redirects sent to the upstream
  callbacks,  \* redirects the upstream sent to /oauth/callback
  turnedAway, \* callbacks answered with an error page
  redirects,  \* redirects HandleCallback sent to clients
  code,       \* code[f]: the authorization code f's client took
  handler,    \* handler[c]: the handler of token call c
  form,       \* form[c]: what HandleToken sent upstream for c
  answer,     \* answer[c]: what the upstream answered to c
  redeemed    \* codes the upstream has exchanged for tokens

clockVars   == <<uptime, offset>>
browserVars == <<req, refused, upAuths, callbacks, turnedAway, redirects, code>>
tokenVars   == <<handler, form, answer, redeemed>>
vars        == <<clockVars, key, browserVars, tokenVars>>

Calls == Flows \X Tries
now   == uptime + offset          \* time.Now().Unix()

(***************************************************************************)
(* What the broker advertises (RFC 8414 metadata).                         *)
(***************************************************************************)
Metadata == [grants  |-> {"authorization_code", "refresh_token"},
             methods |-> {"S256"}]

\* The one redirect URI registered upstream, under MCP_PUBLIC_URL.
FixedCallback == "/oauth/callback"

(***************************************************************************)
(* The redirect guard.                                                     *)
(***************************************************************************)
IsLoopback(host) == host \in LoopbackHosts

\* A suffix without its dot: a label that merely ends like the domain.
HostAllowedBareSuffix(host) ==
  \E suffix \in AllowedRedirectHosts : IsSuffix(suffix, host)

HostAllowed(host) ==
  \E suffix \in AllowedRedirectHosts :
    host = suffix \/ IsSuffix(<<".">> \o suffix, host)

\* validateClientRedirect; a missing or unparseable URI has the scheme "".
PermittedRedirect(u) ==
  /\ u.scheme \in {"http", "https"}
  /\ ~u.fragment
  /\ u.scheme = "http" => IsLoopback(u.host)
  /\ IsLoopback(u.host) \/ HostAllowed(u.host)

(***************************************************************************)
(* The signed state.                                                       *)
(***************************************************************************)
\* The client's state left out of the signed blob.
StateDataWithoutState(r, n) ==
  [redirect |-> r.redirect, state |-> "", nonce |-> n, timestamp |-> now]

StateData(r, n) ==
  [redirect |-> r.redirect, state |-> r.state, nonce |-> n, timestamp |-> now]

\* A MAC tells apart the key and every field it covers.
StateMAC(k, d) == <<k, d>>

SignState(r, n) ==
  [data |-> StateData(r, n), sig |-> StateMAC(key, StateData(r, n))]

\* A timestamp in the future never accepted; one of any age accepted.
FreshNoSkew(timestamp) ==
  /\ now - timestamp <= MaxStateAge
  /\ now - timestamp >= 0

FreshAnyAge(timestamp) == now - timestamp >= -ClockSkew

Fresh(timestamp) ==
  /\ now - timestamp <= MaxStateAge
  /\ now - timestamp >= -ClockSkew


VerifiedState(b) == b.sig = StateMAC(key, b.data) /\ Fresh(b.data.timestamp)

(***************************************************************************)
(* The authorize endpoint.                                                 *)
(***************************************************************************)
\* The redirect left to the callback to check.
AuthorizeAcceptsAnywhere(r) == r.verb = "GET" /\ r.pkce = "S256"

AuthorizeAccepts(r) ==
  /\ r.verb = "GET"
  /\ PermittedRedirect(r.redirect)
  /\ r.pkce = "S256"

\* The nonces signState has drawn in the life of every process.
Drawn == {a.blob.data.nonce : a \in upAuths}

\* The client's challenge dropped.
UpstreamRedirectNoChallenge(f, n) ==
  [flow |-> f, challenge |-> NoChallenge, redirectUri |-> FixedCallback,
   blob |-> SignState(req[f], n), issued |-> uptime, off |-> offset, by |-> key]

\* The redirect HandleAuthorize answers with: the client's own challenge, the
\* broker's fixed callback.  `flow`, `issued`, `off` and `by` record whose request
\* it was, when, under which offset of the wall clock and by which process it was
\* signed: no program state.
UpstreamRedirect(f, n) ==
  [flow |-> f, challenge |-> f, redirectUri |-> FixedCallback,
   blob |-> SignState(req[f], n), issued |-> uptime, off |-> offset, by |-> key]

\* A client (external) starts its login: it has read the metadata, registered
\* (both replies are constants of the configuration) and opens its browser.
StartLogin(f) ==
  /\ req[f] = NoRequest
  /\ \E r \in Requests : req' = [req EXCEPT ![f] = r]
  /\ UNCHANGED <<clockVars, key, refused, upAuths, callbacks, turnedAway,
                 redirects, code, tokenVars>>

\* GET /oauth/authorize, any number of times when the user reloads the page.
HandleAuthorizeAccept(f) ==
  /\ req[f] # NoRequest
  /\ "reload" \in Faults \/ \A a \in upAuths : a.flow # f
  /\ AuthorizeAccepts(req[f])
  /\ \E n \in Nonces \ Drawn :
       upAuths' = upAuths \union {UpstreamRedirect(f, n)}
  /\ UNCHANGED <<clockVars, key, req, refused, callbacks, turnedAway, redirects,
                 code, tokenVars>>

HandleAuthorizeRefuse(f) ==
  /\ req[f] # NoRequest
  /\ ~AuthorizeAccepts(req[f])
  /\ refused' = refused \union {f}
  /\ UNCHANGED <<clockVars, key, req, upAuths, callbacks, turnedAway, redirects,
                 code, tokenVars>>

(***************************************************************************)
(* The upstream's login page (external).  It answers an authorize redirect *)
(* once: with a code bound to the challenge and the redirect_uri, or with  *)
(* an error.                                                               *)
(***************************************************************************)
Answered(a) == \E c \in callbacks : c.blob = a.blob

CodeFor(a) == [flow |-> a.flow, challenge |-> a.challenge,
               redirectUri |-> a.redirectUri, nonce |-> a.blob.data.nonce]

Consent(a) ==
  /\ ~Answered(a)
  /\ callbacks' = callbacks \union {[code |-> CodeFor(a), blob |-> a.blob]}
  /\ UNCHANGED <<clockVars, key, req, refused, upAuths, turnedAway, redirects,
                 code, tokenVars>>

Deny(a) ==
  /\ "deny" \in Faults
  /\ ~Answered(a)
  /\ callbacks' = callbacks \union {[code |-> NoCode, blob |-> a.blob]}
  /\ UNCHANGED <<clockVars, key, req, refused, upAuths, turnedAway, redirects,
                 code, tokenVars>>

(***************************************************************************)
(* The callback endpoint.  The browser presents a callback any number of   *)
(* times, in any order with others.                                        *)
(***************************************************************************)
\* What a GET must carry.
CallbackAccepts(c) ==
  /\ c.code # NoCode
  /\ VerifiedState(c.blob)
  /\ PermittedRedirect(c.blob.data.redirect)

\* `at`, `off` and `by` record when, under which offset of the wall clock and by
\* which process it was answered.
ClientRedirect(c) ==
  [dest |-> c.blob.data.redirect, state |-> c.blob.data.state,
   code |-> c.code, at |-> uptime, off |-> offset, by |-> key]

\* The browser follows the upstream's redirect once, more often on a reload.
Presented(c) == "reload" \in Faults \/ \A r \in redirects : r.code # c.code

HandleCallbackAccept(c) ==
  /\ Presented(c)
  /\ CallbackAccepts(c)
  /\ redirects' = redirects \union {ClientRedirect(c)}
  /\ UNCHANGED <<clockVars, key, req, refused, upAuths, callbacks, turnedAway,
                 code, tokenVars>>

\* Another method than GET is refused whatever it carries.
HandleCallbackRefuse(c) ==
  /\ Presented(c)
  /\ ~CallbackAccepts(c) \/ "verb" \in Faults
  /\ turnedAway' = turnedAway \union {c}
  /\ UNCHANGED <<clockVars, key, req, refused, upAuths, callbacks, redirects,
                 code, tokenVars>>

\* A client (external) listens at its redirect URI for its own state and takes
\* the first code that arrives there.
ClientReceives(f) ==
  /\ code[f] = NoCode
  /\ \E r \in redirects :
       /\ req[f] # NoRequest
       /\ r.dest = req[f].redirect /\ r.state = req[f].state
       /\ code' = [code EXCEPT ![f] = r.code]
  /\ UNCHANGED <<clockVars, key, req, refused, upAuths, callbacks, turnedAway,
                 redirects, tokenVars>>

(***************************************************************************)
(* The token endpoint.                                                     *)
(***************************************************************************)
Waiting(f)   == \E t \in Tries : handler[<<f, t>>] = "waiting"
HasTokens(f) == \E t \in Tries :
  /\ handler[<<f, t>>] = "relayed"
  /\ answer[<<f, t>>].ok /\ answer[<<f, t>>].body = "plain"

\* What f's client (external) posts: its code with its verifier, its refresh
\* token once it has one, or another grant type altogether.
TokenRequest(f, g) ==
  [grant    |-> g,
   code     |-> IF g = "authorization_code" THEN code[f] ELSE NoCode,
   verifier |-> IF g = "authorization_code" THEN f ELSE NoChallenge,
   refresh  |-> IF g = "refresh_token" THEN f ELSE NoToken]

Posts(f, g) ==
  /\ g = "authorization_code" => code[f] # NoCode /\ ~HasTokens(f)
  /\ g = "refresh_token" => HasTokens(f)

GrantServed(g) == g \in {"authorization_code", "refresh_token"}

\* The refresh token forgotten; the redirect_uri of the authorize request not
\* repeated.
UpstreamFormNoRefresh(p) ==
  [grant |-> p.grant, code |-> p.code, verifier |-> p.verifier,
   redirectUri |-> FixedCallback]
UpstreamFormNoRedirect(p) ==
  [grant |-> p.grant, code |-> p.code, verifier |-> p.verifier,
   redirectUri |-> "", refresh |-> p.refresh]

\* The form HandleToken posts upstream with the broker's client_id and secret.
UpstreamForm(p) ==
  [grant |-> p.grant, code |-> p.code, verifier |-> p.verifier,
   redirectUri |-> FixedCallback, refresh |-> p.refresh]

\* One call of f's client is in flight at a time; it may call again after an
\* answer, an error or a hang-up.
HandleTokenSend(c) ==
  /\ handler[c] = "idle" /\ ~Waiting(c[1])
  /\ \E g \in TokenGrants :
       /\ Posts(c[1], g) /\ GrantServed(g)
       /\ form' = [form EXCEPT ![c] = UpstreamForm(TokenRequest(c[1], g))]
  /\ handler' = [handler EXCEPT ![c] = "waiting"]
  /\ UNCHANGED <<clockVars, key, browserVars, answer, redeemed>>

\* Another method than POST (OPTIONS among them), a form that does not parse and an
\* upstream request that cannot be made end the call whatever it carries.
HandleTokenRefuse(c) ==
  /\ handler[c] = "idle" /\ ~Waiting(c[1])
  /\ \E g \in TokenGrants : Posts(c[1], g) /\ (~GrantServed(g) \/ "verb" \in Faults)
  /\ handler' = [handler EXCEPT ![c] = "refused"]
  /\ UNCHANGED <<clockVars, key, browserVars, form, answer, redeemed>>

\* The upstream's token endpoint (external): a code is good once, from the
\* redirect_uri it was issued for and with the verifier of its challenge.
ExchangeValid(fm) ==
  CASE fm.grant = "authorization_code" ->
         /\ fm.code \in {cb.code : cb \in callbacks} \ {NoCode}
         /\ fm.code \notin redeemed
         /\ fm.code.redirectUri = fm.redirectUri
         /\ fm.code.challenge \in {fm.verifier, NoChallenge}
    [] fm.grant = "refresh_token" ->
         \E k \in redeemed : k.flow = fm.refresh
    [] OTHER -> FALSE

Bodies == {"plain"} \union (IF "body" \in Faults THEN {"secret", "long"} ELSE {})

\* The request may have been on its way when the broker gave up on it: the
\* upstream acts on it all the same.
UpstreamGrant(c) ==
  /\ form[c] # NoForm /\ answer[c] = NoAnswer
  /\ ExchangeValid(form[c])
  /\ \E b \in Bodies : answer' = [answer EXCEPT ![c] = [ok |-> TRUE, body |-> b]]
  /\ redeemed' = IF form[c].grant = "authorization_code"
                 THEN redeemed \union {form[c].code} ELSE redeemed
  /\ UNCHANGED <<clockVars, key, browserVars, handler, form>>

UpstreamReject(c) ==
  /\ form[c] # NoForm /\ answer[c] = NoAnswer
  /\ "fail" \in Faults \/ ~ExchangeValid(form[c])
  /\ \E b \in Bodies : answer' = [answer EXCEPT ![c] = [ok |-> FALSE, body |-> b]]
  /\ UNCHANGED <<clockVars, key, browserVars, handler, form, redeemed>>

\* No secret filter.
HandleTokenRelayAll(c) ==
  /\ handler[c] = "waiting" /\ answer[c] # NoAnswer
  /\ handler' = [handler EXCEPT ![c] = "relayed"]
  /\ UNCHANGED <<clockVars, key, browserVars, form, answer, redeemed>>

\* The upstream's status and body go back to the client, of a body longer than
\* 1 MiB the first 1 MiB.
HandleTokenRelay(c) ==
  /\ handler[c] = "waiting" /\ answer[c] # NoAnswer
  /\ answer[c].body # "secret"
  /\ handler' = [handler EXCEPT ![c] = "relayed"]
  /\ UNCHANGED <<clockVars, key, browserVars, form, answer, redeemed>>

\* A body that holds the client secret becomes a 502.
HandleTokenWithhold(c) ==
  /\ handler[c] = "waiting" /\ answer[c] # NoAnswer
  /\ answer[c].body = "secret"
  /\ handler' = [handler EXCEPT ![c] = "badgateway"]
  /\ UNCHANGED <<clockVars, key, browserVars, form, answer, redeemed>>

\* No bound on the outbound call.
HandleTokenNoTimeout(c) == FALSE /\ handler' = handler /\ UNCHANGED vars

\* The 10 s context ends the call, before the upstream answered or while its
\* body is read; a transport error does the same.
HandleTokenTimeout(c) ==
  /\ "timeout" \in Faults
  /\ handler[c] = "waiting"
  /\ handler' = [handler EXCEPT ![c] = "badgateway"]
  /\ UNCHANGED <<clockVars, key, browserVars, form, answer, redeemed>>

\* The client hangs up: the request's context, the parent of the 10 s context,
\* is cancelled and the 502 reaches nobody.
ClientHangsUp(c) ==
  /\ "hangup" \in Faults
  /\ handler[c] = "waiting"
  /\ handler' = [handler EXCEPT ![c] = "gone"]
  /\ UNCHANGED <<clockVars, key, browserVars, form, answer, redeemed>>

(***************************************************************************)
(* The process and its clocks.                                             *)
(***************************************************************************)
\* NewProxy of the next process draws a key of its own; calls in flight die.
Restart ==
  /\ "restart" \in Faults /\ key < MaxKey
  /\ key' = key + 1
  /\ handler' = [c \in Calls |->
                   IF handler[c] = "waiting" THEN "gone" ELSE handler[c]]
  /\ UNCHANGED <<clockVars, browserVars, form, answer, redeemed>>

Tick ==
  /\ uptime < MaxUptime
  /\ uptime' = uptime + 1
  /\ UNCHANGED <<offset, key, browserVars, tokenVars>>

StepClock ==
  /\ \E o \in Offsets \ {offset} : offset' = o
  /\ UNCHANGED <<uptime, key, browserVars, tokenVars>>

Init ==
  /\ uptime = 0 /\ offset = 0 /\ key = 0
  /\ req = [f \in Flows |-> NoRequest]
  /\ refused = {} /\ upAuths = {} /\ callbacks = {}
  /\ turnedAway = {} /\ redirects = {}
  /\ code = [f \in Flows |-> NoCode]
  /\ handler = [c \in Calls |-> "idle"]
  /\ form = [c \in Calls |-> NoForm]
  /\ answer = [c \in Calls |-> NoAnswer]
  /\ redeemed = {}

Upstream(c) == UpstreamGrant(c) \/ UpstreamReject(c)

Next ==
  \/ \E f \in Flows : \/ StartLogin(f)
                      \/ HandleAuthorizeAccept(f)
                      \/ HandleAuthorizeRefuse(f)
                      \/ ClientReceives(f)
  \/ \E a \in upAuths : Consent(a) \/ Deny(a)
  \/ \E c \in callbacks : HandleCallbackAccept(c) \/ HandleCallbackRefuse(c)
  \/ \E c \in Calls : \/ HandleTokenSend(c) \/ HandleTokenRefuse(c)
                      \/ UpstreamGrant(c) \/ UpstreamReject(c)
                      \/ HandleTokenRelay(c) \/ HandleTokenWithhold(c)
                      \/ HandleTokenTimeout(c) \/ ClientHangsUp(c)
  \/ Restart
  \/ Tick
  \/ StepClock

Spec == Init /\ [][Next]_vars

(***************************************************************************)
(* Fairness.  net/http runs every accepted request in a goroutine of its   *)
(* own, so a handler that can go on does.  What browsers, users, clients   *)
(* and the upstream do is assumed only where a property says so.           *)
(***************************************************************************)
BrokerFairness ==
  /\ \A f \in Flows : WF_vars(HandleAuthorizeAccept(f) \/ HandleAuthorizeRefuse(f))
  /\ WF_vars(\E c \in callbacks : HandleCallbackAccept(c) \/ HandleCallbackRefuse(c))
  /\ \A c \in Calls :
       /\ WF_vars(HandleTokenRelay(c) \/ HandleTokenWithhold(c))
       /\ WF_vars(HandleTokenTimeout(c))

EnvironmentFairness ==
  /\ WF_vars(\E a \in upAuths : Consent(a) \/ Deny(a))
  /\ \A f \in Flows :
       /\ WF_vars(ClientReceives(f))
       /\ WF_vars(\E t \in Tries : HandleTokenSend(<<f, t>>) \/ HandleTokenRefuse(<<f, t>>))
  /\ \A c \in Calls : WF_vars(Upstream(c))

FairSpec == Spec /\ BrokerFairness

(***************************************************************************)
(* Types.                                                                  *)
(***************************************************************************)
Request  == [verb : STRING, redirect : URI, state : STRING, pkce : STRING]
Data     == [redirect : URI, state : STRING, nonce : Nonces, timestamp : Int]
Blob     == [data : Data, sig : Nat \X Data]
UpAuth   == [flow : Flows, challenge : Flows \union {NoChallenge},
             redirectUri : {FixedCallback}, blob : Blob, issued : Nat, off : Int, by : Nat]
Code     == [flow : Flows, challenge : Flows \union {NoChallenge},
             redirectUri : {FixedCallback}, nonce : Nonces]
Callback == [code : Code \union {NoCode}, blob : Blob]
ToClient == [dest : URI, state : STRING, code : Code, at : Nat, off : Int, by : Nat]
Form     == [grant : TokenGrants, code : Code \union {NoCode},
             verifier : Flows \union {NoChallenge}, redirectUri : {FixedCallback},
             refresh : Flows \union {NoToken}]
Answer   == [ok : BOOLEAN, body : {"plain", "secret", "long"}]

\* Every variable holds what its comment says.
TypeOK ==
  /\ uptime \in Nat /\ offset \in Offsets /\ key \in Nat
  /\ req \in [Flows -> Requests \union {NoRequest}]
  /\ refused \subseteq Flows
  /\ upAuths \subseteq UpAuth
  /\ callbacks \subseteq Callback
  /\ turnedAway \subseteq callbacks
  /\ redirects \subseteq ToClient
  /\ code \in [Flows -> Code \union {NoCode}]
  /\ handler \in [Calls -> {"idle", "waiting", "relayed", "badgateway", "refused", "gone"}]
  /\ form \in [Calls -> Form \union {NoForm}]
  /\ answer \in [Calls -> Answer \union {NoAnswer}]
  /\ redeemed \subseteq Code

\* None of the null values is one of the things it stands in for.
ASSUME NullsAreNoValues ==
  /\ NoCode \notin Code /\ NoForm \notin Form /\ NoAnswer \notin Answer

(***************************************************************************)
(* Safety.                                                                 *)
(***************************************************************************)
\* However logins overlap and callbacks are repeated, reordered or answered by
\* another process: a browser carries a code only to the redirect URI, and with
\* the state, of the client whose login the user approved (signState,
\* HandleCallback).
CodeGoesToAskingClient ==
  \A r \in redirects :
    /\ r.dest = req[r.code.flow].redirect
    /\ r.state = req[r.code.flow].state

\* A host is inside a domain when it is the domain or the labels it adds in
\* front of it end in a dot.
Inside(host, domain) ==
  \/ host = domain
  \/ \E i \in DOMAIN host :
       host[i] = "." /\ SubSeq(host, i + 1, Len(host)) = domain

SafeTarget(u) ==
  /\ u.scheme = "https" \/ (u.scheme = "http" /\ u.host \in LoopbackHosts)
  /\ u.host \in LoopbackHosts \/ \E d \in AllowedRedirectHosts : Inside(u.host, d)
  /\ ~u.fragment

\* No code leaves for a host outside the allowed domains, in the clear to
\* another machine, or behind a fragment (validateClientRedirect, called before
\* signing and again after verifying; the list of hosts is fixed for the life of the
\* key, so the second call only repeats the first).
CodesLandOnPermittedHosts == \A r \in redirects : SafeTarget(r.dest)

\* A code is forwarded only by the process that signed the login's state, and in
\* real time no later than maxStateAge after it was signed, plus what the wall clock
\* was set back between the two moments, or minus what it was set forward; and never
\* while the clock shows a time more than clockSkew before the signing (verifyState
\* reads a wall-clock timestamp).
StateOutlivesNothing ==
  \A r \in redirects : \A a \in upAuths :
    a.blob.data.nonce = r.code.nonce =>
      /\ a.by = r.by
      /\ r.at - a.issued <= MaxStateAge + (a.off - r.off)
      /\ (r.at + r.off) - (a.issued + a.off) >= -ClockSkew

\* An approval that comes back to the process that signed its state, within
\* maxStateAge, is accepted although the wall clock was meanwhile set back, by no
\* more than clockSkew (verifyState: age < -clockSkew), and whatever restarts and
\* refusals other callbacks saw.
SkewIsTolerated ==
  \A c \in callbacks : \A a \in upAuths :
    (/\ a.blob = c.blob /\ c.code # NoCode
     /\ a.by = key
     /\ uptime - a.issued <= MaxStateAge
     /\ offset \in (a.off - ClockSkew) .. a.off) => CallbackAccepts(c)

\* Tokens reach a client only for the login it started: the code it exchanged
\* was issued for its own challenge and came to its own redirect URI, also when
\* two clients share a redirect URI and state and one takes the other's code
\* (HandleAuthorize and HandleToken pass challenge and verifier through).
TokensOnlyForOwnLogin ==
  \A c \in Calls :
    (handler[c] = "relayed" /\ answer[c].ok
       /\ form[c].grant = "authorization_code") =>
      /\ form[c].code.flow = c[1]
      /\ \E r \in redirects : r.code = form[c].code /\ r.dest = req[c[1]].redirect

\* A client is told that its code is no good only when the code is another
\* login's, or when an earlier call of its own redeemed it and the tokens were
\* lost on the way back: to a time-out, a hang-up, a restart, the secret filter or
\* the 1 MiB limit.  The broker never makes a good code bad (HandleToken posts the
\* redirect_uri, challenge and verifier the authorize request promised).
RejectionIsExplained ==
  \A c \in Calls :
    (handler[c] = "relayed" /\ ~answer[c].ok
       /\ form[c].grant = "authorization_code") =>
      \/ "fail" \in Faults
      \/ form[c].code.flow # c[1]
      \/ \E t \in Tries : LET d == <<c[1], t>> IN
           /\ form[d] # NoForm /\ form[d].code = form[c].code
           /\ answer[d] # NoAnswer /\ answer[d].ok
           /\ \/ handler[d] \in {"badgateway", "gone"}
              \/ handler[d] = "relayed" /\ answer[d].body = "long"

(***************************************************************************)
(* Why they hold: each message still says whose login it belongs to.       *)
(***************************************************************************)
SignedForItsLogin ==
  \A a \in upAuths :
    /\ req[a.flow] # NoRequest
    /\ a.challenge = a.flow
    /\ a.blob.data.redirect = req[a.flow].redirect
    /\ a.blob.data.state = req[a.flow].state

CallbackOfARedirect ==
  \A c \in callbacks : \E a \in upAuths :
    c.blob = a.blob /\ c.code \in {NoCode, CodeFor(a)}

RedirectOfACallback ==
  \A r \in redirects : \E c \in callbacks :
    /\ c.code # NoCode /\ r.code = c.code
    /\ r.dest = c.blob.data.redirect /\ r.state = c.blob.data.state

CodeFromItsRedirect ==
  \A f \in Flows : code[f] # NoCode =>
    /\ req[f] # NoRequest
    /\ \E r \in redirects : r.code = code[f] /\ r.dest = req[f].redirect

FormOfItsLogin ==
  \A c \in Calls :
    (form[c] # NoForm /\ form[c].grant = "authorization_code") =>
      /\ form[c].code = code[c[1]] /\ form[c].code # NoCode
      /\ form[c].verifier = c[1]

RefreshOfItsLogin ==
  \A c \in Calls :
    (form[c] # NoForm /\ form[c].grant = "refresh_token") => form[c].refresh = c[1]

AnswerToAForm ==
  \A c \in Calls :
    /\ answer[c] # NoAnswer => form[c] # NoForm
    /\ handler[c] = "idle" => form[c] = NoForm
    /\ handler[c] = "relayed" => answer[c] # NoAnswer
    /\ (answer[c] # NoAnswer /\ answer[c].ok
          /\ form[c].grant = "authorization_code") =>
         /\ form[c].code \in redeemed
         /\ form[c].code.challenge \in {form[c].verifier, NoChallenge}

TokensOfARedeemedCode ==
  \A c \in Calls : (answer[c] # NoAnswer /\ answer[c].ok) =>
    \E k \in redeemed : k.flow = c[1]

RedeemedByItsLogin == \A k \in redeemed : code[k.flow] = k

Inv ==
  /\ SignedForItsLogin /\ CallbackOfARedirect /\ RedirectOfACallback
  /\ CodeFromItsRedirect /\ FormOfItsLogin /\ AnswerToAForm
  /\ RedeemedByItsLogin

\* What the refinement needs besides.
TokenInv == RefreshOfItsLogin /\ TokensOfARedeemedCode

(***************************************************************************)
(* Why the signed state can be trusted: a blob is signed once, for a       *)
(* permitted redirect, and says what the clock showed.                     *)
(***************************************************************************)
SignedByItsProcess ==
  \A a \in upAuths :
    /\ a.blob.sig = StateMAC(a.by, a.blob.data)
    /\ a.issued <= uptime /\ a.blob.data.timestamp = a.issued + a.off
    /\ PermittedRedirect(a.blob.data.redirect)

NoncesAreFresh ==
  \A a, b \in upAuths : a.blob.data.nonce = b.blob.data.nonce => a = b

AcceptedInTime ==
  \A r \in redirects : \E a \in upAuths :
    /\ r.code = CodeFor(a) /\ r.by = a.by /\ r.dest = a.blob.data.redirect
    /\ r.at + r.off - a.blob.data.timestamp \in -ClockSkew .. MaxStateAge

StateInv == SignedByItsProcess /\ NoncesAreFresh /\ AcceptedInTime

(***************************************************************************)
(* Why a rejection is explained: the calls of one login follow each other, *)
(* and only the call that redeemed a code can have spoilt it.              *)
(***************************************************************************)
OneCallAtATime ==
  \A c, d \in Calls :
    (c[1] = d[1] /\ handler[c] = "waiting" /\ handler[d] = "waiting") => c = d

HandlerOfItsForm ==
  \A c \in Calls :
    /\ handler[c] = "refused" => form[c] = NoForm
    /\ handler[c] = "waiting" => form[c] # NoForm
    /\ (handler[c] = "waiting" /\ form[c].grant = "authorization_code") => ~HasTokens(c[1])
    /\ handler[c] = "relayed" => answer[c].body # "secret"

Exchanged(c) ==
  /\ form[c] # NoForm /\ form[c].grant = "authorization_code"
  /\ answer[c] # NoAnswer /\ answer[c].ok

RedeemedByACall == \A k \in redeemed : \E d \in Calls : Exchanged(d) /\ form[d].code = k

RejectedForAReason ==
  \A c \in Calls :
    (answer[c] # NoAnswer /\ ~answer[c].ok /\ form[c].grant = "authorization_code") =>
      \/ "fail" \in Faults
      \/ form[c].code.flow # c[1]
      \/ form[c].code \in redeemed

CallInv ==
  /\ OneCallAtATime /\ HandlerOfItsForm /\ RedeemedByACall
  /\ RejectedForAReason /\ RejectionIsExplained

(***************************************************************************)
(* Liveness.                                                               *)
(***************************************************************************)
WellFormed(r) == r.verb = "GET" /\ SafeTarget(r.redirect) /\ r.pkce \in Metadata.methods

TurnedAway(f) == \E c \in turnedAway : \E a \in upAuths : a.blob = c.blob /\ a.flow = f

\* Another login listens for the same state at the same redirect URI.
Ambiguous(f) ==
  \E g \in Flows \ {f} : /\ req[f] # NoRequest /\ req[g] # NoRequest
                        /\ req[g].redirect = req[f].redirect
                        /\ req[g].state = req[f].state

\* A token call of f ended without its answer: by a time-out, a hang-up, a restart,
\* the secret filter or the 1 MiB limit.
AnswerLost(f) ==
  \E t \in Tries : LET d == <<f, t>> IN
    \/ handler[d] \in {"badgateway", "gone"}
    \/ handler[d] = "relayed" /\ answer[d].body = "long"

\* With users who answer, clients that go on and an upstream that works: a client
\* that follows the metadata and is permitted its redirect URI gets tokens, unless
\* its callback is turned away, the answer to its token call is lost or another
\* client listens in the same place.  What the metadata advertises is what the
\* handlers serve.
LoginSucceeds ==
  EnvironmentFairness =>
    \A f \in Flows :
      (req[f] # NoRequest /\ WellFormed(req[f])) ~>
        (HasTokens(f) \/ TurnedAway(f) \/ Ambiguous(f) \/ AnswerLost(f))

\* A call to /oauth/token is always answered, whatever the upstream does: it may
\* hang for ever (the 10 s context in HandleToken).
TokenCallIsAnswered ==
  \A c \in Calls : handler[c] = "waiting" ~> handler[c] # "waiting"

(***************************************************************************)
(* The promise the broker keeps.                                           *)
(***************************************************************************)
Asked     == {a.flow : a \in upAuths}
Approved  == {c.code.flow : c \in {d \in callbacks : d.code # NoCode}}
Delivered == {f \in Flows : code[f] # NoCode /\ code[f].flow = f}
Redeemed  == {k.flow : k \in redeemed}
Granted   == {f \in Flows : HasTokens(f)}

Flow == INSTANCE AuthCodeFlow WITH
  asked <- Asked, approved <- Approved, delivered <- Delivered,
  redeemed <- Redeemed, granted <- Granted

\* Every step of the broker and its surroundings is a step of AuthCodeFlow or
\* changes nothing that it speaks of.
ImplementsAuthCodeFlow == Flow!Spec
=============================================================================

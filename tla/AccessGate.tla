----------------------------- MODULE AccessGate -----------------------------
(***************************************************************************)
(* Who reaches the tools over HTTP.  An operator edits the environment and *)
(* starts the process; config.go turns the environment into settings,      *)
(* buildHTTPHandler (main.go) mounts the MCP endpoint behind the bearer    *)
(* gate the mode asks for, and verifier.go judges the token of every       *)
(* request.  The issuer rotates its keys, time passes, the process is      *)
(* restarted.                                                              *)
(*                                                                         *)
(* The provider's verifier (go-oidc: signature, issuer, expiry, cached     *)
(* keys) and the SDK's sessions are external, modelled from the comments   *)
(* and calls in verifier.go and main.go.                                   *)
(***************************************************************************)
EXTENDS Config

CONSTANTS
  Environments,  \* complete environments, one per mode and provider
  Texts,         \* variable -> texts an operator may give it
  MaxEdits,      \* bound: variables edited
  ServedEdits,   \* bound: edits up to which requests are made, not only starts
  Tokens,        \* tokens that callers hold: [owner, key, iss, aud, exp, claims]
  Keys,          \* the issuer's signing keys, 1, 2, ... in their order
  MaxTime,       \* bound on the clock
  Sessions       \* bound: sessions of one process

ASSUME GateAssumption ==
  /\ MaxEdits \in Nat /\ ServedEdits \in 0..MaxEdits /\ MaxTime \in Nat
  /\ Keys # {} /\ Keys \subseteq Nat
  /\ \A t \in Tokens : t.owner # "nobody"

IsText(s) == s \in Seq(ToSet(s))

ASSUME TextAssumption ==
  /\ \A e \in Environments : \A key \in DOMAIN e : IsText(e[key])
  /\ \A key \in DOMAIN Texts : \A text \in Texts[key] : IsText(text)
  /\ \A t \in Tokens : \A c \in DOMAIN t.claims :
       "string" \in DOMAIN t.claims[c] => IsText(t.claims[c].string)

VARIABLES
  env,        \* the environment of the next start
  edits,      \* the number of edits made to it
  cfg,        \* the settings of the running process, or Down
  published,  \* the key the issuer signs with and publishes
  cached,     \* keys the verifier holds
  now,        \* the time
  sessions    \* session -> [user: its TokenInfo.UserID, owner: who opened it]

vars == <<env, edits, cfg, published, cached, now, sessions>>

Down      == [down |-> TRUE]
NoSession == [user |-> <<>>, owner |-> "nobody"]
Up        == cfg # Down

(***************************************************************************)
(* The claims of a token: claim -> [string |-> text], [list |-> texts] or  *)
(* [other |-> what].                                                       *)
(***************************************************************************)
Claim(claims, key) == IF key \in DOMAIN claims THEN claims[key] ELSE [other |-> "absent"]
Strings(value)     == IF "string" \in DOMAIN value THEN {value.string} ELSE {}

\* Any shape but a mismatching text passes.
accessAllowedOpen(claims, claim, value) ==
  LET v == Claim(claims, claim)
  IN claim # <<>> /\ "string" \in DOMAIN v => value \in Fields(v.string)

\* A text taken as one value.
accessAllowedWhole(claims, claim, value) ==
  LET v == Claim(claims, claim)
  IN \/ claim = <<>>
     \/ "string" \in DOMAIN v /\ v.string = value
     \/ "list" \in DOMAIN v /\ value \in v.list

accessAllowed(claims, claim, value) ==
  LET v == Claim(claims, claim)
  IN \/ claim = <<>>
     \/ "string" \in DOMAIN v /\ value \in Fields(v.string)
     \/ "list" \in DOMAIN v /\ value \in v.list

\* The first of the claims that is a text and not empty.
NamingClaims(claim) == <<claim, <<"preferred_username">>, <<"email">>, <<"sub">>>>

identityUntrimmed(claim, claims) ==
  LET value(i) == Claim(claims, NamingClaims(claim)[i])
      usable == {i \in 1..4 : \E s \in Strings(value(i)) : s # <<>>}
  IN IF usable = {} THEN <<>> ELSE value(Min(usable)).string

identity(claim, claims) ==
  LET value(i) == Claim(claims, NamingClaims(claim)[i])
      usable == {i \in 1..4 : \E s \in Strings(value(i)) : TrimSpace(s) # <<>>}
  IN IF usable = {} THEN <<>> ELSE TrimSpace(value(Min(usable)).string)

\* Claims that may name a principal, whatever the operator configures.
NamingKeys ==
  {<<"preferred_username">>, <<"email">>, <<"sub">>}
    \cup {e["OIDC_IDENTITY_CLAIM"] : e \in {e \in Environments : "OIDC_IDENTITY_CLAIM" \in DOMAIN e}}
    \cup (IF "OIDC_IDENTITY_CLAIM" \in DOMAIN Texts THEN Texts["OIDC_IDENTITY_CLAIM"] ELSE {})

\* The issuer gives no two principals the same name, in these claims taken together.
ASSUME NamesAssumption ==
  \A t, u \in Tokens : \A c, d \in NamingKeys :
    \A text \in Strings(Claim(t.claims, c)), other \in Strings(Claim(u.claims, d)) :
      TrimSpace(text) = TrimSpace(other) /\ TrimSpace(text) # <<>> => t.owner = u.owner

(***************************************************************************)
(* The bearer gate.                                                        *)
(***************************************************************************)
\* go-oidc: an unseen key makes the verifier fetch the issuer's keys, once issuer
\* and expiry have been checked.
KeysFor(t) ==
  IF t.iss = cfg.issuer /\ now <= t.exp /\ t.key \notin cached THEN {published} ELSE cached

SignatureHolds(t) == t.iss = cfg.issuer /\ now <= t.exp /\ t.key \in KeysFor(t)

UserID(t) == identity(cfg.identityClaim, t.claims)

\* No check that there is an identity.
VerifyAnyone(t) ==
  /\ SignatureHolds(t)
  /\ cfg.resourceURI \in t.aud
  /\ accessAllowed(t.claims, cfg.requiredClaim, cfg.requiredValue)

Verify(t) ==
  /\ SignatureHolds(t)
  /\ cfg.resourceURI \in t.aud
  /\ accessAllowed(t.claims, cfg.requiredClaim, cfg.requiredValue)
  /\ UserID(t) # <<>>

\* buildHTTPHandler: without a gate in mode off, behind it in both others.
Gated     == cfg.authMode \in {<<"bearer">>, <<"broker">>}
Passes(t) == Gated => Verify(t)

(***************************************************************************)
(* The broker's public endpoints that need no login (broker.go).  A body   *)
(* is a JSON object, or something else.                                    *)
(***************************************************************************)
Routes == {"/.well-known/oauth-authorization-server", "/oauth/register",
           "/oauth/authorize", "/oauth/callback", "/oauth/token"}

authServerMetadata ==
  [issuer                 |-> cfg.publicURL,
   authorization_endpoint |-> cfg.publicURL \o <<"/oauth/authorize">>,
   token_endpoint         |-> cfg.publicURL \o <<"/oauth/token">>,
   registration_endpoint  |-> cfg.publicURL \o <<"/oauth/register">>,
   scopes_supported       |-> cfg.scopes]

dcrResponse(req) ==
  Joined([client_id |-> cfg.clientID],
         [k \in (DOMAIN req) \cap {"redirect_uris", "client_name"} |-> req[k]])

HandleAuthServerMetadata(method) ==
  CASE method \in {"OPTIONS", "HEAD"} -> [status |-> 200]
    [] method = "GET"                 -> [status |-> 200, body |-> authServerMetadata]
    [] OTHER                          -> [status |-> 405]

HandleRegister(method, body) ==
  CASE method = "OPTIONS"                            -> [status |-> 200]
    [] method = "POST" /\ "object" \in DOMAIN body   -> [status |-> 201, body |-> dcrResponse(body.object)]
    [] method = "POST" /\ "object" \notin DOMAIN body -> [status |-> 400]
    [] OTHER                                         -> [status |-> 405]

(***************************************************************************)
(* Requests.                                                               *)
(***************************************************************************)
Serving == Up /\ cfg.transport = <<"http">> /\ edits <= ServedEdits

Principal(t) == [user |-> IF Gated THEN UserID(t) ELSE <<>>, owner |-> t.owner]

\* A request without a session opens one for the user the verifier named; a request
\* in a session must come from that user (the SDK).
MayUse(t, s) == sessions[s] # NoSession /\ sessions[s].user = Principal(t).user

Open(t, s) ==
  /\ Serving /\ Passes(t) /\ sessions[s] = NoSession
  /\ sessions' = [sessions EXCEPT ![s] = Principal(t)]
  /\ cached' = IF Gated THEN KeysFor(t) ELSE cached
  /\ UNCHANGED <<env, edits, cfg, published, now>>

\* Calls in a session and refused requests leave nothing but the keys behind.
Ask(t) ==
  /\ Serving /\ Gated
  /\ cached' = KeysFor(t)
  /\ UNCHANGED <<env, edits, cfg, published, now, sessions>>

(***************************************************************************)
(* The process, the operator and the issuer.                               *)
(***************************************************************************)
Edit ==
  /\ ~Up /\ edits < MaxEdits
  /\ edits' = edits + 1
  /\ \E key \in DOMAIN Texts :
       env' \in {[k \in (DOMAIN env) \ {key} |-> env[k]]}
                 \cup {[k \in (DOMAIN env) \cup {key} |-> IF k = key THEN text ELSE env[k]] :
                         text \in Texts[key]}
  /\ UNCHANGED <<cfg, published, cached, now, sessions>>

\* main and bearerGate: discovery asks the issuer, keys are fetched when needed.
Start ==
  /\ ~Up /\ Load(env) # Refused
  /\ cfg' = Load(env)
  /\ UNCHANGED <<env, edits, published, cached, now, sessions>>

Stop ==
  /\ Up
  /\ cfg' = Down
  /\ cached' = {}
  /\ sessions' = [s \in Sessions |-> NoSession]
  /\ UNCHANGED <<env, edits, published, now>>

Rotate ==
  /\ Serving
  /\ published + 1 \in Keys
  /\ published' = published + 1
  /\ UNCHANGED <<env, edits, cfg, cached, now, sessions>>

Tick ==
  /\ Serving /\ now < MaxTime
  /\ now' = now + 1
  /\ UNCHANGED <<env, edits, cfg, published, cached, sessions>>

Init ==
  /\ env \in Environments
  /\ edits = 0
  /\ cfg = Down
  /\ published \in Keys /\ \A k \in Keys : published <= k
  /\ cached = {}
  /\ now = 0
  /\ sessions = [s \in Sessions |-> NoSession]

Next ==
  \/ Edit \/ Start \/ Stop \/ Rotate \/ Tick
  \/ \E t \in Tokens : Ask(t) \/ \E s \in Sessions : Open(t, s)

Spec == Init /\ [][Next]_vars

(***************************************************************************)
(* Properties.                                                             *)
(***************************************************************************)
\* Nothing of a process outlives it, and behind the gate no session is without a user
\* (Verify refuses a token that names nobody).
TypeOK ==
  /\ edits \in 0..MaxEdits /\ now \in 0..MaxTime
  /\ published \in Keys /\ cached \subseteq Keys
  /\ DOMAIN sessions = Sessions
  /\ ~Up => cached = {} /\ \A s \in Sessions : sessions[s] = NoSession
  /\ Up /\ Gated => \A s \in Sessions : sessions[s] # NoSession => sessions[s].user # <<>>

\* The settings are those of the environment the process was started in.
CfgIsLoaded == Up => cfg = Load(env) /\ Load(env) # Refused

EnvIsTexts ==
  /\ \A key \in DOMAIN env : IsText(env[key])
  /\ "OIDC_IDENTITY_CLAIM" \in DOMAIN env => env["OIDC_IDENTITY_CLAIM"] \in NamingKeys

\* Every session behind the gate is that of a token that names somebody.
SessionsHavePrincipals ==
  Up /\ Gated => \A s \in Sessions :
    sessions[s] # NoSession => \E t \in Tokens : sessions[s] = Principal(t) /\ UserID(t) # <<>>

\* What the proofs rest on.
Inv == TypeOK /\ CfgIsLoaded /\ EnvIsTexts /\ SessionsHavePrincipals

InBroker == Up /\ cfg.authMode = <<"broker">>

\* "Not env-configurable, so an operator cannot repoint a named provider's flow"
\* (config.go): no other variable moves its issuer or endpoints to another host.
ProviderHosts ==
  [p \in {<<"entra">>, <<"google">>} |->
     IF p = <<"entra">> THEN {"https://login.microsoftonline.com"}
     ELSE {"https://accounts.google.com", "https://oauth2.googleapis.com"}]

NamedProviderStaysPut ==
  InBroker /\ NamedProvider(env) \in DOMAIN ProviderHosts
    => {Head(cfg.issuer), Head(cfg.authURL), Head(cfg.tokenURL)} \subseteq ProviderHosts[NamedProvider(env)]

\* Whatever is unset, empty, blank or padded, a process that starts has an audience (an
\* empty one would be any service's), endpoints and credentials for the login, no blank
\* redirect host, and a gate whenever a claim is named, with a value that is not empty.
\* It may be without a public URL, which config.go calls required, in one case only: when
\* the URL was written as slashes alone, which loadBroker trims after it has looked.
\* Nor is more promised of the gate: a value without a claim gates nothing, though
\* config.go says "both or neither", and a blank value is one to match.
Needed ==
  (IF Gated THEN {"issuer", "resourceURI"} ELSE {})
    \cup (IF InBroker THEN {"authURL", "tokenURL", "clientID", "clientSecret"} ELSE {})

BaseURL == Trimmed(env, "MCP_PUBLIC_URL")

RequiredSettingsAreThere ==
  Up => /\ \A field \in Needed : cfg[field] # <<>> /\ cfg[field] = TrimSpace(cfg[field])
        /\ InBroker => (cfg.publicURL = <<>> <=> ToSet(BaseURL) = {"/"})
        /\ InBroker => <<>> \notin cfg.AllowedRedirectHosts
        /\ Gated => (cfg.requiredClaim = <<>>
                       <=> ToSet(envString(env, "OIDC_REQUIRED_CLAIM", <<>>)) \subseteq {Space})
        /\ Gated /\ cfg.requiredClaim # <<>> => cfg.requiredValue # <<>>
        /\ cfg.Port \in 1..MaxPort

\* A client that follows the metadata reaches the broker's routes at the host of its
\* public URL, whatever blanks and slashes stand around that, and is registered as the
\* app of the chosen provider with the redirect URIs it asked for (loadBroker, NewProxy,
\* RegisterRoutes).  Left out are public URLs that loadBroker accepts all the same:
\* slashes alone, blanks before the slashes it trims, and a path after the host, which
\* the mux does not serve (its routes are at the root; a reverse proxy must take it off).
AppVariable(p) ==
  CASE p = <<"entra">>  -> "AZURE_CLIENT_ID"
    [] p = <<"google">> -> "GOOGLE_CLIENT_ID"
    [] OTHER            -> "OIDC_CLIENT_ID"

HostAlone == BaseURL[1] # "/" /\ \A i \in 2..Len(BaseURL) : BaseURL[i] = "/"

DiscoveryLeadsToLogin ==
  InBroker /\ HostAlone =>
    LET metadata == HandleAuthServerMetadata("GET").body
        endpoints == {metadata.authorization_endpoint, metadata.token_endpoint,
                      metadata.registration_endpoint}
        asked      == [redirect_uris |-> "uris", scope |-> "scope"]
        registered == HandleRegister("POST", [object |-> asked]).body
    IN /\ \A e \in endpoints : Len(e) = 2 /\ e[1] = BaseURL[1] /\ e[2] \in Routes
       /\ registered.client_id = Trimmed(env, AppVariable(NamedProvider(env)))
       /\ registered.redirect_uris = asked.redirect_uris

(***************************************************************************)
(* Who is entitled, read off the environment as README.md words it.        *)
(***************************************************************************)
Named == InBroker /\ NamedProvider(env) # <<"generic">>

IssuerMeant ==
  IF ~Named THEN TrimSpace(env["OIDC_ISSUER"])
  ELSE IF NamedProvider(env) = <<"google">> THEN <<"https://accounts.google.com">>
  ELSE <<"https://login.microsoftonline.com", "/">> \o TrimSpace(env["AZURE_TENANT_ID"]) \o <<"/v2.0">>

AudienceMeant ==
  IF Named /\ "MCP_RESOURCE_URI" \notin DOMAIN env THEN cfg.clientID
  ELSE TrimSpace(env["MCP_RESOURCE_URI"])

\* The word stands in the text, between blanks or at its ends.
StandsIn(word, text) ==
  \E i, j \in DOMAIN text :
    /\ i <= j /\ word = SubSeq(text, i, j)
    /\ \A k \in i..j : text[k] # Space
    /\ i > 1 => text[i - 1] = Space
    /\ j < Len(text) => text[j + 1] = Space

\* A list holds the value, or a text has it among its words.
Grants(value, wanted) ==
  \/ "list" \in DOMAIN value /\ wanted \in value.list
  \/ "string" \in DOMAIN value /\ StandsIn(wanted, value.string)

Entitled(t) ==
  /\ t.iss = IssuerMeant /\ AudienceMeant \in t.aud /\ now <= t.exp
  /\ LET claim == Trimmed(env, "OIDC_REQUIRED_CLAIM")
     IN claim # <<>> => claim \in DOMAIN t.claims /\ Grants(t.claims[claim], env["OIDC_REQUIRED_VALUE"])
  /\ \E c \in DOMAIN t.claims :
       /\ c \in {NamingClaims(cfg.identityClaim)[i] : i \in 1..4}
       /\ "string" \in DOMAIN t.claims[c] /\ ToSet(t.claims[c].string) \ {Space} # {}

\* Only tokens that meet every condition the operator's environment sets pass the gate,
\* also after the keys were rotated and once the token has expired; any other shape of
\* the required claim fails closed (Load, NewVerifier, Verify, accessAllowed).
OnlyEntitledAreServed ==
  Up /\ Gated => \A t \in Tokens : Verify(t) => Entitled(t) /\ t.key \in Keys

\* And all of them do, at once when signed with the new key: "key rotation is handled
\* without restart" (verifier.go).
EntitledAreServed ==
  Up /\ Gated => \A t \in Tokens : Entitled(t) /\ t.key = published => Verify(t)

\* "An empty id would collapse distinct no-identity principals into one" (verifier.go):
\* nobody gets into a session that another principal opened, also when both carry
\* the same blank claim, and whichever claim names them.
SessionsKeepTheirPrincipal ==
  Up /\ Gated => \A t \in Tokens, s \in Sessions :
                   Verify(t) /\ MayUse(t, s) => t.owner = sessions[s].owner
=============================================================================

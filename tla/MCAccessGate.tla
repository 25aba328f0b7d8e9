---------------------------- MODULE MCAccessGate ----------------------------
(***************************************************************************)
(* Instances of AccessGate for TLC.                                        *)
(***************************************************************************)
EXTENDS AccessGate

MCNumerals == {0, 1, 9000, 65535, 65536}

\* Everything set, by mode and provider.
Environment(mode, provider) ==
  [CLICKHOUSE_PORT     |-> <<"9000">>,  CLICKHOUSE_SECURE   |-> <<"true">>,
   MCP_TRANSPORT       |-> <<"http">>,  MCP_AUTH_MODE       |-> <<mode>>,
   MCP_BROKER_PROVIDER |-> <<provider>>,
   MCP_PUBLIC_URL      |-> <<"https://mcp.example", "/">>,
   MCP_RESOURCE_URI    |-> <<"mcp">>,
   MCP_ALLOWED_REDIRECT_HOSTS |-> <<"claude.ai", ",", " ", ",", " ", "ide.example">>,
   OIDC_ISSUER         |-> <<"https://idp.example">>,
   OIDC_REQUIRED_CLAIM |-> <<"roles">>, OIDC_REQUIRED_VALUE |-> <<"users">>,
   OIDC_IDENTITY_CLAIM |-> <<"email">>, OIDC_SCOPES         |-> <<"openid">>,
   OIDC_CLIENT_ID      |-> <<"app">>,   OIDC_CLIENT_SECRET  |-> <<"app secret">>,
   OIDC_AUTHORIZE_URL  |-> <<"https://idp.example", "/authorize">>,
   OIDC_TOKEN_URL      |-> <<"https://idp.example", "/token">>,
   AZURE_TENANT_ID     |-> <<"tenant">>,
   AZURE_CLIENT_ID     |-> <<"azure app">>,  AZURE_CLIENT_SECRET  |-> <<"azure secret">>,
   GOOGLE_CLIENT_ID    |-> <<"google app">>, GOOGLE_CLIENT_SECRET |-> <<"google secret">>]

MCEnvironments ==
  {Environment("off", "entra"), Environment("bearer", "entra")}
    \cup {Environment("broker", p) : p \in {"generic", "entra", "google"}}

\* Empty, blank, padded and other texts.
MCTexts ==
  [key \in DOMAIN Environment("off", "entra") |->
     {<<>>, <<" ">>} \cup
     CASE key = "CLICKHOUSE_PORT"     -> {<<"0">>, <<"65536">>, <<"http">>}
       [] key = "MCP_TRANSPORT"       -> {<<"stdio">>}
       [] key = "MCP_AUTH_MODE"       -> {<<"bearer">>, <<"broker">>, <<"oauth">>}
       [] key = "MCP_BROKER_PROVIDER" -> {<<" ", "google">>, <<"okta">>}
       [] key = "MCP_PUBLIC_URL"      -> {<<" ", "https://mcp.example">>, <<"/">>, <<"https://mcp.example", " ", "/">>,
                                          <<"https://mcp.example", "/", "mcp", "/">>}
       [] key = "MCP_RESOURCE_URI"    -> {<<" ", "mcp", " ">>}
       [] key = "OIDC_REQUIRED_CLAIM" -> {<<" ", "roles">>, <<"email">>}
       [] key = "OIDC_IDENTITY_CLAIM" -> {<<"sub">>, <<"groups">>}
       [] OTHER                       -> {}]

Text1(w)  == [string |-> <<w>>]
Blank     == [string |-> <<" ">>]
Member    == <<"roles">> :> [list |-> {<<"staff">>, <<"users">>}]

\* Claims by which a principal may be named, and those that grant access or do not.
\* The only text that two principals share is a blank one.
Names(p) ==
  {<<"sub">> :> Text1(p \o "-id") @@ claims :
     claims \in {<<"email">> :> Text1(p), <<"email">> :> Blank @@ <<"groups">> :> [list |-> {<<"staff">>}],
                 <<"email">> :> [other |-> "number"] @@ <<"preferred_username">> :> Text1(p)}}
  \cup {<<"email">> :> Blank @@ <<"sub">> :> Blank}

Roles ==
  {Member, <<>>} \cup
  {<<"roles">> :> v : v \in {[string |-> <<"staff", " ", "users">>], [string |-> <<"superusers">>],
                             [list |-> {<<"staff">>}], [other |-> "object"]}}

Issuers ==
  {<<"https://idp.example">>, <<"https://accounts.google.com">>,
   <<"https://login.microsoftonline.com", "/", "tenant", "/v2.0">>}
Audiences == {{<<"mcp">>}, {<<"azure app">>}, {<<"google app">>, <<"other">>}}

Token(p, iss, aud, key, exp, claims) ==
  [owner |-> p, iss |-> iss, aud |-> aud, key |-> key, exp |-> exp, claims |-> claims]

Forged == 99

MCTokens ==
  UNION {{Token(p, iss, {<<"mcp">>}, 1, 1, n @@ Member) : iss \in Issuers, n \in Names(p)}
      \cup {Token(p, iss, {<<"mcp">>}, 1, 1, <<"email">> :> Text1(p) @@ r) : iss \in Issuers, r \in Roles}
      \cup {Token(p, iss, aud, key, exp, <<"email">> :> Text1(p) @@ Member) :
              iss \in Issuers, aud \in Audiences, key \in {1, 2, Forged}, exp \in 0..1}
    : p \in {"ann", "bob"}}
=============================================================================

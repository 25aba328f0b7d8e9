------------------------------- MODULE Config -------------------------------
(***************************************************************************)
(* What the program makes of its environment (internal/config/config.go).  *)
(* An environment is a function from the names of the variables that are   *)
(* set to their texts: a variable may be unset, empty, blank or padded.    *)
(* Error messages are left out: Load refuses, or returns every setting.    *)
(***************************************************************************)
EXTENDS Text, TLC

CONSTANT Numerals   \* bound: the integers that texts denote

ASSUME NumeralsAssumption ==
  /\ Numerals \subseteq Int
  /\ \A m, n \in Numerals : ToString(m) = ToString(n) => m = n

Refused == [refused |-> TRUE]

envString(env, key, def) == IF key \in DOMAIN env THEN env[key] ELSE def

\* strconv.Atoi and strconv.ParseBool; {} when they fail.
Atoi(text)      == {n \in Numerals : text = <<ToString(n)>>}
ParseBool(text) == {b \in BOOLEAN : text = <<IF b THEN "true" ELSE "false">>}

envInt(env, key, def)  == IF key \in DOMAIN env THEN Atoi(env[key]) ELSE {def}
envBool(env, key, def) == IF key \in DOMAIN env THEN ParseBool(env[key]) ELSE {def}

\* requireEnv, and required of loadBroker: no variable may be unset or blank.
Trimmed(env, key)     == TrimSpace(envString(env, key, <<>>))
requireEnv(env, keys) == \A key \in keys : Trimmed(env, key) # <<>>

Transport(env) == envString(env, "MCP_TRANSPORT", <<"stdio">>)
AuthMode(env)  == envString(env, "MCP_AUTH_MODE", <<"off">>)

NamedProvider(env) == TrimSpace(envString(env, "MCP_BROKER_PROVIDER", <<"generic">>))

\* Only broker mode reads the provider.
Provider(env) == IF AuthMode(env) = <<"broker">> THEN NamedProvider(env) ELSE <<"generic">>

(***************************************************************************)
(* Endpoints, audience and credentials of each provider.                   *)
(***************************************************************************)
entraAuthorityBase == <<"https://login.microsoftonline.com">>
googleAccountsBase == <<"https://accounts.google.com">>
googleTokenBase    == <<"https://oauth2.googleapis.com">>

deriveEntra(env) ==
  LET client == Trimmed(env, "AZURE_CLIENT_ID")
      base   == entraAuthorityBase \o <<"/">> \o Trimmed(env, "AZURE_TENANT_ID")
  IN [issuer       |-> base \o <<"/v2.0">>,
      resourceURI  |-> TrimSpace(envString(env, "MCP_RESOURCE_URI", client)),
      authURL      |-> base \o <<"/oauth2/v2.0/authorize">>,
      tokenURL     |-> base \o <<"/oauth2/v2.0/token">>,
      clientID     |-> client,
      clientSecret |-> Trimmed(env, "AZURE_CLIENT_SECRET")]

deriveGoogle(env) ==
  LET client == Trimmed(env, "GOOGLE_CLIENT_ID")
  IN [issuer       |-> googleAccountsBase,
      resourceURI  |-> TrimSpace(envString(env, "MCP_RESOURCE_URI", client)),
      authURL      |-> googleAccountsBase \o <<"/o/oauth2/v2/auth">>,
      tokenURL     |-> googleTokenBase \o <<"/token">>,
      clientID     |-> client,
      clientSecret |-> Trimmed(env, "GOOGLE_CLIENT_SECRET")]

\* generic: every endpoint explicit.
Explicit(env) ==
  [issuer       |-> Trimmed(env, "OIDC_ISSUER"),
   resourceURI  |-> Trimmed(env, "MCP_RESOURCE_URI"),
   authURL      |-> Trimmed(env, "OIDC_AUTHORIZE_URL"),
   tokenURL     |-> Trimmed(env, "OIDC_TOKEN_URL"),
   clientID     |-> Trimmed(env, "OIDC_CLIENT_ID"),
   clientSecret |-> Trimmed(env, "OIDC_CLIENT_SECRET")]

\* The variables each provider cannot do without.
ProviderKeys ==
  [p \in {<<"entra">>, <<"google">>, <<"generic">>} |->
     CASE p = <<"entra">>  -> {"AZURE_TENANT_ID", "AZURE_CLIENT_ID", "AZURE_CLIENT_SECRET"}
       [] p = <<"google">> -> {"GOOGLE_CLIENT_ID", "GOOGLE_CLIENT_SECRET"}
       [] OTHER -> {"OIDC_CLIENT_ID", "OIDC_CLIENT_SECRET", "OIDC_AUTHORIZE_URL", "OIDC_TOKEN_URL"}]

\* A token endpoint taken from its variable where there is one.
deriveProviderOverridable(env) ==
  CASE Provider(env) = <<"entra">>  -> deriveEntra(env)
    [] Provider(env) = <<"google">> ->
         [deriveGoogle(env) EXCEPT !.tokenURL = TrimSpace(envString(env, "OIDC_TOKEN_URL", @))]
    [] OTHER                        -> Explicit(env)

deriveProvider(env) ==
  CASE Provider(env) = <<"entra">>  -> deriveEntra(env)
    [] Provider(env) = <<"google">> -> deriveGoogle(env)
    [] OTHER                        -> Explicit(env)

\* The settings of r, and those of s that r has not.
Joined(r, s) == [x \in (DOMAIN r) \cup (DOMAIN s) |-> IF x \in DOMAIN r THEN r[x] ELSE s[x]]

(***************************************************************************)
(* The parts of the configuration: what each accepts, and its settings.    *)
(***************************************************************************)
loadAccessPolicy(env) ==
  [identityClaim |-> envString(env, "OIDC_IDENTITY_CLAIM", <<"email">>),
   requiredClaim |-> Trimmed(env, "OIDC_REQUIRED_CLAIM"),
   requiredValue |-> envString(env, "OIDC_REQUIRED_VALUE", <<>>)]

AcceptsPolicy(env) ==
  loadAccessPolicy(env).requiredClaim # <<>> => loadAccessPolicy(env).requiredValue # <<>>

AcceptsOIDC(env) ==
  /\ deriveProvider(env).issuer # <<>>
  /\ deriveProvider(env).resourceURI # <<>>
  /\ AcceptsPolicy(env)

\* The base URL as it was written.
PublicURLAsWritten(env) == Trimmed(env, "MCP_PUBLIC_URL")

PublicURL(env) == TrimRight(Trimmed(env, "MCP_PUBLIC_URL"), "/")

\* Blank entries kept.
RedirectHostsAll(env) ==
  {TrimSpace(h) : h \in Split(envString(env, "MCP_ALLOWED_REDIRECT_HOSTS", <<>>), ",")}

RedirectHosts(env) ==
  {TrimSpace(h) : h \in Split(envString(env, "MCP_ALLOWED_REDIRECT_HOSTS", <<>>), ",")} \ {<<>>}

loadBroker(env) ==
  [publicURL            |-> PublicURL(env),
   AllowedRedirectHosts |-> RedirectHosts(env),
   scopes |-> Fields(envString(env, "OIDC_SCOPES", <<"openid", Space, "profile", Space, "email">>))]

AcceptsBroker(env) ==
  /\ Provider(env) \in DOMAIN ProviderKeys
  /\ requireEnv(env, ProviderKeys[Provider(env)])
  /\ requireEnv(env, {"MCP_PUBLIC_URL"})

AcceptsServer(env) ==
  /\ Transport(env) \in {<<"stdio">>, <<"http">>}
  /\ AuthMode(env) \in {<<"off">>, <<"bearer">>, <<"broker">>}
  /\ AuthMode(env) \in {<<"bearer">>, <<"broker">>} => AcceptsOIDC(env)
  /\ AuthMode(env) = <<"broker">> => AcceptsBroker(env)

\* Parts that the mode does without stay at their zero values.
OIDC(env) ==
  LET d == deriveProvider(env)
  IN Joined([issuer |-> d.issuer, resourceURI |-> d.resourceURI], loadAccessPolicy(env))

ServerParts(env) ==
  CASE AuthMode(env) = <<"off">>    -> <<>>
    [] AuthMode(env) = <<"broker">> -> Joined(OIDC(env), Joined(deriveProvider(env), loadBroker(env)))
    [] OTHER                        -> OIDC(env)

loadServer(env) ==
  Joined([transport |-> Transport(env),
          HTTPAddr  |-> envString(env, "MCP_HTTP_ADDR", <<":8080">>),
          authMode  |-> AuthMode(env)], ServerParts(env))

MaxPort == 65535

Ports(env)   == envInt(env, "CLICKHOUSE_PORT", 9000)
Secures(env) == envBool(env, "CLICKHOUSE_SECURE", FALSE)

AcceptsClickHouse(env) ==
  /\ \E port \in Ports(env) : port \in 1..MaxPort
  /\ Secures(env) # {}

loadClickHouse(env) ==
  [Host     |-> envString(env, "CLICKHOUSE_HOST", <<"localhost">>),
   Port     |-> CHOOSE n \in Ports(env) : TRUE,
   User     |-> envString(env, "CLICKHOUSE_USER", <<"default">>),
   Password |-> envString(env, "CLICKHOUSE_PASSWORD", <<>>),
   Database |-> envString(env, "CLICKHOUSE_DATABASE", <<"default">>),
   Secure   |-> CHOOSE b \in Secures(env) : TRUE]

Load(env) ==
  IF ~AcceptsClickHouse(env) \/ ~AcceptsServer(env) THEN Refused
  ELSE Joined(loadServer(env), loadClickHouse(env))
=============================================================================

---------------------------- MODULE MCBrokerProxy ----------------------------
(***************************************************************************)
(* Instances of BrokerProxy for TLC.                                       *)
(***************************************************************************)
EXTENDS BrokerProxy, TLC

MCLoopback == {<<"localhost">>}
MCAllowed  == {<<"claude", ".", "ai">>}

Uri(s, h) == [scheme |-> s, host |-> h, fragment |-> FALSE]

Loopback   == Uri("http", <<"localhost">>)
Web        == Uri("https", <<"claude", ".", "ai">>)
Subdomain  == Uri("https", <<"mcp", ".", "claude", ".", "ai">>)
Lookalike  == Uri("https", <<"not", "claude", ".", "ai">>)
Clear      == Uri("http", <<"claude", ".", "ai">>)
Fragment   == [Web EXCEPT !.fragment = TRUE]

Get(u, s) == [verb |-> "GET", redirect |-> u, state |-> s, pkce |-> "S256"]

\* Every kind of request HandleAuthorize tells apart, and a pair of permitted
\* ones that differ in the state alone.
MCAll == {Get(Loopback, "s"), Get(Loopback, ""), Get(Web, "s"), Get(Subdomain, "s"),
          Get(Lookalike, "s"), Get(Clear, "s"), Get(Fragment, "s"),
          [Get(Web, "s") EXCEPT !.pkce = "plain"],
          [Get(Web, "s") EXCEPT !.verb = "POST"]}

\* One that works and one that is refused.
MCPair == {Get(Loopback, "s"), Get(Lookalike, "s")}

\* Requests of two logins: in one place with one state or two, in two places, and
\* one that is refused.
MCMixed == {Get(Loopback, "s"), Get(Loopback, ""), Get(Web, "s"), Get(Lookalike, "s")}

MCAdvertised == Metadata.grants
MCGrants     == Metadata.grants \union {"client_credentials"}

MCStill == {0}
MCSteps == {-1, 0, 1}

Symmetric == Permutations(Flows) \union Permutations(Tries) \union Permutations(Nonces)
=============================================================================

# clickhouse-mcp in TLA+

Specifications, model-checking runs and machine-checked proofs for
`clickhouse-mcp`, a Model Context Protocol server for ClickHouse: a small Go
program whose handlers run concurrently, keep almost no state of their own, and
depend on parties that do (browsers, clients, an identity provider, a ClickHouse
server, the operating system). What can go wrong is therefore mostly *between*
handlers: the order in which stateless pieces of one login, listing or shutdown
come together.

## 1. Inventory

| Component | Source | State | Operations | What makes it correct |
| --- | --- | --- | --- | --- |
| OAuth broker | `internal/auth/broker.go`, `broker_proxy.go` | one HMAC key per process; everything else travels in the signed `state` | metadata, registration, authorize, callback, token | a code reaches only the client whose login was approved, on a permitted host, in time; tokens only for one's own login; every token call is answered; what is advertised works |
| ClickHouse tools | `internal/tools` | none between calls; per call its cursor, table list, column lists | `list_databases`, `list_tables`, `run_query`, `run_statement`, `ping` | a listing is what the server held at one moment, `truncated` is true exactly when something was cut, verdicts are true, connections come back |
| Driver wrapper | `internal/clickhouse` | the pool; a progress counter per statement | `New`, `ExecWritten`, `CappedContext` | rows written are counted once and only when the statement succeeded |
| SQL classification, row bounding | `internal/query/result.go` | none | gates, `Bound`, `Shape` | no statement is dropped, queries and writes are told apart by their first word, the wrap keeps the query, the sentinel row |
| Serialization | `internal/query/serialize.go` | none | `ToJSONValue` | each value, however deep, is rendered by its own type; no precision lost |
| Bearer verifier | `internal/auth/verifier.go` | JWKS cache in a library | `NewVerifier`, `Verify` | exactly the entitled are served: audience, claim gate and identity fail closed, key rotation needs no restart; sessions keep their principal |
| HTTP process | `cmd/clickhouse-mcp/main.go` | phase of `main`, the `srvErr` channel, listener, signal context | start-up, `buildHTTPHandler`, `runHTTP`, shutdown | in-flight calls drain, the drain ends, the pool outlives them, failures are reported |
| Configuration | `internal/config` | none | `Load` | what starts is complete; a named provider cannot be repointed; bearer mode reads the explicit variables only |
| Server wiring | `internal/server` | none | `New` | registers every tool |

How they interact: `main` opens the pool, builds the handler (verifier, broker)
and serves. `net/http` runs each request in a goroutine of its own. MCP calls
reach the tools, which share the pool. The broker's three endpoints never call
each other: authorize and callback talk through the browser and the identity
provider, callback and token through the client. The signal context reaches
`main`, the ping and the discovery at start-up, but no request.

The hard parts: logins that overlap or are reloaded; a restart (new key) in the
middle of one; a wall clock that is set; a token answer lost after the code was
redeemed; DDL between two queries of one call; a pool smaller than the number of
calls; progress packets from another goroutine; a signal that races a listener
error; streams that never end against a bounded drain. Three parts have no state
and are hard for another reason: text taken apart by hand (SQL, type names,
environment variables), where what matters is which combinations go wrong.

## 2. Modules

| Module | What it is |
| --- | --- |
| `AuthCodeFlow` | the broker's promise, abstractly: a login is asked, approved, delivered, redeemed, granted, in that order and each for the same client |
| `BrokerProxy` | the three endpoints of the broker, its key and clocks, with clients, browsers and the identity provider as environment; refines `AuthCodeFlow` |
| `BrokerProxyProof` | theorems about `BrokerProxy`: whose login each message belongs to, and the refinement |
| `BrokerStateProof` | theorems about `BrokerProxy`: the signed state, its clock and its hosts |
| `BrokerTokenProof` | theorems about `BrokerProxy`: token calls that follow each other, and their rejections |
| `ToolCalls` | the five tools as concurrent calls over one pool against a catalog and data that change |
| `ToolCallsProof`, `ToolListingsProof` | theorems about `ToolCalls`: types, rows, caps and counts; listings, verdicts and columns |
| `SqlGate` | the SQL scanners and the wrap of `result.go` against a reference that splits a text into lexemes |
| `SqlGateProof` | theorems about `SqlGate`, for texts of any length |
| `HttpServer` | the life of the process, over HTTP and over stdio |
| `HttpServerProof` | theorems about `HttpServer` |
| `Text` | texts as sequences of symbols; Go's `strings` functions on them |
| `Config` | `config.Load` over environments |
| `AccessGate` | extends `Config`: the process an environment starts, the bearer gate, tokens, keys, sessions, and the broker's public endpoints |
| `AccessGateProof` | theorems about `AccessGate` and the `Config` it extends |
| `Serialize` | `ToJSONValue` and the type names it takes apart, against a conversion that follows the type's tree |
| `MCBrokerProxy`, `MCToolCalls`, `MCHttpServer`, `MCSqlGate`, `MCAccessGate`, `MCSerialize` | the values the `.cfg` files give the constants |

### BrokerProxy

| Code | Model |
| --- | --- |
| `validateClientRedirect` | `PermittedRedirect`; a URI is a scheme, a host (a sequence of labels and dots, so that label boundaries are real) and whether it has a fragment |
| `signState`, `stateMAC`, `verifyState` | `SignState`, `StateMAC`, `VerifiedState`, `Fresh`; a MAC is the pair of the key and what it covers |
| `HandleAuthorize` | `HandleAuthorizeAccept`, `HandleAuthorizeRefuse` |
| `HandleCallback` | `HandleCallbackAccept`, `HandleCallbackRefuse` |
| `HandleToken` | `HandleTokenSend`/`Refuse` (up to `client.Do`), then `Relay`, `Withhold`, `Timeout` or `ClientHangsUp` |
| `NewProxy` at the next start | `Restart`: a key that never was before; calls in flight are gone |
| `time.Now` | `now = uptime + offset`: real time plus how far the wall clock is off; `StepClock` sets it |

`upAuths`, `callbacks` and `redirects` are sets that only grow, so that a browser
message may be lost (nobody acts on it), repeated, delayed and overtaken. The
fields `flow`, `issued`, `by` and `at` in them are history: no guard of the
broker reads them. Each handler is one action except `HandleToken`, which waits
for the upstream in the middle. `Faults` names what a run lets happen: page
reloads, denials, wrong methods (`HandleCallbackRefuse`, `HandleTokenRefuse`),
restarts, time-outs, hang-ups, upstream failures, and bodies that hold the client
secret or exceed 1 MiB. A form that cannot be parsed and a request that cannot be
built are the same refusal.

The history also keeps how far the clock was off when a state was signed (`off` of
`upAuths`) and when its callback was accepted (`off` of `redirects`), so that
`StateOutlivesNothing` says exactly how much longer, or shorter, a state lasts in
real time: by the difference of those two readings and no more.

Identities are not modelled beyond the login they belong to: whoever approves at
the provider approves the login whose page it is.

### ToolCalls

A call steps from query to query (`at`), takes a connection for each (`Acquire`)
and gives it back (`Release`: `rows.Close`, or the end of `Exec`). A query is
answered atomically, as ClickHouse answers from `system.tables`; between two
queries `ChangeCatalog` and `AddRow` may change anything. Names are numbers in
`ORDER BY` order, a table is its number of columns, a statement is the class the
gates of `internal/query` give it. `PlusOne` is Go's `limit+1` with its
wrap-around. `WriteBlock`, `Progress` and `EndOfStream` are the server writing a
block, the driver's goroutine counting the packet that reports it, and the end of
the stream: packets are read in order, so `Exec` returns (`ExecDone`) when every one
that was sent has been. Whether any is sent is the server's: `Reporting` has the
revisions met, those that report writes and those that do not, and the count of the
latter is 0. That is how far the code's "best-effort" goes: `WrittenIsCounted` asks
for all rows from the first and 0 from the second. After a cancellation blocks and
packets may go on. `seen` is history: the states of the server while the call ran,
against which results are judged. The `max_result_rows` cap is modelled; the byte
and time caps are a failing query (`QueryFails`).

### HttpServer

In HTTP mode `main` walks through start-up (`LoadConfig`, `Ping`, `BuildGate`, `Listen`,
`GoServe`), waits in `select`, and ends by `Fatal` (`log.Fatalf`: exit code 1 at
once, deferred calls skipped) or through `TakeSignal`, the drain
(`ShutdownReturns` or `Deadline`), `ClosePool` and `Return`. When the channel and
the signal context are both ready, both actions are enabled, as in `select`. The
clean branch of `TakeServeError` is in the code but cannot be reached, because
only `runHTTP`'s own `Shutdown` makes `Serve` return `ErrServerClosed`. In stdio
mode the SDK's `Run` ends with its input, fails, or is cancelled.

`Shutdown` and `Close` close the listeners that `Serve` has put on its list. When the
signal comes before `Serve` has got that far (`serve = "starting"`), the listener
stays open through the drain, takes connections nobody serves, and is closed by
`Serve` itself, which finds the server shut down, or by the end of the process.
`call` says what became of a request, `working` whose handlers still run: a client
that hangs up or a connection that `Close` severs leaves its handler behind
(`HandlerEnds`), `Shutdown` waits for handlers, `Close` does not. So after the drain's
bound the pool is closed under handlers that still use it. `PoolOutlivesCalls` says
that this happens to those alone, and that nobody waits for their answers.

### SqlGate

An agent types a text, one symbol at a time (`Type`); every prefix is judged.
Symbols are the characters the scanners look at and words that stand for runs of
identifier characters; upper case stands for either case. The loop of
`ContainsMultipleStatements` is `Scanned`, its variables after each character, one
`Turn` after the other; that of `leadingKeyword` is `TokenStart`, where it ends up
from each place; `stripLineComments` is `Remains`, what is left of each prefix. All
three are recursive functions over places. `HasUnsupportedOutputClause` and `Bound`
follow the code on what `TrimSpace` and `TrimTail` leave.

The reference is written from how ClickHouse reads SQL: `LexemeAt` is the word,
literal with its escapes, comment or sign that starts at a place, `Places` are those
where blanks and lexemes start when the text is read from its beginning, `Texts` is
what the server makes of it, comments and blanks gone. A backslash escapes in all
three kinds of quotes; `$$` opens and ends a heredoc (tagged ones are not modelled);
`--` and `#!` (which stands for `#` and a space too) open a comment to the end of the
line. Block comments do not nest in the reference.

The code knows less: no heredocs, no `#` comments, no escape between backticks, and it
misses the separator behind one (`RealSeparatorsArePlaced` is violated). Texts that
use these, or hold a block comment's mark inside another (`Foreign`), are what
`KnownLexemes` leaves out of the properties that hold. `RoutedByTheFirstWord` is the
exception: it holds of them too, and leaves out only what `Misread` names, a block
comment in front of the first word that `leadingKeyword` ends too early. Texts in which
something is opened and never closed (`Complete` fails) are left to the server's parser.

### Config and AccessGate

An environment is a function from the variables that are *set* to their texts,
so unset, empty, blank and padded are four different things, as they are in
`os.LookupEnv` and `strings.TrimSpace`. `Load` refuses it or returns the
settings; each loader has its settings (`loadBroker`) and its condition
(`AcceptsBroker`), the early returns of the code. `NumeralsAssumption` says that
the numerals an environment may hold are written differently when they differ.

`AccessGate` starts from complete environments, one per mode and provider, that
an operator edits (`Edit`), starts (`Start`: `Load`, then the gate of
`buildHTTPHandler`) and stops. While the process serves, its issuer rotates keys,
time passes, and callers open sessions (`Open`) and ask (`Ask`). `Verify` is the
code's; the signature check with its key cache and the sessions are external,
modelled from the comments at `verifier.go:27-29` and `61-63`. `Entitled` is the
reference: it reads the environment as the repository's README words it, and not
the settings that `Load` made. Who a token's principal is (`owner`) is the issuer's
to say; `NamesAssumption` is what the gate relies on: no two principals carry the
same text, up to blanks around it and unless it is blank, in the claims that may
name them. `TextAssumption` says that texts are sequences of symbols. A session that
lives on after the token that opened it has expired is not looked at: each request
is judged by its own token.

`DiscoveryLeadsToLogin` compares whole endpoints: the host of the public URL, then one
of the routes that `RegisterRoutes` mounts at the root of the mux. It leaves out public
URLs with a path, which `loadBroker` accepts and a reverse proxy would have to take off.

### Serialize

A column type is a tree: leaves, wrappers, maps, tuples with and without names.
`Show` is the text ClickHouse gives it, `Scan` the Go values the driver makes of
it (both external; the kinds of value are disjoint, as Go's dynamic types are);
`ToJSONValue` sees only the value and the text. `Rendered`
converts the same value along the tree. Results are abstract (`text`, `date`,
`datetime`, a number with the Go type it came from), for the properties only ask
which form a value takes.

## 3. Runs

| Run | Question | Bounds |
| --- | --- | --- |
| `broker_clock` | Which hosts do codes reach? How long, and for whom, is a state good? Does `StateInv` hold? | 1 login, 9 kinds of request (loopback with and without state, allowed host, subdomain, lookalike, clear text, fragment, wrong PKCE, wrong verb), 4 ticks, clock offsets -1, 0 and 1, age 1, skew 1, 1 restart, reloads, denials |
| `broker_token` | Do codes and tokens go to the right client? Is `AuthCodeFlow` implemented? Does the proofs' invariant hold? | 2 logins that may share a place, one exchange each, all token faults, wrong methods, 1 restart, reloads, denials |
| `broker_answers` | Does a conforming client get its tokens, is each token call answered and each rejection explained? Does `CallInv` hold? | 1 login, 2 token calls, 2 nonces, reloads, 1 restart, all losses of an answer |
| `tool_listings` | Are listings, verdicts and columns true? Does the proofs' invariant hold? | 1 call, 2 databases of 2 tables, 3 catalog changes, defaults 1 and 2, columns cap 1, limits 0, 1, 2 and the largest int |
| `tool_statements` | Are rows and counts honest, and is every call answered? | 2 calls of up to 2 queries over 1 connection, 1 table, 2 blocks and 2 rows of others, limits 0 (the default 2), 1 and 9, cap 3, servers that report writes or not, full pools, failures and cancellations |
| `http_server` | Drain, exit code, pool, progress, the proofs' invariant | 2 calls and 1 stream, 2 ticks of drain, 3 auth modes and stdio, every fault |
| `sql_gate` | Do the scanners agree with the lexemes? | every text of up to 6 symbols over 5 alphabets of 7 to 9 symbols |
| `sql_statements` | Are all separators seen? (No.) | texts of up to 6 symbols: a word, backticks, backslashes, separators |
| `sql_word` | Is every query recognised? (No.) | texts of up to 3 routing symbols |
| `access_gate` | What does a process that starts have, and who gets past its gate? Does the proofs' invariant hold? | 5 complete environments, 22 variables, 2 edits (requests after up to 1), tokens of 2 principals and 3 issuers with every kind of claim, 2 keys, 2 instants, 1 session at a time |
| `serialize` | Is each value rendered by its own type? | 12 leaves, 3 kinds of key, every type of up to 3 constructors |
| `serialize_numbers` | Do large integers become text? (Not `Int64`.) | 2 leaves, 2 constructors |

Why the bounds are enough: a login is confused with another one at a time, and
two requests that share redirect URI and state are both in the sets, so two
logins with two nonces show every mix-up between a pair; a third login meets
each of the others in the same way, and `BrokerProxyProof` removes the bound.
Limits are set so that fewer, exactly, one more and many more items than the
limit occur, and the cap is met from both sides. Three catalog changes suffice
for a database to vanish and come back with a table between two queries of a
call. For the clock, every distance from inside to outside both ends of the
freshness window occurs, with the wall clock set in either direction: set back by 2 it
lets a state of age 1 live for 3 of the 4 ticks, and the check must refuse it at the
fourth.
`MaxUptime`, `MaxKey`, `MaxChanges`, `MaxData`, `MaxLen`, `MaxDepth`, `MaxEdits`,
`ServedEdits` and `MaxTime` are the bounds on what grows; they are in the guards
and named where they are declared.

The scanners of `result.go` look at most two characters ahead and keep one of six
states, so six symbols hold an opening, something inside, an ending and a
separator with something after it; the five alphabets keep apart what does not
interact. A type name is peeled one level at a time, so three levels show a
constructor that is handled wrongly above, inside and beside every other. The
complete environments set *every* variable, also those the mode does not read: one
edit then shows each variable's effect and two each pair's.

Deadlock is not checked: in every model the environment may legally stop
(browsers close, all calls are answered, the process has exited).

Fairness: `net/http` and the driver run goroutines of their own, so a broker
handler that can go on does (`BrokerFairness`); timers run out (`Tick`,
`HandleTokenTimeout`); the driver lends a free connection and ClickHouse answers
within `max_execution_time` or the read time-out (`ToolCalls!Fairness`). What
people and the identity provider do is not part of that: `LoginSucceeds` takes it
as a premise (`EnvironmentFairness => ...`), for it is about clients that follow
through.
`TokenCallIsAnswered` assumes nothing of the upstream, and
`SignalEndsTheProcess` nothing of the issuer or of requests.

The inductive invariants of section 4 (`Inv`, `StateInv`, `CallInv`) are checked
by a run of their component in which each of their conjuncts is met; `WriteInv`
belongs to its proof alone. Those of
`ToolCalls`, `HttpServer` and `AccessGate` contain the type invariant.

Every property of a passing run has a mutant: a variant of one mapped definition
that a plausible bug would produce (a dropped field, a missing sentinel, `Close`
for `Shutdown`), kept in the module above the definition it varies, under which
the property fails in the same run.

### What the violations show

* `sql_statements`: between backticks the scanner knows no escape, where the server
  does. In `` `\``;x `` it takes the second backtick for the end and the third for
  the start of another identifier, so the `;` stands inside a literal for it and
  outside for the server: the text is sent as one statement, and `Exec` runs the first.
  `result.go:61` says the quote and comment state "is enough to place the real
  separators". Heredocs and `#` comments that hold a quote mislead it in the same way.
* `sql_word`: `leadingKeyword` ends the first word only at white space or an
  opening parenthesis. `SELECT*FROM t` and `SELECT/* c */x` are therefore not
  row-returning: `run_query` refuses them, `run_statement` runs them and returns
  no rows.
* `serialize_numbers`: README.md:16 and `result.go:223` promise large integers as
  strings. An `Int64` has no case of its own in `ToJSONValue` and stays a JSON
  number, alone and inside any container (`serialize_test.go:203` expects that of
  a small one).

### Other differences between code and documentation

Met while modelling; the models follow the code, and no run is spent on them.

* ADR-0008:69 counts "nonce+timestamp against replay" among the guards;
  `verifyState` remembers no nonce, so a repeated callback is accepted again.
  Tokens stay safe because the upstream's code is single-use.
* `table=` is described as giving the "full column schema" (`list_tables.go:25`);
  `tableColumns` cuts it at 200 columns, and no argument gets the rest.
* The second query of `list_tables` tells an empty database from a missing one
  (`list_tables.go:82`). A database that appears *with* its tables between the
  two (ATTACH, RENAME DATABASE) is reported as empty, which it was at no moment:
  `VerdictsAreTrue` is about each half of the verdict on its own.
* A required value without a required claim is accepted and gates nothing, though
  README.md:101 and `config.go:304` say both or neither. A *blank* value with a
  claim is accepted too, and then only a list that holds the same blanks passes.
  `RequiredSettingsAreThere` promises a value where there is a claim, and no more.
* `MCP_PUBLIC_URL=/` is accepted and trimmed to nothing, though `config.go:318-321`
  says that the public URL is among what is required; `RequiredSettingsAreThere` says
  that this is the one case. `https://x /` becomes a base that ends in a blank, which
  the advertised endpoints keep, and a URL with a path advertises endpoints under that
  path, while the mux serves its routes at the root.
* `serialize.go:52-53` and `64-67` say that the `net.IP` case must stand above that of
  `[]byte`. A type switch compares dynamic types, and a `net.IP` is no `[]byte`: the
  order has no effect, and the model has none.
* ADR-0008:44 and CONTEXT.md:40 list protected-resource metadata; no route serves
  it, and `bearerGate` advertises the audience as the metadata URL.
* A comment after the last `;` counts as a second statement, though
  `ContainsMultipleStatements` is described as allowing a trailing terminator; the
  clause scanner does not see `FORMAT` before a line break, or after `--` inside a
  literal or a block comment, and takes `INTO OUTFILE` inside a literal for a clause.
  `RefusedOnlyForAClause` names these shapes and leaves them out.
* `leadingKeyword` takes `/*/` for a whole comment, and the server does not: `/*/ SELECT
  */ INSERT ...` is an `INSERT` that is routed to `run_query`, though `result.go:19`
  says that the routing "keeps a write out of the Query path". What keeps it from running
  is the wrap, which only some of the row-returning keywords get.
  `RoutedByTheFirstWord` and `BlankMeansNothingToRun` leave these texts out (`Misread`).
* Dates in a tuple or map under `SimpleAggregateFunction` are rendered as
  datetimes: only one wrapper comes off per level of the value, and that one adds
  no level. `RenderedByItsType` leaves them out.

## 4. Proofs

TLC checks small instances; the theorems below hold for every value of the
constants that satisfies the named assumptions: any number of logins, calls,
tables, tokens and environments, any redirect URI, limit, clock and text. The
bounds on what grows (`MaxUptime`, `MaxData`, `MaxEdits`, ...) are parameters
like any other, so nothing proved depends on their being small.

| Module | Theorem | Property |
| --- | --- | --- |
| `BrokerProxyProof` | `TypeCorrect` | `Spec => []TypeOK` |
| | `InvHolds` | `Spec => []Inv` |
| | `CodeStaysHome` | `Spec => []CodeGoesToAskingClient` |
| | `TokensStayHome` | `Spec => []TokensOnlyForOwnLogin` |
| | `KeepsItsPromise` | `Spec => ImplementsAuthCodeFlow` |
| `BrokerStateProof` | `StateInvHolds` | `Spec => []StateInv` |
| | `CodesStayInside` | `Spec => []CodesLandOnPermittedHosts` |
| | `StatesExpire` | `Spec => []StateOutlivesNothing` |
| | `SkewIsHarmless` | `Spec => []SkewIsTolerated` |
| `BrokerTokenProof` | `CallInvHolds` | `Spec => []CallInv` |
| | `RejectionsAreExplained` | `Spec => []RejectionIsExplained` |
| `HttpServerProof` | `StagesHold` | `Spec => []Inv` |
| | `SuccessIsOrderly` | `Spec => []SuccessMeansOrderlyStop` |
| | `PoolIsClosedLast` | `Spec => []PoolOutlivesCalls` |
| | `CallsAreDrained` | `Spec => InFlightCallsAreDrained` |
| `ToolCallsProof` | `InvHolds`, `TypeCorrect` | `Spec => []Inv`, `Spec => []TypeOK` |
| | `RowsHold` | `Spec => []RowsAreHonest` |
| | `CapStaysAway` | `Spec => []LimitKeepsTheCapAway` |
| | `WrittenHolds` | `Spec => []WrittenIsCounted` |
| `ToolListingsProof` | `ListingsHold` | `Spec => []ListingsAreSnapshots` |
| | `VerdictsHold` | `Spec => []VerdictsAreTrue` |
| | `ColumnsHold` | `Spec => []ColumnsAreTheirTables` |
| `AccessGateProof` | `InvHolds`, `TypeCorrect` | `Spec => []Inv`, `Spec => []TypeOK` |
| | `ProviderHolds` | `Spec => []NamedProviderStaysPut` |
| | `ConfigHolds` | `Spec => []RequiredSettingsAreThere` |
| | `DiscoveryHolds` | `Spec => []DiscoveryLeadsToLogin` |
| | `SessionsHold` | `Spec => []SessionsKeepTheirPrincipal` |
| | `OnlyEntitledPass` | `Spec => []OnlyEntitledAreServed` |
| | `EntitledPass` | `Spec => []EntitledAreServed` |
| `SqlGateProof` | `TypeCorrect` | `Spec => []TypeOK` |
| | `OneStatementIsRun` | `Spec => []NoStatementIsDropped` |
| | `WrapIsTransparent` | `Spec => []WrapKeepsTheQuery` |
| | `QueriesStartWithSelect` | `Spec => []RoutedByTheFirstWord` |
| | `BlankTextsAreRefused` | `Spec => []BlankMeansNothingToRun` |
| | `RefusalsAreForAClause` | `Spec => []RefusedOnlyForAClause` |

### Whose login it is (`BrokerProxyProof`)

Assumed: `RequestAssumption`, `ClockAssumption`, `HostAssumption`,
`NullAssumption`, `NullsAreNoValues` (types of the requests, natural clock
constants, null values that are not values) and `FaultAssumption`.

Neither safety property is inductive. A redirect is right because the callback
it answers was, that because the authorize redirect it answers was signed for
its login, so `Inv` says of each message in the chain whose login it belongs to:
`SignedForItsLogin`, `CallbackOfARedirect`, `RedirectOfACallback`,
`CodeFromItsRedirect`, `FormOfItsLogin`, `AnswerToAForm`, `RedeemedByItsLogin`.
The last says that a redeemed code is the one its *own* client holds: the
upstream compares challenge and verifier, and both went through the broker
unchanged. `TokenInv` adds what the refinement needs about refresh tokens.
There is one lemma per group of actions, one step per action and below it one
per conjunct the action can disturb. The refinement maps each concrete step to
one abstract step or a stutter, using `Inv`.

### What a signed state says (`BrokerStateProof`)

The same assumptions. `StateInv` holds beside `Inv`: a blob was signed by the key
of its process for a permitted redirect, its timestamp is the time of its issue
as the clock of that moment showed it (`SignedByItsProcess`), no two blobs share
a nonce (`NoncesAreFresh`), and a redirect that was followed goes where a blob of
the same key says, inside the age that blob allows (`AcceptedInTime`). The
properties follow from it by arithmetic: two readings of a clock differ by the
real time between them and by what the clock was set in between, which the history
holds.

### One token call after the other (`BrokerTokenProof`)

A rejection is explained only if one knows *who* redeemed the code, so `CallInv`
says that a login has one call waiting at a time (`OneCallAtATime`), what the
handler's stage says of its form (`HandlerOfItsForm`), that each redeemed code
was redeemed by a call with that form (`RedeemedByACall`), and that an upstream
rejection has one of three causes (`RejectedForAReason`). When a handler
relays a rejection, an earlier call with the same code must then have lost its
answer, since a client with tokens sends no second exchange.

### Where `main` is (`HttpServerProof`)

Assumed: `StreamAssumption`, `ModeAssumption`, `DrainAssumption`,
`FaultAssumption`. `Inv` says for each stage of `main` what state the pool, the
listener and the serve goroutine are in (`PoolByStage`, `ListenerByStage`,
`ServeByStage`), where requests can then be (`CallsByStage`), and why `main`
left the `select` (`StopIsCalledFor`). After the `select` the listener is closed
unless `Serve` has yet to list it (`ListenerByStage`), and handlers still work only
when the drain has lasted its time (`CallsByStage`). That the pool outlives the calls
follows, since it is closed only in stages where no call is in flight.

### What a call has seen (`ToolCallsProof`, `ToolListingsProof`)

Assumed: `PoolAssumption`, `LimitAssumption` (each default is below the cap, the
cap below the largest int), `NameAssumption` (finite sets of names: a server has
finitely many tables), `ChangeAssumption`, `BoundAssumption`,
`RequestAssumption`, `ReplyAssumption`.

The server changes between the queries of a call, so what a reply says is true
only of what the call has *seen*. `Inv` says that a running call has seen the
server's present state (`SeesTheServer`), asks what its tool asks
(`QueryOfItsTool`), and carries from query to query only what some moment
showed: an empty list (`EmptyWasSeen`), a page of names (`ListedAtOneMoment`),
the columns so far (`ColumnsSoFar`). Every other step leaves those facts alone
because `seen` only grows (`KeepsFacts`). `PageFacts` is the argument of the
sentinel row: the first limit+1 of a sorted list, cut, are the first limit of the
set, and one was cut exactly if there were more; `LimitFacts` does the wrap-around
of `limit+1` at the largest int. `WriteInv` says that each block of a statement is on
its way, counted, or never reported, also for callers that have gone: the count is
right at the end of the stream for that reason, and nothing in `ExecDone` asks for it. `Endings` lists the ways in which a call gets
its reply; each property is then proved for each of them. `Ascending` sorts by
rank (the k-th name has k-1 before it) so that this can be shown without
recursion.

### What an environment means (`AccessGateProof`)

Assumed: `GateAssumption`, `TextAssumption`, `NamesAssumption`,
`NumeralsAssumption`. `Inv` is the type invariant together with `CfgIsLoaded`
(the settings are those of the environment the process was started in),
`EnvIsTexts` and `SessionsHavePrincipals` (a session behind the gate is that of
a token which names somebody). The rest is about functions, not steps, and the
lemmas say what they do to *every* text: `TrimFacts` and `TrimTwice` (what
remains has no blank at either end; trimming again changes nothing; texts that
have none are kept), `FieldsAreWords` (`Fields` returns exactly the words that
stand between blanks, which is what makes a claim of several values read as the
issuer meant it), `LoadFacts` (each accepted mode's conditions and settings),
`IssuerFacts` and `AudienceFacts` (what the loaders made is what the README's
wording gives). `OnlyEntitledPass` and `EntitledPass` put them together in both
directions. Sets of positions have least elements by the well-foundedness of the
naturals (`LeastOfNaturals`), so no induction over texts is needed.

`SessionsHold` rests on `NamesAssumption`, and must: the four naming claims are
one name space (`verifier.go:82`), so where an issuer lets one principal choose
another's name in any of them, the code merges the two.

### How a text is read (`SqlGateProof`)

Assumed: `AlphabetAssumption` (which symbols there are) and `MaxLenAssumption`. The
length of a text is bounded by a parameter, so the theorems hold for texts of any
length. Typing adds nothing to the argument: each property is a lemma about every
text over the symbols, and the theorems apply it to `sql`.

* *Recursion.* A recursive function is a `CHOOSE` and says nothing until one exists.
  `LeastNatural` gives least elements of sets of naturals, `UpTo` and `DownFrom` the
  inductions along a text as facts about *sets of places*, and `Recursion` that the
  functions exist; the lemmas `...Facts` then state the equations each satisfies.
* *No second statement.* In a text of known lexemes, wherever one starts, the scanner is
  in its normal state and skips nothing (`InStepEverywhere`). `InStepNext` carries this
  over one lexeme:
  over a literal by counting the backslashes of a run, which the scanner skips in
  pairs and the reference by parity (`EscapedNext`). A separator with a token after it
  is therefore met in the normal state (`SeveralAreSeen`).
* *The first word.* `TokenStart` passes over the very blanks, comments and
  parentheses that the reference passes over (`TokenStartIsFirst`), unless one of the
  comments is `Misread`.
* *The wrap.* The query stands unchanged inside the wrapped text
  (`BoundKeeps`, `BoundIsShared`), and a lexeme that starts in a stretch two texts
  share is the same in both (`LexemeShared`), except that a comment of two dashes or a
  word could go on behind it: the newline in front of the closing parenthesis ends
  both. So the server reads the stretch alike (`StretchReadAlike`), and what was
  trimmed is blanks and terminators.
* *The output clause.* Unless two dashes stand in a literal or a block comment, what
  `stripLineComments` drops of a text of known lexemes is its comments of two dashes
  (`DroppedIsComment`, `CommentIsDropped`). What remains is an increasing choice of
  places (`RemainsPicks`): two symbols adjacent in it had only dropped ones between
  them (`Adjoining`). A `FORMAT` that is a word of its own, last but one, in what
  remains is one in the query (`WordPlace`, `WordAlone`), and no token stands behind
  the name but terminators (`ClauseStands`).

### Only model-checked

* Liveness, because fairness is out of the prover's reach: `LoginSucceeds`,
  `TokenCallIsAnswered`, `CallsAreAnswered`, `SignalEndsTheProcess`,
  `ListenerFailureEndsTheProcess`.
* `RenderedByItsType`: a type is a tree and its conversion recursive operators, which
  the provers cannot be given.
* `QueriesAreRecognised`, `RealSeparatorsArePlaced` and `LargeIntegersAreStrings`,
  which are false.

## 5. Not modelled, and why

* What happens inside the MCP SDK: the stdio transport's `Run`, the streamable
  HTTP protocol. Of its sessions only the bond to a user is modelled.
* Signature algorithms and the discovery document: go-oidc's.
* CORS headers, JSON layout, wording, `HasTopLevelOrderBy` (it words a note).
* The issuer being unreachable when keys have to be fetched: the request is then
  refused; `EntitledAreServed` is about an issuer that answers.
* Identities that two principals share: `NamesAssumption` excludes them. An
  operator who names a shared claim in `OIDC_IDENTITY_CLAIM` merges its bearers.
* Characters inside enum labels and quoted field names (`Serialize`): a label
  with a parenthesis shifts the types of the fields after it.
* The byte cap and the exact time cap of a query: a failing query stands for them.
* `internal/clickhouse/testsupport`: test code.

## 6. Plan

What is left is a composition of `HttpServer` and `ToolCalls`: what a handler that
outlives its connection still gets from a pool that is closed under it.
`PoolOutlivesCalls` says which handlers that can be, and not what becomes of them.

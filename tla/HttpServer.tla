----------------------------- MODULE HttpServer -----------------------------
(***************************************************************************)
(* The life of the process (cmd/clickhouse-mcp/main.go).  In HTTP mode     *)
(* main starts up, runHTTP serves until a signal comes or the listener     *)
(* fails, drains the calls in flight for a bounded time and ends the       *)
(* process.  In stdio mode the MCP SDK serves one client until its input   *)
(* ends.                                                                   *)
(*                                                                         *)
(* Three parties run at once: main's goroutine, the goroutine around       *)
(* srv.Serve, and one goroutine per request.  A call is one HTTP request   *)
(* on a connection of its own.                                             *)
(***************************************************************************)
EXTENDS Integers

CONSTANTS
  Calls,       \* HTTP requests
  Streams,     \* those that are event streams: they never end on their own
  Modes,       \* what config may choose: an auth mode over HTTP, or "stdio"
  DrainTime,   \* the 5 s of runHTTP, in ticks
  Faults       \* which of FaultNames may happen

FaultNames == {"config", "clickhouse", "auth", "listen", "listener", "hangup"}

ASSUME StreamAssumption == Streams \subseteq Calls
ASSUME ModeAssumption   == Modes \subseteq {"stdio", "off", "bearer", "broker"}
ASSUME DrainAssumption  == DrainTime \in Nat \ {0}
ASSUME FaultAssumption  == Faults \subseteq FaultNames

VARIABLES
  mode,       \* the configured auth mode, or "stdio"
  main,       \* where main is
  signalled,  \* the signal context is done
  pool,       \* the ClickHouse connection: "none", "open", "closed", "lost"
  listener,   \* "none", "open", "closed", "failed"
  serve,      \* the goroutine around srv.Serve: "none", "starting", "accepting", "done"
  srvErr,     \* what lies in the channel srvErr: "", "closed", "error"
  call,       \* call[c]: what became of request c
  working,    \* the requests whose handler has not returned
  drained,    \* ticks since Shutdown began
  exit        \* the exit code, -1 while the process runs

vars == <<mode, main, signalled, pool, listener, serve, srvErr, call, working, drained,
          exit>>

Alive == main # "exited"

\* A connection that Accept has not handed out yet is reset with its listener.
Reset(cs) == [c \in Calls |-> IF cs[c] = "queued" THEN "reset" ELSE cs[c]]

\* What cuts the requests in flight short leaves them as `fate`.
Cut(cs, fate) == [c \in Calls |-> IF cs[c] = "running" THEN fate ELSE cs[c]]

\* The listener closed, if it was open.
Closed(l) == IF l = "open" THEN "closed" ELSE l

InFlight == {c \in Calls : call[c] = "running"}

(***************************************************************************)
(* Start-up.                                                               *)
(***************************************************************************)
\* log.Fatalf: os.Exit(1) at once; deferred calls, conn.Close among them, do not
\* run, and requests in flight die with the process.
Fatal ==
  /\ main' = "exited" /\ exit' = 1
  /\ pool' = IF pool = "open" THEN "lost" ELSE pool
  /\ listener' = Closed(listener)
  /\ call' = Reset(Cut(call, "killed")) /\ working' = {}
  /\ UNCHANGED <<mode, signalled, serve, srvErr, drained>>

\* main goes on to its next statement.
Proceed(from, to) ==
  /\ main = from /\ main' = to
  /\ UNCHANGED <<mode, signalled, serve, srvErr, call, working, drained, exit>>

LoadConfig       == Proceed("config", "ping") /\ UNCHANGED <<pool, listener>>
LoadConfigFails  == main = "config" /\ "config" \in Faults /\ Fatal

\* clickhouse.New: open and ping under the signal context.
Ping ==
  /\ Proceed("ping", CASE mode = "stdio" -> "stdio" [] mode = "off" -> "listen" [] OTHER -> "auth")
  /\ pool' = "open"
  /\ UNCHANGED listener
PingFails == main = "ping" /\ (signalled \/ "clickhouse" \in Faults) /\ Fatal

\* buildHTTPHandler in a mode that gates: OIDC discovery, which the issuer may
\* leave unanswered, and in broker mode NewProxy.
BuildGate      == Proceed("auth", "listen") /\ UNCHANGED <<pool, listener>>
BuildGateFails == main = "auth" /\ "auth" \in Faults /\ Fatal

\* The signal not passed on to the discovery.
DiscoveryNotCancelled == FALSE /\ Fatal

\* The signal context ends a discovery under way.
DiscoveryCancelled == main = "auth" /\ signalled /\ Fatal

Listen      == Proceed("listen", "serve") /\ listener' = "open" /\ UNCHANGED pool
ListenFails == main = "listen" /\ "listen" \in Faults /\ Fatal

\* runHTTP starts the goroutine around Serve.
GoServe ==
  /\ main = "serve" /\ main' = "select"
  /\ serve' = "starting"
  /\ UNCHANGED <<mode, signalled, pool, listener, srvErr, call, working, drained, exit>>

(***************************************************************************)
(* Serving.                                                                *)
(***************************************************************************)
\* srv.Serve (external) puts its listener on the server's list and accepts, until
\* the listener goes.  When Shutdown was there before it, it returns ErrServerClosed
\* and closes the listener itself.
ServeBegins ==
  /\ Alive /\ serve = "starting"
  /\ \/ /\ main = "select" /\ listener = "open"
        /\ serve' = "accepting"
        /\ UNCHANGED <<srvErr, listener, call>>
     \/ /\ main = "select" /\ listener # "open"
        /\ serve' = "done" /\ srvErr' = "error"
        /\ UNCHANGED <<listener, call>>
     \/ /\ main # "select"
        /\ serve' = "done" /\ srvErr' = "closed"
        /\ listener' = Closed(listener) /\ call' = Reset(call)
  /\ UNCHANGED <<mode, main, signalled, pool, working, drained, exit>>

ListenerFails ==
  /\ "listener" \in Faults
  /\ Alive /\ listener = "open" /\ serve \in {"starting", "accepting"}
  /\ listener' = "failed"
  /\ call' = Reset(call)
  /\ IF serve = "accepting" THEN serve' = "done" /\ srvErr' = "error"
                            ELSE UNCHANGED <<serve, srvErr>>
  /\ UNCHANGED <<mode, main, signalled, pool, working, drained, exit>>

Connect(c) ==
  /\ listener = "open" /\ call[c] = "idle"
  /\ call' = [call EXCEPT ![c] = "queued"]
  /\ UNCHANGED <<mode, main, signalled, pool, listener, serve, srvErr, working,
                 drained, exit>>

\* Serve gives the connection a goroutine, and the handler runs in it.
Accept(c) ==
  /\ Alive /\ serve = "accepting" /\ call[c] = "queued"
  /\ call' = [call EXCEPT ![c] = "running"] /\ working' = working \union {c}
  /\ UNCHANGED <<mode, main, signalled, pool, listener, serve, srvErr, drained, exit>>

Answer(c) ==
  /\ Alive /\ c \notin Streams /\ call[c] = "running"
  /\ call' = [call EXCEPT ![c] = "answered"] /\ working' = working \ {c}
  /\ UNCHANGED <<mode, main, signalled, pool, listener, serve, srvErr, drained, exit>>

\* A client that leaves ends the request's context, not its handler: that returns
\* when it sees fit.
HangUp(c) ==
  /\ "hangup" \in Faults
  /\ call[c] \in {"queued", "running"}
  /\ call' = [call EXCEPT ![c] = "left"]
  /\ UNCHANGED <<mode, main, signalled, pool, listener, serve, srvErr, working,
                 drained, exit>>

\* The handler of a request that nobody waits for any more returns.
HandlerEnds(c) ==
  /\ Alive /\ c \in working /\ call[c] # "running"
  /\ working' = working \ {c}
  /\ UNCHANGED <<mode, main, signalled, pool, listener, serve, srvErr, call, drained, exit>>

(***************************************************************************)
(* stdio: the SDK's Run (external) returns nil at the end of its input, an *)
(* error, or, once the context is done, either.                            *)
(***************************************************************************)
RunEnds ==
  /\ main = "stdio" /\ main' = "unwind"
  /\ UNCHANGED <<mode, signalled, pool, listener, serve, srvErr, call, working, drained, exit>>

RunFails == main = "stdio" /\ Fatal

RunCancelled == signalled /\ (RunEnds \/ RunFails)

(***************************************************************************)
(* The end.                                                                *)
(***************************************************************************)
Signal ==
  /\ Alive /\ ~signalled
  /\ signalled' = TRUE
  /\ UNCHANGED <<mode, main, pool, listener, serve, srvErr, call, working, drained, exit>>

\* Every error of Serve taken for a clean end.
CleanAlways(err) == TRUE

\* errors.Is(err, http.ErrServerClosed)
Clean(err) == err = "closed"

\* Only the signal looked at.
TakeServeErrorNever == FALSE /\ Fatal

\* select: Serve has returned.  Nothing is drained.  The clean branch is there in
\* the code, but only Shutdown makes Serve return clean and that comes later.
TakeServeError ==
  /\ main = "select" /\ srvErr # ""
  /\ IF Clean(srvErr)
       THEN /\ main' = "unwind" /\ srvErr' = ""
            /\ UNCHANGED <<mode, signalled, pool, listener, serve, call, working, drained, exit>>
       ELSE Fatal

\* Shutdown and Close (external) close the listeners that Serve has put on its list,
\* and Serve returns ErrServerClosed; one that Serve has yet to list stays open.
CloseListener(calls) ==
  IF serve = "accepting"
    THEN /\ listener' = "closed" /\ serve' = "done" /\ srvErr' = "closed"
         /\ call' = Reset(calls)
    ELSE call' = calls /\ UNCHANGED <<listener, serve, srvErr>>

\* srv.Close instead of srv.Shutdown; neither of them.
TakeSignalClosing ==
  /\ main = "select" /\ signalled
  /\ main' = "unwind"
  /\ CloseListener(Cut(call, "severed"))
  /\ UNCHANGED <<mode, signalled, pool, working, drained, exit>>

TakeSignalNoShutdown ==
  /\ main = "select" /\ signalled
  /\ main' = "unwind"
  /\ UNCHANGED <<mode, signalled, pool, listener, serve, srvErr, call, working, drained, exit>>

\* select: the signal.  Shutdown closes the listener and waits.  When Serve has
\* returned as well, select takes either.
TakeSignal ==
  /\ main = "select" /\ signalled
  /\ main' = "shutdown"
  /\ CloseListener(call)
  /\ UNCHANGED <<mode, signalled, pool, working, drained, exit>>

Tick ==
  /\ main = "shutdown" /\ drained < DrainTime
  /\ drained' = drained + 1
  /\ UNCHANGED <<mode, main, signalled, pool, listener, serve, srvErr, call, working, exit>>

\* Shutdown waits for every connection to be idle, one whose client has left among
\* them: until its handler has returned.
ShutdownReturns ==
  /\ main = "shutdown" /\ working = {}
  /\ main' = "unwind"
  /\ UNCHANGED <<mode, signalled, pool, listener, serve, srvErr, call, working, drained, exit>>

\* The error of Shutdown not followed by Close.
DeadlineNoClose ==
  /\ main = "shutdown" /\ drained = DrainTime
  /\ main' = "unwind"
  /\ UNCHANGED <<mode, signalled, pool, listener, serve, srvErr, call, working, drained, exit>>

\* Shutdown gives up and Close severs what is left, without waiting for the handlers.
Deadline ==
  /\ main = "shutdown" /\ drained = DrainTime
  /\ main' = "unwind"
  /\ call' = Cut(call, "severed")
  /\ UNCHANGED <<mode, signalled, pool, listener, serve, srvErr, working, drained,
                 exit>>

\* main returns: conn.Close is deferred.
ClosePool ==
  /\ main = "unwind" /\ pool = "open"
  /\ pool' = "closed"
  /\ UNCHANGED <<mode, main, signalled, listener, serve, srvErr, call, working, drained, exit>>

\* The process ends, and with it whatever still runs or waits.
Return ==
  /\ main = "unwind" /\ pool = "closed"
  /\ main' = "exited" /\ exit' = 0
  /\ listener' = Closed(listener)
  /\ call' = Reset(Cut(call, "killed")) /\ working' = {}
  /\ UNCHANGED <<mode, signalled, pool, serve, srvErr, drained>>

Init ==
  /\ mode \in Modes
  /\ main = "config" /\ signalled = FALSE /\ exit = -1
  /\ pool = "none" /\ listener = "none" /\ serve = "none" /\ srvErr = ""
  /\ call = [c \in Calls |-> "idle"] /\ working = {}
  /\ drained = 0

StartUp ==
  \/ LoadConfig \/ LoadConfigFails
  \/ Ping \/ PingFails
  \/ DiscoveryCancelled
  \/ Listen \/ ListenFails
  \/ GoServe

WindDown ==
  \/ TakeServeError \/ TakeSignal
  \/ ShutdownReturns \/ Deadline
  \/ RunCancelled
  \/ ClosePool \/ Return

Next ==
  \/ StartUp
  \/ BuildGate \/ BuildGateFails
  \/ ServeBegins \/ ListenerFails
  \/ RunEnds \/ RunFails
  \/ \E c \in Calls : Connect(c) \/ Accept(c) \/ Answer(c) \/ HangUp(c) \/ HandlerEnds(c)
  \/ Signal
  \/ WindDown
  \/ Tick

\* Goroutines run on and the timer runs out.  Opening the pool and pinging it are
\* bounded by the driver's dial time-out; the discovery (BuildGate) has no bound
\* of its own and nothing is assumed of it, nor of a request ever ending.
Fairness ==
  /\ WF_vars(StartUp) /\ WF_vars(ServeBegins)
  /\ WF_vars(WindDown) /\ WF_vars(Tick)

Spec == Init /\ [][Next]_vars

FairSpec == Spec /\ Fairness

(***************************************************************************)
(* Properties.                                                             *)
(***************************************************************************)
Stages == {"config", "ping", "auth", "listen", "serve", "select", "shutdown", "stdio",
           "unwind", "exited"}

\* Every variable holds what its comment says.
TypeOK ==
  /\ mode \in {"stdio", "off", "bearer", "broker"} /\ main \in Stages
  /\ signalled \in BOOLEAN /\ pool \in {"none", "open", "closed", "lost"}
  /\ listener \in {"none", "open", "closed", "failed"}
  /\ serve \in {"none", "starting", "accepting", "done"}
  /\ srvErr \in {"", "closed", "error"}
  /\ call \in [Calls -> {"idle", "queued", "running", "answered", "left", "reset",
                        "severed", "killed"}]
  /\ working \subseteq Calls
  /\ drained \in 0 .. DrainTime /\ exit \in {-1, 0, 1}

\* A request in flight ends with an answer or because its client left, unless the
\* drain has lasted its whole time or the listener had failed: a signal alone
\* never severs it (runHTTP's Shutdown, not Close).
InFlightCallsAreDrained ==
  [][\A c \in Calls :
       (call[c] = "running" /\ call'[c] \notin {"running", "answered", "left"}) =>
         drained = DrainTime \/ listener = "failed"]_vars

\* The ClickHouse pool outlives every request that may still be answered: main
\* closes it only when each is answered or severed (the deferred conn.Close runs
\* after runHTTP has drained).  A handler that still works when the pool goes has
\* had the whole drain and nobody to answer.
PoolOutlivesCalls ==
  pool # "open" =>
    /\ InFlight = {}
    /\ \A c \in working : drained = DrainTime /\ call[c] \in {"left", "severed"}

\* The process reports success only when it was told to stop (over stdio: also by the
\* end of its input), and then it has closed the pool and no request died with it (a
\* listener error is not swallowed as a clean end).
SuccessMeansOrderlyStop ==
  exit = 0 => /\ signalled \/ mode = "stdio"
              /\ pool = "closed"
              /\ \A c \in Calls : call[c] \notin {"queued", "running", "killed"}

(***************************************************************************)
(* Why they hold: where main is says what is open, and what is open says   *)
(* which calls there can be.  A listener that Serve has yet to put on its  *)
(* list stays open through the drain.                                      *)
(***************************************************************************)
PoolByStage ==
  /\ main \in {"config", "ping"} => pool = "none"
  /\ main \in {"auth", "listen", "serve", "select", "shutdown", "stdio"} => pool = "open"
  /\ main = "unwind" => pool \in {"open", "closed"}

ListenerByStage ==
  /\ main \in {"config", "ping", "auth", "listen", "stdio"} => listener = "none"
  /\ main = "serve" => listener = "open"
  /\ main = "select" => listener \in {"open", "failed"}
  /\ main \in {"shutdown", "unwind"} => listener # "open" \/ serve = "starting"
  /\ main = "exited" => listener # "open"

\* Serve accepts only while main waits for its end, and its error means that the
\* listener has failed.
ServeByStage ==
  /\ main \in {"config", "ping", "auth", "listen", "serve", "stdio"} => serve = "none" /\ srvErr = ""
  /\ Alive /\ serve = "accepting" => main = "select" /\ listener = "open"
  /\ main = "select" => /\ srvErr # "closed" /\ (srvErr = "error" => listener = "failed")
                        /\ listener = "open" => serve \in {"starting", "accepting"}

\* Nothing waits without a listener, nothing runs outside of serving and draining, and
\* no handler works past the drain unless that has lasted its time.
CallsByStage ==
  \A c \in Calls :
    /\ call[c] = "queued" => listener = "open"
    /\ call[c] = "running" => main \in {"select", "shutdown"} /\ c \in working
    /\ call[c] = "killed" => exit = 1
    /\ c \in working =>
         /\ call[c] \in {"running", "left", "severed"}
         /\ main \in {"select", "shutdown"} \/ (main = "unwind" /\ drained = DrainTime)

StopIsCalledFor ==
  /\ main = "shutdown" => signalled
  /\ main = "stdio" => mode = "stdio"
  /\ main = "unwind" => signalled \/ mode = "stdio"

ExitIsLast == Alive => exit = -1

Inv ==
  /\ TypeOK
  /\ PoolByStage /\ ListenerByStage /\ ServeByStage /\ CallsByStage
  /\ StopIsCalledFor /\ ExitIsLast /\ SuccessMeansOrderlyStop

\* A signal ends the process, whether it comes during start-up, with a discovery
\* the issuer never answers, or while streams are open that never end.
SignalEndsTheProcess == signalled ~> ~Alive

\* A process whose listener has failed does not linger without one.
ListenerFailureEndsTheProcess == (listener = "failed") ~> ~Alive
=============================================================================

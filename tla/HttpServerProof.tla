--------------------------- MODULE HttpServerProof ---------------------------
(***************************************************************************)
(* What HttpServer guarantees for any number of requests, any drain time   *)
(* and any faults.                                                         *)
(***************************************************************************)
EXTENDS HttpServer, TLAPS

\* Calls cut short and calls reset, one by one.
LEMMA CutAndReset ==
  ASSUME TypeOK, NEW fate \in {"severed", "killed"}
  PROVE  /\ Reset(call) \in [Calls -> {"idle", "queued", "running", "answered", "left",
                                       "reset", "severed", "killed"}]
         /\ \A c \in Calls :
              /\ Reset(call)[c] = IF call[c] = "queued" THEN "reset" ELSE call[c]
              /\ Cut(call, fate)[c] = IF call[c] = "running" THEN fate ELSE call[c]
              /\ Reset(Cut(call, fate))[c] = IF call[c] = "queued" THEN "reset"
                                             ELSE IF call[c] = "running" THEN fate ELSE call[c]
         /\ Cut(call, fate) \in [Calls -> {"idle", "queued", "running", "answered", "left",
                                           "reset", "severed", "killed"}]
         /\ Reset(Cut(call, fate)) \in [Calls -> {"idle", "queued", "running", "answered", "left",
                                                  "reset", "severed", "killed"}]
BY DEF TypeOK, Reset, Cut

LEMMA ExitCodes == -1 # 0 /\ 1 # 0 /\ -1 # 1
OBVIOUS

LEMMA InitInv == Init => TypeOK /\ Inv
<1> SUFFICES ASSUME Init PROVE TypeOK /\ Inv
  OBVIOUS
<1>1. TypeOK
  <2>1. 0 \in 0 .. DrainTime /\ -1 \in {-1, 0, 1}
    BY DrainAssumption
  <2> QED
    BY <2>1, ModeAssumption DEF Init, TypeOK, Stages
<1>2. PoolByStage /\ ListenerByStage /\ ServeByStage /\ CallsByStage
  BY DEF Init, PoolByStage, ListenerByStage, ServeByStage, CallsByStage
<1>3. StopIsCalledFor /\ ExitIsLast
  BY DEF Init, StopIsCalledFor, ExitIsLast
<1>4. SuccessMeansOrderlyStop
  BY ExitCodes DEF Init, SuccessMeansOrderlyStop
<1> QED
  BY <1>1, <1>2, <1>3, <1>4 DEF Inv

\* Nothing has been reported while the process runs.
LEMMA NothingReported ==
  ASSUME Inv, Alive
  PROVE  exit # 0
BY ExitCodes DEF Inv, ExitIsLast

\* A step that leaves the invariant's variables alone.
LEMMA IdleStep ==
  ASSUME TypeOK, Inv, UNCHANGED <<mode, main, pool, listener, serve, srvErr, call, working, exit>>,
         signalled => signalled', signalled' \in BOOLEAN, drained' \in 0 .. DrainTime,
         drained' = drained \/ main = "shutdown"
  PROVE  TypeOK' /\ Inv'
<1>1. TypeOK'
  BY DEF TypeOK
<1>2. PoolByStage' /\ ListenerByStage' /\ ServeByStage' /\ CallsByStage' /\ ExitIsLast'
  BY DEF Inv, PoolByStage, ListenerByStage, ServeByStage, CallsByStage, ExitIsLast, Alive
<1>3. StopIsCalledFor' /\ SuccessMeansOrderlyStop'
  BY DEF Inv, StopIsCalledFor, SuccessMeansOrderlyStop
<1> QED
  BY <1>1, <1>2, <1>3 DEF Inv

\* log.Fatalf keeps the invariant wherever main is: it leaves nothing waiting or running.
LEMMA FatalStep ==
  ASSUME TypeOK, Inv, Alive, Fatal
  PROVE  TypeOK' /\ Inv'
<1>1. TypeOK'
  BY CutAndReset DEF Fatal, Closed, TypeOK, Stages
<1>2. /\ \A c \in Calls : call'[c] \notin {"queued", "running"}
      /\ working' = {} /\ exit' = 1
  BY CutAndReset DEF Fatal
<1>3. PoolByStage' /\ ListenerByStage' /\ ServeByStage' /\ StopIsCalledFor' /\ ExitIsLast'
  BY DEF Fatal, Closed, TypeOK, PoolByStage, ListenerByStage, ServeByStage, StopIsCalledFor,
         ExitIsLast, Alive
<1>4. CallsByStage' /\ SuccessMeansOrderlyStop'
  BY <1>2, ExitCodes DEF Fatal, CallsByStage, SuccessMeansOrderlyStop
<1> QED
  BY <1>1, <1>3, <1>4 DEF Inv

\* A step that only moves main, from a stage to the next.
LEMMA ProceedStep ==
  ASSUME TypeOK, Inv, \/ LoadConfig \/ Ping \/ BuildGate \/ Listen \/ GoServe
  PROVE  TypeOK' /\ Inv'
<1> USE DEF Proceed, TypeOK, Stages, Alive
<1>1. TypeOK'
  BY DEF LoadConfig, Ping, BuildGate, Listen, GoServe
<1>2. PoolByStage' /\ ListenerByStage'
  BY DEF LoadConfig, Ping, BuildGate, Listen, GoServe, Inv, PoolByStage, ListenerByStage
<1>3. ServeByStage'
  BY DEF LoadConfig, Ping, BuildGate, Listen, GoServe, Inv, ListenerByStage, ServeByStage
<1>4. CallsByStage'
  BY DEF LoadConfig, Ping, BuildGate, Listen, GoServe, Inv, ListenerByStage, CallsByStage
<1>5. StopIsCalledFor' /\ ExitIsLast'
  BY DEF LoadConfig, Ping, BuildGate, Listen, GoServe, Inv, StopIsCalledFor, ExitIsLast
<1>6. exit' = exit /\ Alive
  BY DEF LoadConfig, Ping, BuildGate, Listen, GoServe
<1>7. SuccessMeansOrderlyStop'
  BY <1>6, NothingReported DEF SuccessMeansOrderlyStop
<1> QED
  BY <1>1, <1>2, <1>3, <1>4, <1>5, <1>7 DEF Inv

\* A step of one request.
LEMMA CallStep ==
  ASSUME TypeOK, Inv, NEW c \in Calls,
         Connect(c) \/ Accept(c) \/ Answer(c) \/ HangUp(c) \/ HandlerEnds(c)
  PROVE  TypeOK' /\ Inv'
<1>1. TypeOK'
  <2>1. CASE Connect(c) \/ HangUp(c)
    BY <2>1 DEF TypeOK, Connect, HangUp
  <2>2. CASE Accept(c) \/ Answer(c)
    <3>1. call' \in [Calls -> {"idle", "queued", "running", "answered", "left", "reset",
                               "severed", "killed"}]
      BY <2>2 DEF TypeOK, Accept, Answer
    <3>2. working' \subseteq Calls
      BY <2>2 DEF TypeOK, Accept, Answer
    <3>3. UNCHANGED <<mode, main, signalled, pool, listener, serve, srvErr, drained, exit>>
      BY <2>2 DEF Accept, Answer
    <3> QED
      BY <3>1, <3>2, <3>3 DEF TypeOK
  <2>3. CASE HandlerEnds(c)
    BY <2>3 DEF TypeOK, HandlerEnds
  <2> QED
    BY <2>1, <2>2, <2>3
<1>2. CallsByStage'
  <2>1. CASE Connect(c)
    BY <2>1 DEF TypeOK, Inv, CallsByStage, Connect
  <2>2. CASE Accept(c)
    BY <2>2 DEF TypeOK, Inv, CallsByStage, ServeByStage, Accept
  <2>3. CASE Answer(c) \/ HangUp(c)
    BY <2>3 DEF TypeOK, Inv, CallsByStage, Answer, HangUp
  <2>4. CASE HandlerEnds(c)
    BY <2>4 DEF TypeOK, Inv, CallsByStage, HandlerEnds
  <2> QED
    BY <2>1, <2>2, <2>3, <2>4
<1>3. SuccessMeansOrderlyStop'
  <2>1. CASE Alive
    BY <2>1, NothingReported
       DEF Connect, Accept, Answer, HangUp, HandlerEnds, SuccessMeansOrderlyStop
  <2>2. CASE ~Alive
    <3>1. HangUp(c)
      BY <2>2 DEF Inv, ListenerByStage, Alive, Connect, Accept, Answer, HandlerEnds
    <3> QED
      BY <3>1 DEF TypeOK, Inv, HangUp, SuccessMeansOrderlyStop
  <2> QED
    BY <2>1, <2>2
<1>4. UNCHANGED <<mode, main, signalled, pool, listener, serve, srvErr, drained, exit>>
  BY DEF Connect, Accept, Answer, HangUp, HandlerEnds
<1> QED
  BY <1>1, <1>2, <1>3, <1>4
     DEF Inv, PoolByStage, ListenerByStage, ServeByStage, StopIsCalledFor, ExitIsLast, Alive

\* A step of the goroutine around Serve, or its listener.
LEMMA ServeStep ==
  ASSUME TypeOK, Inv, ServeBegins \/ ListenerFails
  PROVE  TypeOK' /\ Inv'
<1> USE DEF ServeBegins, ListenerFails, Closed, TypeOK, Stages, Alive
<1>1. TypeOK'
  BY CutAndReset
<1>2. PoolByStage' /\ ListenerByStage' /\ StopIsCalledFor' /\ ExitIsLast'
  BY DEF Inv, PoolByStage, ListenerByStage, ServeByStage, StopIsCalledFor, ExitIsLast
<1>3. ServeByStage'
  BY DEF Inv, ListenerByStage, ServeByStage
<1>4. \A c \in Calls : /\ call'[c] = "queued" => call[c] = "queued" /\ listener' = listener
                       /\ call'[c] \in {"queued", "reset"} \/ call'[c] = call[c]
                       /\ call[c] # "queued" => call'[c] = call[c]
  BY CutAndReset
<1>5. CallsByStage'
  BY <1>4 DEF Inv, CallsByStage
<1>6. SuccessMeansOrderlyStop'
  BY NothingReported DEF SuccessMeansOrderlyStop
<1> QED
  BY <1>1, <1>2, <1>3, <1>5, <1>6 DEF Inv

\* The steps by which main leaves the select, the drain and the process.
LEMMA TakeSignalStep ==
  ASSUME TypeOK, Inv, TakeSignal
  PROVE  TypeOK' /\ Inv'
<1> USE DEF TakeSignal, CloseListener, TypeOK, Stages, Alive
<1>1. TypeOK'
  BY CutAndReset
<1>2. PoolByStage' /\ StopIsCalledFor' /\ ExitIsLast'
  BY DEF Inv, PoolByStage, StopIsCalledFor, ExitIsLast
<1>3. ListenerByStage' /\ ServeByStage'
  BY DEF Inv, ListenerByStage, ServeByStage
<1>4. \A c \in Calls : /\ call'[c] = "queued" => call[c] = "queued" /\ listener' = listener
                       /\ call'[c] \in {"queued", "reset"} \/ call'[c] = call[c]
                       /\ call[c] # "queued" => call'[c] = call[c]
  BY CutAndReset
<1>5. CallsByStage'
  BY <1>4 DEF Inv, CallsByStage
<1>6. SuccessMeansOrderlyStop'
  BY NothingReported DEF SuccessMeansOrderlyStop
<1> QED
  BY <1>1, <1>2, <1>3, <1>5, <1>6 DEF Inv

LEMMA UnwindStep ==
  ASSUME TypeOK, Inv,
         \/ ShutdownReturns \/ Deadline \/ RunEnds \/ ClosePool \/ Return
  PROVE  TypeOK' /\ Inv'
<1> USE DEF ShutdownReturns, Deadline, RunEnds, ClosePool, Return, Closed, TypeOK, Stages, Alive
<1>1. TypeOK'
  BY CutAndReset
<1>2. PoolByStage' /\ ListenerByStage' /\ ServeByStage' /\ StopIsCalledFor' /\ ExitIsLast'
  BY DEF Inv, PoolByStage, ListenerByStage, ServeByStage, StopIsCalledFor, ExitIsLast
<1>3. CallsByStage'
  <2>1. CASE ShutdownReturns \/ RunEnds \/ ClosePool
    BY <2>1 DEF Inv, CallsByStage
  <2>2. CASE Deadline
    BY <2>2, CutAndReset DEF Inv, CallsByStage
  <2>3. CASE Return
    <3>1. \A c \in Calls : call[c] \notin {"running", "killed"}
      BY <2>3, ExitCodes DEF Inv, CallsByStage, ExitIsLast
    <3>2. \A c \in Calls : call'[c] \notin {"running", "killed", "queued"}
      BY <2>3, <3>1, CutAndReset
    <3> QED
      BY <2>3, <3>2 DEF CallsByStage
  <2> QED
    BY <2>1, <2>2, <2>3
<1>4. SuccessMeansOrderlyStop'
  <2>1. CASE Return
    <3>1. \A c \in Calls : call[c] \notin {"running", "killed"}
      BY <2>1, ExitCodes DEF Inv, CallsByStage, ExitIsLast
    <3> QED
      BY <2>1, <3>1, CutAndReset DEF Inv, StopIsCalledFor, SuccessMeansOrderlyStop
  <2>2. CASE exit' = exit
    BY <2>2, NothingReported DEF SuccessMeansOrderlyStop
  <2> QED
    BY <2>1, <2>2
<1> QED
  BY <1>1, <1>2, <1>3, <1>4 DEF Inv

\* Serve never ends clean while main waits for it: the drain is skipped only by log.Fatalf.
LEMMA ServeErrorIsFatal ==
  ASSUME TypeOK, Inv, TakeServeError
  PROVE  Fatal /\ Alive /\ listener = "failed"
BY DEF TypeOK, Inv, ServeByStage, TakeServeError, Clean, Alive

LEMMA StepInv == TypeOK /\ Inv /\ [Next]_vars => TypeOK' /\ Inv'
<1> SUFFICES ASSUME TypeOK, Inv, [Next]_vars PROVE TypeOK' /\ Inv'
  OBVIOUS
<1>1. CASE LoadConfig \/ Ping \/ BuildGate \/ Listen \/ GoServe
  BY <1>1, ProceedStep
<1>2. CASE \/ LoadConfigFails \/ PingFails \/ BuildGateFails \/ DiscoveryCancelled
           \/ ListenFails \/ RunFails
  BY <1>2, FatalStep
     DEF LoadConfigFails, PingFails, BuildGateFails, DiscoveryCancelled, ListenFails, RunFails, Alive
<1>3. CASE ServeBegins \/ ListenerFails
  BY <1>3, ServeStep
<1>4. ASSUME NEW c \in Calls,
             Connect(c) \/ Accept(c) \/ Answer(c) \/ HangUp(c) \/ HandlerEnds(c)
      PROVE  TypeOK' /\ Inv'
  BY <1>4, CallStep
<1>5. CASE Signal
  BY <1>5, IdleStep DEF Signal, TypeOK
<1>6. CASE TakeServeError
  BY <1>6, ServeErrorIsFatal, FatalStep
<1>7. CASE TakeSignal
  BY <1>7, TakeSignalStep
<1>8. CASE ShutdownReturns \/ Deadline \/ RunEnds \/ ClosePool \/ Return
  BY <1>8, UnwindStep
<1>9. CASE Tick
  <2>1. drained \in 0 .. DrainTime
    BY DEF TypeOK
  <2>2. drained < DrainTime /\ drained' = drained + 1
    BY <1>9 DEF Tick
  <2>3. drained' \in 0 .. DrainTime
    BY <2>1, <2>2, DrainAssumption
  <2> QED
    BY <1>9, <2>3, IdleStep DEF Tick, TypeOK
<1>10. CASE UNCHANGED vars
  BY <1>10, IdleStep DEF vars, TypeOK
<1> QED
  BY <1>1, <1>2, <1>3, <1>4, <1>5, <1>6, <1>7, <1>8, <1>9, <1>10
     DEF Next, StartUp, WindDown, RunCancelled

\* Every variable of HttpServer holds what its comment says, and where main is says
\* what is open and which calls there can be.
THEOREM StagesHold == Spec => []Inv
<1>1. Inv => TypeOK
  BY DEF Inv
<1> QED
  BY <1>1, InitInv, StepInv, PTL DEF Spec

\* The process reports success only when told to stop, with the pool closed and no
\* request dying with it (runHTTP, main).
THEOREM SuccessIsOrderly == Spec => []SuccessMeansOrderlyStop
BY StagesHold, PTL DEF Inv

\* The pool is closed only when no request is in flight; a handler that works on has
\* had the whole drain and nobody to answer (the deferred conn.Close after the drain
\* of runHTTP).
THEOREM PoolIsClosedLast == Spec => []PoolOutlivesCalls
<1>1. Inv => PoolOutlivesCalls
  BY DEF TypeOK, Inv, PoolByStage, CallsByStage, PoolOutlivesCalls, InFlight, Stages
<1> QED
  BY <1>1, StagesHold, PTL

\* The step by which a request in flight is cut short.
LEMMA SeveredStep ==
  ASSUME TypeOK, Inv, [Next]_vars, NEW c \in Calls,
         call[c] = "running", call'[c] \notin {"running", "answered", "left"}
  PROVE  drained = DrainTime \/ listener = "failed"
<1>1. main \in {"select", "shutdown"}
  BY DEF Inv, CallsByStage
<1>2. CASE TakeServeError
  BY <1>2, ServeErrorIsFatal
<1>3. CASE Deadline
  BY <1>3 DEF Deadline
<1>4. CASE TakeSignal \/ ListenerFails
  BY <1>4, CutAndReset DEF TakeSignal, CloseListener, ListenerFails
<1>5. ASSUME NEW d \in Calls,
             Connect(d) \/ Accept(d) \/ Answer(d) \/ HangUp(d) \/ HandlerEnds(d)
      PROVE  call'[c] \in {"running", "answered", "left"}
  BY <1>5 DEF TypeOK, Connect, Accept, Answer, HangUp, HandlerEnds
<1>6. CASE ServeBegins \/ Signal \/ ShutdownReturns \/ ClosePool \/ Return \/ Tick \/ UNCHANGED vars
  BY <1>1, <1>6, CutAndReset
     DEF ServeBegins, Signal, ShutdownReturns, ClosePool, Return, Tick, vars
<1>7. CASE StartUp \/ BuildGate \/ BuildGateFails \/ RunEnds \/ RunFails \/ RunCancelled
  BY <1>1, <1>7
     DEF StartUp, LoadConfig, LoadConfigFails, Ping, PingFails, DiscoveryCancelled, Listen,
         ListenFails, GoServe, BuildGate, BuildGateFails, RunEnds, RunFails, RunCancelled, Proceed
<1> QED
  BY <1>2, <1>3, <1>4, <1>5, <1>6, <1>7 DEF Next, WindDown

\* A request in flight is cut short only once the drain has lasted its whole time or
\* the listener has failed (runHTTP: Shutdown first, Close only after it gave up).
THEOREM CallsAreDrained == Spec => InFlightCallsAreDrained
<1>1. Inv /\ [Next]_vars =>
        [\A c \in Calls :
           (call[c] = "running" /\ call'[c] \notin {"running", "answered", "left"}) =>
             drained = DrainTime \/ listener = "failed"]_vars
  BY SeveredStep DEF Inv
<1> QED
  BY <1>1, StagesHold, PTL DEF Spec, InFlightCallsAreDrained
=============================================================================

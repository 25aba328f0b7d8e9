\* Two calls and an event stream, every auth mode and stdio, every fault, two ticks of drain.
SPECIFICATION FairSpec
CONSTANTS
  a = a  b = b  s = s
  Calls = {a, b, s}
  Streams = {s}
  Modes = {"stdio", "off", "bearer", "broker"}
  DrainTime = 2
  Faults = {"config", "clickhouse", "auth", "listen", "listener", "hangup"}
\* The process ends.
CHECK_DEADLOCK FALSE
INVARIANTS
  PoolOutlivesCalls
  SuccessMeansOrderlyStop
  Inv
PROPERTIES
  InFlightCallsAreDrained
  SignalEndsTheProcess
  ListenerFailureEndsTheProcess

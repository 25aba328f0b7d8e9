\* One login from its first request to its tokens, with retried token calls against an
\* upstream that may never answer.
SPECIFICATION FairSpec
CONSTANTS
  f1 = f1  t1 = t1  t2 = t2  n1 = n1  n2 = n2
  Flows = {f1}
  Tries = {t1, t2}
  Nonces = {n1, n2}
  Requests <- MCPair
  TokenGrants <- MCAdvertised
  LoopbackHosts <- MCLoopback
  AllowedRedirectHosts <- MCAllowed
  NoChallenge = NoChallenge
  NoCode = NoCode
  NoToken = NoToken
  NoRequest = NoRequest
  NoForm = NoForm
  NoAnswer = NoAnswer
  MaxStateAge = 0
  ClockSkew = 0
  Offsets <- MCStill
  MaxUptime = 1
  MaxKey = 1
  Faults = {"deny", "reload", "restart", "timeout", "hangup", "body"}
\* The environment may stop: browsers close, users walk away.
CHECK_DEADLOCK FALSE
INVARIANTS
  RejectionIsExplained
  CallInv
PROPERTIES
  LoginSucceeds
  TokenCallIsAnswered

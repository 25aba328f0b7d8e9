\* One login with every kind of request under a wall clock that is set forward and
\* back, with reloads and restarts.
SPECIFICATION Spec
CONSTANTS
  f1 = f1  t1 = t1  n1 = n1
  Flows = {f1}
  Tries = {t1}
  Nonces = {n1}
  Requests <- MCAll
  TokenGrants = {}
  LoopbackHosts <- MCLoopback
  AllowedRedirectHosts <- MCAllowed
  NoChallenge = NoChallenge
  NoCode = NoCode
  NoToken = NoToken
  NoRequest = NoRequest
  NoForm = NoForm
  NoAnswer = NoAnswer
  MaxStateAge = 1
  ClockSkew = 1
  Offsets <- MCSteps
  MaxUptime = 4
  MaxKey = 1
  Faults = {"reload", "deny", "restart"}
SYMMETRY Symmetric
\* The environment may stop: browsers close, users walk away.
CHECK_DEADLOCK FALSE
INVARIANTS
  CodesLandOnPermittedHosts
  StateOutlivesNothing
  SkewIsTolerated
  StateInv

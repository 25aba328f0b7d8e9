\* Two overlapping logins that may take each other's code: reloads, denials, wrong methods, failing exchanges, lost answers, restarts.
SPECIFICATION Spec
CONSTANTS
  f1 = f1  f2 = f2  t1 = t1  n1 = n1  n2 = n2
  Flows = {f1, f2}
  Tries = {t1}
  Nonces = {n1, n2}
  Requests <- MCMixed
  TokenGrants <- MCGrants
  LoopbackHosts <- MCLoopback
  AllowedRedirectHosts <- MCAllowed
  NoChallenge = NoChallenge
  NoCode = NoCode
  NoToken = NoToken
  NoRequest = NoRequest
  NoForm = NoForm
  NoAnswer = NoAnswer
  MaxStateAge = 1
  ClockSkew = 1
  Offsets <- MCStill
  MaxUptime = 0
  MaxKey = 1
  Faults = {"reload", "deny", "verb", "restart", "timeout", "hangup", "fail", "body"}
SYMMETRY Symmetric
\* The environment may stop: browsers close, users walk away.
CHECK_DEADLOCK FALSE
INVARIANTS
  Inv
  TypeOK
  CodeGoesToAskingClient
  TokensOnlyForOwnLogin
PROPERTIES
  ImplementsAuthCodeFlow

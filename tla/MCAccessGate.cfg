\* Two principals with tokens of three issuers; environments up to two edits from
\* complete ones, up to one of which are also served.
SPECIFICATION Spec
CONSTANTS
  Numerals <- MCNumerals
  Environments <- MCEnvironments
  Texts <- MCTexts
  MaxEdits = 2
  ServedEdits = 1
  Tokens <- MCTokens
  Keys = {1, 2}
  MaxTime = 1
  Sessions = {s1}
\* A refused environment at the bound on edits stays refused.
CHECK_DEADLOCK FALSE
INVARIANTS
  NamedProviderStaysPut
  RequiredSettingsAreThere
  DiscoveryLeadsToLogin
  OnlyEntitledAreServed
  EntitledAreServed
  SessionsKeepTheirPrincipal
  Inv

SPECIFICATION Spec
CONSTANTS
  Clients = {c1, c2}
  CodeLife = 2
  ChallengeLife = 1
  SessionTTL = 3
  Window = 1
  NonceLife = 4
  Lag = 1
  Signed = {1}
  MaxTime = 4
  MaxCalls = 4
PROPERTIES FreezeRevokes
CHECK_DEADLOCK FALSE

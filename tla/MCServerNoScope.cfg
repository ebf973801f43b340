SPECIFICATION Spec
CONSTANTS
  Star = "*"
  One = "?"
  Messages <- NoScopeMessages
  Jwts <- MCJwts
  Settings <- OneSetting
  Environs <- MCEnvirons
  FaultSets = {{}}
  MaxCalls = 2
INVARIANT
  NeverAborts
CHECK_DEADLOCK FALSE

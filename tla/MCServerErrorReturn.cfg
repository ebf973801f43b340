SPECIFICATION Spec
CONSTANTS
  Star = "*"
  One = "?"
  Messages <- FewMessages
  Jwts <- MCJwts
  Settings <- OneSetting
  Environs <- MCEnvirons
  FaultSets = {{"issuer", "enforcer"}}
  MaxCalls = 2
INVARIANT
  AcceptsPermitted
CHECK_DEADLOCK FALSE

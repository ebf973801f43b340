SPECIFICATION FairSpec
CONSTANTS
  Star = "*"
  One = "?"
  Messages <- MCMessages
  Jwts <- MCJwts
  Settings <- MCSettings
  Environs <- MCEnvirons
  FaultSets <- MCFaultSets
  MaxCalls = 2
INVARIANTS
  TypeOK
  FailsClosed
  RefusesForbidden
  OneObject
  AbortsExplained
  Ownership
  MemInv
PROPERTIES
  EnvSettles
  StepReturns
  KeepsRole
CHECK_DEADLOCK FALSE

SPECIFICATION FairSpec
CONSTANTS
  MaxIssuers = 3
  StrdupFails = TRUE
  MaxInits = 2
  MaxLen = 5
  Lists <- MCLists
  Scopes <- MCScopes
INVARIANTS
  ReadsIssuers
  FindsNoOthers
PROPERTY
  InitReturns
CHECK_DEADLOCK FALSE

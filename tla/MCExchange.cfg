SPECIFICATION FairSpec
CONSTANTS
  Wishes <- MCWishes
  Permitted <- MCPermitted
  Foreign <- MCForeign
  Retries <- MCRetries
  Garbled <- MCGarbled
INVARIANTS
  ReadsResponses
  SameUser
  OKMeansRefused
PROPERTIES
  Refines
  ExchangeEnds
CHECK_DEADLOCK FALSE

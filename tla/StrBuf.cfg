SPECIFICATION FairSpec
CONSTANT
  UMax = 63
INVARIANTS
  NoOverrun
  IInv
PROPERTIES
  FailureKeepsText
  CallReturns

SPECIFICATION Spec
CONSTANTS
  Callbacks <- MCCallbacks
  Answers <- MCAnswers
  Claims <- MCClaims
  Configs = {"SASL_OK", "SASL_CONTINUE"}
  FaultSets = {{"canon_user"}, {"malloc", "canon_user"}}
  MaxCalls = 4
INVARIANTS
  TypeOK
  SendsWhatIsMeant
  InteractMeansPrompts
  PromptsFreed
PROPERTIES
  AsksOnce
  KeepsRole
CHECK_DEADLOCK FALSE

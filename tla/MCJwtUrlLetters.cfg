SPECIFICATION Spec
CONSTANTS
  Tokens <- MCTokens
  Docs <- MCDocs
INVARIANT
  RetrievesClaim
CHECK_DEADLOCK FALSE

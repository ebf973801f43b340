SPECIFICATION Spec
CONSTANTS
  Tokens <- MCTokens
  Docs <- MCDocs
INVARIANTS
  TypeOK
  WritesInside
  ReadsInside
  RetrievesCommon
CHECK_DEADLOCK FALSE

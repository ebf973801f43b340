SPECIFICATION FairSpec
CONSTANTS
  Star = "*"
  One = "?"
  Char = {"a", "b", "*", "?"}
  MaxStr = 4
  MaxPat = 4
  Strings <- MCStrings
  Patterns <- MCPatterns
INVARIANTS
  Decides
  IInv
PROPERTY
  Answers
CHECK_DEADLOCK FALSE

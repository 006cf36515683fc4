SPECIFICATION LexerSpec
CONSTANTS
  Texts   <- MCTexts
  INT_MAX = 911
  FLT_MAX = 100
INVARIANTS
  LexerTypeOK
  CursorInText
  TokensSpelled
  NothingElseLost
  ErrorsPlaced
PROPERTIES
  ScanEnds

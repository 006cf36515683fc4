SPECIFICATION ParserSpec
CONSTANTS
  Names      <- MCNames
  Literals   <- MCLiterals
  Programs   = {}
  Lines      <- MCLines
  StackDepth = 60
INVARIANTS
  ParensClosed

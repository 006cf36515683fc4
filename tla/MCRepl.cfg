CONSTANTS
  Names <- MCNames
  Literals <- MCLiterals
  Programs = {}
  Texts = {}
  Sessions <- MCSessions
  INT_MAX = 20
  FLT_MAX = 20
  StackDepth = 12
  MemoryLimit = 14
SPECIFICATION ReplSpec
INVARIANTS
  ReplTypeOK
  PartsKeep
  LinesIndependent
  MessagesInLine
  ProgramBuilt
  ProgramOrdered
  AsmWritten
  NodesFreedOnce
PROPERTIES
  SessionEnds

SPECIFICATION ChlibSpec
CONSTANTS
  BLOCK_SIZE  = 32
  LINE_SIZE   = 8
  SizeOfChInt = 8
  ValueOffset = 4
  UINT32      = 256
  Sizes       <- MCSizes
  Ints        = {v1, v2}
INVARIANTS
  ChlibTypeOK
  ObjectsDisjoint
  RefusedOnlyWhenFull
  LinesMarked
  TypesKept
PROPERTIES
  HeapImplements
CHECK_DEADLOCK FALSE

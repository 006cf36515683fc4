CONSTANTS
  BLOCK_SIZE = 8
  LINE_SIZE = 2
SPECIFICATION HolesSpec
INVARIANTS
  HoleFree
  NoneMissed

SPECIFICATION MachineSpec
CONSTANTS
  Names     <- MCNames
  Literals  <- MCLiterals
  Programs  <- MCUnnested
  Meaning   <- MCNoMeaning
  StackTops = {1000, 1004}
  WordRange = 16
INVARIANTS
  StackBalanced
  PrintedAsTyped
PROPERTIES
  FrameIntact

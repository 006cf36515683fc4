SPECIFICATION MachineSpec
CONSTANTS
  Names     <- MCNames
  Literals  <- MCLiterals
  Programs  <- MCMeaningful
  Meaning   <- MCMeaning
  StackTops = {1000, 1004}
  WordRange = 16
PROPERTIES
  MachineImplements

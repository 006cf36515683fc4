SPECIFICATION FairCompilerSpec
CONSTANTS
  Names    <- MCNames
  Literals <- MCLiterals
  Programs <- MCPrograms
INVARIANTS
  CompilerTypeOK
  LabelsUnique
  JumpsResolve
  JumpsForward
  LabelInv
  SlotsInFrame
  BoundWhereUsed
  PassesInv
PROPERTIES
  CompilerImplements

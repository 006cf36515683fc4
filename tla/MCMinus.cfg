SPECIFICATION CompilerSpec
CONSTANTS
  Names    <- MCNames
  Literals <- MCLiterals
  Programs <- MCPrograms
INVARIANTS
  MinusAssertion

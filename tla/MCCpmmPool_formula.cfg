CONSTANTS
  BPS = 3
  U64Max = 8
  Fees <- MCFees
  Calls = FALSE
SPECIFICATION Spec
INVARIANTS
  MintPaysFormula

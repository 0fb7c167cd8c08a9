CONSTANTS
  BPS = 5
  U64Max = 31
SPECIFICATION Spec
INVARIANTS
  TypeOK
  NewtonInv
  ResultIsIsqrt
  NoArithmeticFault
PROPERTIES
  Terminates

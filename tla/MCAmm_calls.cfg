CONSTANTS
  BPS = 2
  U64Max = 4
  Users = {u1}
  Pools = {p1}
  Nobody = Nobody
  Amounts = {1, 2}
  Floors = {0}
  Fees = {0}
  Authorities = {Nobody}
  Endowment = 4
  MaxIx = 2
  Calls = TRUE
SPECIFICATION Spec
INVARIANTS
  BurnPaysOnce

CONSTANTS
  BPS = 2
  U64Max = 4
  Users = {u1, u2}
  Pools = {p1, p2}
  Nobody = Nobody
  Amounts = {1, 2}
  Floors = {0}
  Fees = {0}
  Authorities = {Nobody}
  Endowment = 2
  MaxIx = 2
  Calls = FALSE
  P = p1
SPECIFICATION Spec
INVARIANTS
  BurnThenWithdrawIsWithdraw
PROPERTIES
  PoolIsAlone
  ValuePerLpNeverFalls
SYMMETRY Symmetry

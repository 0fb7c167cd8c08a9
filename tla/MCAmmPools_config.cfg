CONSTANTS
  BPS = 2
  U64Max = 4
  Users = {u1, u2}
  Pools = {p1}
  Nobody = Nobody
  Amounts = {1, 2}
  Floors = {0}
  Fees = {0, 2}
  Authorities = {u1, u2, Nobody}
  Endowment = 2
  MaxIx = 2
  Calls = TRUE
  P = p1
SPECIFICATION Spec
PROPERTIES
  RenouncedConfigIsFrozen
  LockedPoolIsStill
  PoolIsAlone
SYMMETRY Symmetry

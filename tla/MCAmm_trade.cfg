CONSTANTS
  BPS = 3
  U64Max = 7
  Users = {u1}
  Pools = {p1}
  Nobody = Nobody
  Amounts <- OneToThree
  Floors = {0, 2}
  Fees = {0, 1}
  Authorities = {Nobody}
  Endowment = 4
  MaxIx = 3
  Calls = TRUE
SPECIFICATION Spec
INVARIANTS
  TypeOK
  ReservesBackSupply
  BurnThenWithdrawIsWithdraw
  DepositHonoursOffer
  WithdrawHonoursFloors
PROPERTIES
  ValuePerLpNeverFalls

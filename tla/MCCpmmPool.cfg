CONSTANTS
  BPS = 4
  U64Max = 8
  Fees <- MCFees
  Calls = TRUE
SPECIFICATION Spec
INVARIANTS
  TypeOK
  ReservesBackSupply
  SwapsOnCurve
  RoundTripExact
  NoRoundTripProfit
  SingleDepositIsSwapThenDeposit
  SingleWithdrawalIsWithdrawalThenSwap
  WholeSupplyRedeems
PROPERTIES
  ValuePerLpNeverFalls
  DepositDilutionBounded
  FirstMintIsBacked

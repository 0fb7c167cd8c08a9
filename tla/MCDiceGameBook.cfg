CONSTANTS
  Houses = {h1, h2}
  Players = {p1}
  Seeds = {1}
  Faces = 4
  Scale = 16
  Edge = 3
  MaxRoll = 3
  MinBet = 2
  U64Max = 15
  Timeout = 1
  BetRent = 1
  RentMin = 2
  Purse = 6
  Stakes = {1, 2}
  Rolls = {2}
  Draws = {1, 3}
  Funds = {2}
  MaxSlot = 2
  MaxIx = 2
  Calls = TRUE
  H = h1
SPECIFICATION Spec
PROPERTIES
  HouseKeepsItsBook

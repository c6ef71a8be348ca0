SPECIFICATION EngineSpec
CONSTANTS
  X = X
  Y = Y
  id1 = id1
  id2 = id2
  t1 = t1
  t2 = t2
  NoSymbol = NoSymbol
  Symbols <- OneSymbol
  OrderIds <- TwoIds
  Traders <- TwoTraders
  OrderQuantities = {1, 2}
  LimitPrices = {0, 1}
  Tifs = {"Day"}
  Times = {0}
  TimeWrap = 16
  InOrder = TRUE
  LimitChoices <- OnlyTwoUnits
  DefaultLimits <- TwoUnits
  L2Depth = 1
  MaxTradeHistory = 1
  MaxSpreadHistory = 2
  Junk = {0, 9}
  MaxChecks = 3
  MaxTrades = 2
INVARIANTS
  PositionsTrue

SPECIFICATION EngineSpec
CONSTANTS
  X = X
  Y = Y
  id1 = id1
  id2 = id2
  t1 = t1
  t2 = t2
  NoSymbol = NoSymbol
  Symbols <- TwoSymbols
  OrderIds <- TwoIds
  Traders <- OneTrader
  OrderQuantities = {1, 2}
  LimitPrices = {0, 1}
  Tifs = {"Day", "IOC"}
  Times = {0}
  TimeWrap = 16
  InOrder = TRUE
  LimitChoices <- OnlyTwoUnits
  DefaultLimits <- TwoUnits
  L2Depth = 1
  MaxTradeHistory = 1
  MaxSpreadHistory = 1
  Junk = {9}
  MaxChecks = 3
  MaxTrades = 2
SYMMETRY EngineSymmetry
INVARIANTS
  EngineTypeOK
  Routable
  FeedsCurrent
  TrackedWithinLimits
  KillAllAdmitsNoneNew

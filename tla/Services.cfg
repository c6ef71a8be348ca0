SPECIFICATION ServicesSpec
CONSTANTS
  t1 = t1
  t2 = t2
  X = X
  Y = Y
  u1 = u1
  u2 = u2
  P = P
  Q = Q
  id1 = id1
  id2 = id2
  label1 = label1
  label2 = label2
  thread1 = thread1
  thread2 = thread2
  TimeWrap = 16
  MaxTime = 2
  Traders <- TwoTraders
  Symbols <- TwoSymbols
  OrderQuantities = {0, 2}
  LimitPrices = {1}
  Times = {0, 1}
  InOrder = TRUE
  LimitChoices <- OnlyTight
  DefaultLimits <- Loose
  MaxChecks = 3
  TradeReports <- FewTrades
  Marks = {1, 2}
  Scale = 60
  MaxBooked = 3
  BookOrders <- SmallOrders
  MaxNodes = 3
  Labels <- TwoLabels
  NoLabel = NoLabel
  MaxSlots = 2
  NumBuckets = 3
  BucketWidth = 2
  Int64Max = 999
  Int64Min <- Lowest
  Threads <- TwoThreads
  TimerNames <- TwoNames
  DirectSamples <- BelowAndAbove
  Ratios = {2}
  MaxCalls = 3
  c1 = c1
  p1 = p1
  p2 = p2
  Seeds = {1, 2}
  FirstSeed = 1
  Clients = {c1}
  Profiles <- TwoProfiles
  FirstProfiles <- Constructed
  TailDraws <- SomeTailDraws
  MaxSamples = 2
SYMMETRY Interchangeable
INVARIANTS
  ServicesTypeOK
  RateRespected
  PositionsAndProfit
  IndexSound
  AgreesWithL3
  TimersIndependent
  StatsRight
  CountedOnce
  ReplayFromRest
PROPERTIES
  FillsRespectLimits

SPECIFICATION TradeSpec
CONSTANTS
  t1 = t1
  t2 = t2
  X = X
  TradeReports <- OneSymbolTrades
  Marks = {1, 2}
  Scale = 840
  MaxBooked = 4
INVARIANTS
  RealizedWhenFlat

SPECIFICATION FairSpec
CONSTANTS
  Size = 2
  Laps = 2
  Values = {a, b}
  NoValue = NoValue
  MaxSent = 7
INVARIANTS
  TypeOK
  NoDataRace
  FIFO
  QueriesSound
PROPERTIES
  Refinement
  PushReturns
  EveryItemDelivered

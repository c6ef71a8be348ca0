SPECIFICATION MdSpec
CONSTANTS
  FeedSymbols = {X, Y}
  QueueCapacity = 2
  Intervals = {1}
  MaxTime = 1
  TimeWrap = 16
  MaxUpdates = 3
INVARIANTS
  MdTypeOK
  InFeedOrder
  ThrottleExact
PROPERTIES
  QueuedIsDelivered

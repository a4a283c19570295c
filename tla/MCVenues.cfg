\* A CEX adapter and its topics, the curves, a DEX adapter.
SPECIFICATION Spec
CONSTANTS
  Books <- MCBooks
  BookPrices = {1, 2, 3, 4}
  MaxLevels = 1
  MaxPending = 1
  CircuitErrors = 2
  ReconnectTries = 2
  CurveLevel = 2
  ErrorsOff = 2
  StaleFallback = TRUE
  MaxOrders = 1
  MaxFaults = 2
INVARIANT
  FeedSafety
PROPERTIES
  PublishedForward
  CurveSafety
  DexSafety
  FeedProgress
CHECK_DEADLOCK FALSE

\* Market data, its store, and replay sessions.
SPECIFICATION Spec
CONSTANTS
  Assets = {"btc"}
  MdVenues = {"binance"}
  MdOrders = {"o1"}
  Streams = {"s1"}
  Capacity = 1
  FillQty = {2}
  MaxMessages = 2
  Quotes <- DataQuotes
  Curves <- DataCurves
  StoreEvent = {"batch", "empty", "group", "blocked", "report", "curve", "fill"}
  MaxArrived = 2
  MaxStoreFaults = 1
  MaxCrashes = 1
INVARIANTS StoreSafety ReplaySafety
PROPERTIES MdSafety DataProgress
CHECK_DEADLOCK FALSE

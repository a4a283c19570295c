SPECIFICATION PackSpec
CONSTANTS
  alice = alice
  bob = bob
  b1 = b1
  b2 = b2
  s1 = s1
  Users = {alice, bob}
  Instruments = {"BTC/USDT"}
  Currencies = {"BTC", "USDT"}
  BaseOf <- MCBaseOf
  QuoteOf <- MCQuoteOf
  Orders = {b1, b2, s1}
  OrderInfo <- MCOrderInfo
  BatchSet <- SomeBatches
  GroupSet <- SomeGroups
  InitBalance <- MCInitBalance
  InitPosition <- MCInitPosition
  MaxPgFaults = 1
  MaxCrashes = 1
INVARIANTS
  ReservedNeverLeaks
  AvailableNonNegative
  PositionTracksHoldings
  PostedAtMostOncePlusFaults
PROPERTY
  FundsMoveOnlyOnSettlement
CHECK_DEADLOCK FALSE

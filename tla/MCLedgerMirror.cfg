\* The PG mirror of reservations at rest.
SPECIFICATION PackSpec
CONSTANTS
  alice = alice
  bob = bob
  b1 = b1
  b2 = b2
  s1 = s1
  Users = {alice, bob}
  Instruments = {"BTC/USDT"}
  Currencies = {"BTC", "USDT"}
  BaseOf <- MCBaseOf
  QuoteOf <- MCQuoteOf
  Orders = {b1, b2, s1}
  OrderInfo <- MCOrderInfo
  BatchSet <- MCBatches
  GroupSet = {}
  InitBalance <- MCInitBalance
  InitPosition <- MCInitPosition
  MaxPgFaults = 0
  MaxCrashes = 0
INVARIANT
  AccountsMirrorReservations
CHECK_DEADLOCK FALSE

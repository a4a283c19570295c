\* The gateway with a restart and redelivered signals; sessions and venues
\* under two admin requests at a time.
SPECIFICATION Spec
CONSTANTS
  Getters = {"g1"}
  Sockets = {"k1"}
  MaxVersions = 3
  DedupCapacity = 1
  MaxRedelivered = 1
  SseClients = {"e1", "e2"}
  WsClients = {"w1"}
  ResultSessions <- MCResultSessions
  Follows <- MCFollows
  RecentCapacity = 2
  MaxStreams = 1
  MaxHubRestarts = 1
  Clients = {"c1", "c2"}
  ClientIds = {"x"}
  ReplayIds = {"r1", "r2"}
  ApiBodies <- MCApiBodies
  MaxPosts = 3
  MaxApiCrashes = 1
  Modes = {"backtest_venuesim"}
  BacktestIds <- MCBacktestIds
  SeedLimit = 1
  OwnLimit = 2
  OldVenueRows <- MCOldVenueRows
  VenuePatches <- MCVenuePatches
  Spare = {}
  Managed = {"binance"}
  Requests = {"h1", "h2"}
  MaxWrites = 2
  MaxReboots = 1
INVARIANTS
  ApiSafety
  AdminSafety
  StreamSafety
PROPERTIES
  ViewSafety
  SimSafety
  
CHECK_DEADLOCK FALSE

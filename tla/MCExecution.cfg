\* Hedges with and without failures, their reports in the ledger.
SPECIFICATION PackSpec
CONSTANTS
  Intents = {"buy", "sell"}
  Venues = {"v"}
  IntentInfo <- MCIntentInfo
  ReportSet <- MCReportSet
  None = None
  Modes = {"LIVE_ONLY", "SHADOW", "SIM_ONLY"}
  VenueStatuses = {"NEW", "PARTIALLY_FILLED", "CANCELLED", "EXPIRED"}
  MaxPgFaults = 1
  MaxCrashes = 1
  MaxLost = 1
  MaxExecCrashes = 1
INVARIANTS
  ReportsSafety
  HedgeSafety
  HedgeBooks
PROPERTY
  HedgeSettles
CHECK_DEADLOCK FALSE

\* The venue acknowledges a resting order.
SPECIFICATION HedgeSpec
CONSTANTS
  Intents = {"buy"}
  Venues = {"v"}
  IntentInfo <- MCIntentInfo
  ReportSet <- ExecutionReportSet
  None = None
  Modes = {"LIVE_ONLY"}
  VenueStatuses = {"NEW", "FILLED"}
  MaxPgFaults = 0
  MaxCrashes = 0
  MaxLost = 0
  MaxExecCrashes = 0
INVARIANTS
  FillsAreReal
CHECK_DEADLOCK FALSE

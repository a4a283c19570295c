SPECIFICATION HistorySpec
CONSTANTS
  Outputs <- MCOutputs
  SnapVenue <- MCSnapVenue
  Reader = {r1}
  ChunkSize = 2
  MaxFaults = 0
INVARIANT AllFillsJoined
CHECK_DEADLOCK FALSE

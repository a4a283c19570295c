\* A flow order in two batches with failures, the simulated venue, the history.
SPECIFICATION Spec
CONSTANTS
  NoBook = NoBook
  NoPolicy = NoPolicy
  Orders = {"a"}
  Qty <- MCQty
  IOC = {}
  MaxFill = 2
  MaxBatches = 2
  MaxFaults = 1
  MaxOutages = 1
INVARIANTS
  OverfillBounded
  RefusedLeavesNothing
  ViewsHonest
  SimVenueSafety
  HistorySafety
PROPERTY
  CancelIsFinal
CHECK_DEADLOCK FALSE

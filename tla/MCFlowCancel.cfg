\* An order is cancelled between two batches.
SPECIFICATION FlowSpec
CONSTANTS
  Orders = {"a"}
  Qty <- MCQty
  IOC = {}
  MaxFill = 1
  MaxBatches = 2
  MaxFaults = 0
  MaxOutages = 0
PROPERTY
  CancelStopsMatching
CHECK_DEADLOCK FALSE

\* Planner, risk, clearing, vector clearing.
SPECIFICATION Spec
CONSTANTS
  Symbols = {"s1"}
  RiskVenues = {"va", "vb"}
  RiskUsers = {"u1"}
  Healths <- MCHealths
  Synthetics <- MCSynthetics
  MaxExposure = 3
  RiskBatches <- MCRiskBatches
  UserBooks <- MCUserBooks
  RiskLimits <- MCRiskLimits
  MaxRiskInputs = 2
  MaxRiskFaults = 1
INVARIANTS
  RiskSafety
  PlannerSafety
  ClearingSafety
  VectorSafety
PROPERTY
  RiskProgress
CHECK_DEADLOCK FALSE

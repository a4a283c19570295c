\* Combos with one external leg, its compensation, and the book of hedges.
SPECIFICATION Spec
CONSTANTS
  AlphaOne = 2
  Combo = {"c", "s"}
  Leg = {1, 2, 3, 4}
  Def <- MCDef
  Policy <- MCPolicy
  MinScale = 1
  Oco <- MCOco
  Bracket <- MCBracket
  MaxBatches = 3
  MaxFaults = 1
  Comp = {"x1", "x2"}
  Reason <- MCReason
  ILeg = {1, 2}
  ILegMax = 1
  Operator = {"op"}
  MaxNotional = 2
  MaxPerWindow = 1
  WindowNotional = 2
  MaxCalls = 2
  MaxCompFaults = 1
  NoHedge = NoHedge
  Callers = {"c1", "c2"}
  Hedges <- MCHedges
  HedgeFills <- MCHedgeFills
  Venues = {"v1", "v2"}
  Symbols = {"s1", "s2"}
  Totals <- MCTotals
  MaxBookFaults = 1
  MaxBookCrashes = 1
INVARIANTS
  CompSafety
  ComboSafety
  BookSafety
PROPERTIES
  CompensationLife
  OrdersProgress
CHECK_DEADLOCK FALSE

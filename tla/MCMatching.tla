----------------------------- MODULE MCMatching -----------------------------
(* What matching and risk decide: the planner with its health inputs, the  *)
(* risk gates, the clearing of a batch and vector clearing.  `part' says   *)
(* which of them runs; the others stay in their initial state, so the      *)
(* state spaces add up.                                                    *)
EXTENDS Risk

VARIABLES
  part,
  healthLog, svc, cache, plan, nCurves, plannerFaults,
  book, filled, given, active, batch, unsent, bought,
  curve, delivered, vectorized, clearing, sentIntents, segmentRows, clearingRows, vfFailed

plannerPart == <<healthLog, svc, cache, plan, nCurves, plannerFaults>>
clearingPart == <<book, filled, given, active, batch, unsent, bought>>
vectorPart == <<curve, delivered, vectorized, clearing, sentIntents, segmentRows, clearingRows, vfFailed>>
vars == <<part, plannerPart, riskVars, clearingPart, vectorPart>>

-----------------------------------------------------------------------------
(* Two venues; heartbeats of a watched venue and a broken one; curves of   *)
(* two levels; forecasts with and without limit.                           *)
Beat(s, b, e, r, m) == [status |-> s, breaker |-> b, errors |-> e, rate |-> r, mode |-> m]
PlanCurve(l, m, p, c) ==
  [level |-> l, max |-> m, price |-> p, conf |-> c, speed |-> 2, flow |-> 3, mid |-> 10]
Forecast(s, q, l, sl) ==
  [side |-> s, qty |-> q, speed |-> 1, ref |-> 0, limit |-> l, slippage |-> sl]

Plan == INSTANCE Planner WITH
  PVenues <- {1, 2},
  Beats <- {Beat("connected", "closed", FALSE, 0, "watch"), Beat("disconnected", "open", TRUE, 60, "")},
  PCurves <- {PlanCurve(1, 3, 10, 90), PlanCurve(3, 7, 11, 60)},
  ErrorThreshold <- 1, MinHealth <- 50, MinShare <- 20, MinPart <- 1, Targets <- {3},
  Forecasts <- {Forecast("buy", 2, 0, 0), Forecast("sell", 1, 10, 0), Forecast("buy", 4, 11, 1100)},
  MaxBeats <- 2, MaxCurves <- 2, MaxPlannerFaults <- 1

(* Two batches of one user, with enough collateral or too little.          *)
Health(s, r, b, n) == [status |-> s, routing |-> r, breaker |-> b, score |-> n]

MCHealths == {Health("ok", "allow", "closed", 90), Health("degraded", "caution", "half_open", 60),
              Health("ok", "allow", "open", 0), Health("stale", "avoid", "closed", 30)}
MCSynthetics == {[venue |-> "va", cost |-> 2], [venue |-> "va", cost |-> -3]}
MCRiskBatches == <<{"u1"}, {"u1"}>>
MCUserBooks == {[free |-> 10, pnl |-> 0, notional |-> 40], [free |-> 3, pnl |-> -1, notional |-> 50]}
MCRiskLimits == [x \in {"role"} |-> [initial |-> 20, maintenance |-> 10]]

(* Two buyers and a seller; the limits overlap, touch or miss.             *)
Ord(s, lo, hi, rate, qmax, user) ==
  [side |-> s, lo |-> lo, hi |-> hi, rate |-> rate, qmax |-> qmax, user |-> user]
Point(q, p) == [q |-> q, p |-> p]

Clear == INSTANCE Clearing WITH
  Books <- {[b1 |-> Ord("buy", 96, h1, 4, 6, "u1"), b2 |-> Ord("buy", 96, h2, 8, 8, "u2"),
             s1 |-> Ord("sell", l, 104, 4, 8, "u3")] :
               h1 \in {100, 104}, h2 \in {98, 100}, l \in {96, 102}},
  VenueCurves <-
    {[bid |-> <<>>, ask |-> <<>>],
     [bid |-> <<>>, ask |-> <<Point(2, 96), Point(4, 98), Point(12, 100)>>],
     [bid |-> <<Point(2, 102), Point(4, 100), Point(8, 98)>>, ask |-> <<Point(4, 97), Point(6, 99)>>]},
  ClearPrices <- {98, 100, 102}, RefPrice <- 97, ThresholdQty <- 2, ThresholdNotional <- 150,
  MaxBatches <- 2

(* Every curve of up to two asks and one bid, which they cross, meet or    *)
(* leave out; every message twice.                                         *)
Vector == INSTANCE VectorFlow WITH
  Quantity <- {1, 2}, Price <- {0, 2, 3}, MaxPoints <- 2, MoneyEnabled <- TRUE, MaxDeliveries <- 2

ASSUME MatchingAssumption ==
  /\ Plan!PlannerAssumption /\ Clear!ClearingAssumption

-----------------------------------------------------------------------------
(* A part with several initial states takes one of them while another runs. *)
Init ==
  /\ part \in {"planner", "risk", "clearing", "vector"}
  /\ Plan!PlannerInit
  /\ RiskInit /\ (part # "risk" => books["u1"].free = 10)
  /\ Clear!ClearingInit
  /\ (part # "clearing" => book["b1"].hi = 100 /\ book["b2"].hi = 98 /\ book["s1"].lo = 96)
  /\ Vector!VfInit /\ (part # "vector" => curve["bid"] = <<>> /\ curve["ask"] = <<>>)
  /\ Len(curve["bid"]) <= 1

Next ==
  \/ part = "planner" /\ Plan!PlannerNext
     /\ UNCHANGED <<part, riskVars, clearingPart, vectorPart>>
  \/ part = "risk" /\ RiskNext
     /\ UNCHANGED <<part, plannerPart, clearingPart, vectorPart>>
  \/ part = "clearing" /\ Clear!ClearingNext
     /\ UNCHANGED <<part, plannerPart, riskVars, vectorPart>>
  \/ part = "vector" /\ Vector!VfNext
     /\ UNCHANGED <<part, plannerPart, riskVars, clearingPart>>

(* The batch consumer of risk runs for ever.                               *)
Fairness == WF_riskVars(part = "risk" /\ BatchConsumer)

Spec == Init /\ [][Next]_vars /\ Fairness
-----------------------------------------------------------------------------
(* The planner: the usable flag of a cached curve is what its curve and    *)
(* the venue's cached health say together, whichever consumer came last;   *)
(* an open breaker reaches matching; a split hedge is split completely     *)
(* between usable venues; a forecast picks the cheapest venue that can     *)
(* take the quantity within the limits.                                    *)
PlannerSafety ==
  part = "planner" => /\ Plan!PlannerTypeOK
                      /\ Plan!UsableIsCurrent
                      /\ Plan!OpenBreakerReachesPlanner
                      /\ Plan!PlanAddsUp
                      /\ Plan!ForecastPicksBest

(* Clearing, whatever the solver returned and over any batches: what       *)
(* memory counts as filled is what the published fills gave; internal buys *)
(* are internal sells; venue fills stay within the depth of the curve and  *)
(* within the limit of their order, internal ones too when the solver      *)
(* converged; intents are backed by venue fills, and the hedges net to     *)
(* them.                                                                   *)
ClearingSafety ==
  part = "clearing" => /\ Clear!ClearingTypeOK
                       /\ Clear!MemoryMatchesFills
                       /\ Clear!InternalBalances
                       /\ Clear!WithinDepth
                       /\ Clear!VenueFillsWithinLimit
                       /\ Clear!ConvergedWithinLimit
                       /\ Clear!IntentsBacked
                       /\ Clear!HedgesNetToVenue

(* Vector clearing: the intents of one solve cancel out in base and quote  *)
(* (surplus_policy.hpp: nothing unbalanced is executed); a segment offers  *)
(* only what its grid point adds; redelivery does not multiply rows.       *)
VectorSafety ==
  part = "vector" => /\ Vector!VfTypeOK
                     /\ Vector!HedgesBalance
                     /\ Vector!DepthOfTheCurve
                     /\ Vector!MergedOnce

(* Every batch is assessed for each of its users, through restarts, unless *)
(* an insert failed.                                                       *)
RiskProgress == part = "risk" => BatchesAssessed
=============================================================================

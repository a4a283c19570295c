------------------------------ MODULE Planner ------------------------------
(***************************************************************************)
(* From the health of a venue to the venues a hedge is sent to.  The       *)
(* venues service publishes RAW health to venue.health; venue_health reads *)
(* them, keeps a breaker and a score per venue and publishes AGGREGATED    *)
(* health to the same topic; matching keeps the latest health and curve    *)
(* per venue and level in PlannerInputsCache and splits a hedge over the   *)
(* venues it may use.  One instrument; percents and basis points are       *)
(* integers; a curve is its largest quantity and its price.                *)
(***************************************************************************)
EXTENDS Integers, Sequences, FiniteSets, FiniteSetsExt

CONSTANTS
  PVenues,          \* venues, numbered
  Beats,            \* heartbeats: [status, breaker, errors, rate, mode]
  PCurves,          \* curves: [level, max, price, conf, speed, flow, mid]
  ErrorThreshold,   \* circuit_breaker_error_threshold of venue_health
  MinHealth,        \* min_health_score, in percent
  MinShare,         \* min_allocation_fraction, in percent
  MinPart,          \* min_allocation_abs
  Targets,          \* hedge quantities
  Forecasts,        \* forecast requests: [side, qty, speed, ref, limit, slippage], 0 for none
  MaxBeats, MaxCurves, MaxPlannerFaults

(* What the constants satisfy; the instances that are checked assert it.   *)
PlannerAssumption ==
  /\ PVenues \subseteq Nat /\ Targets \subseteq Nat
  /\ Beats \subseteq [status : {"connected", "stale", "disconnected", "empty"},
                      breaker : {"closed", "half_open", "open"}, errors : BOOLEAN,
                      rate : 0..100, mode : {"", "watch", "disable"}]
  /\ PCurves \subseteq [level : 1..3, max : Nat, price : Nat, conf : 0..100, speed : Nat,
                        flow : Nat, mid : Nat]
  /\ ErrorThreshold \in Nat \ {0} /\ MinHealth \in 0..100 /\ MinShare \in 0..100 /\ MinPart \in Nat
  /\ MaxBeats \in Nat /\ MaxCurves \in Nat /\ MaxPlannerFaults \in Nat

VARIABLES
  healthLog,        \* venue.health
  svc,              \* venue_health: [pos, venue -> state]
  cache,            \* PlannerInputsCache: [pos, health, curves]
  plan,             \* last plan: [target, alloc]
  nCurves, plannerFaults

plannerVars == <<healthLog, svc, cache, plan, nCurves, plannerFaults>>

Statuses == {"ok", "stale", "disconnected", "degraded"}
NoEvent  == [type |-> "none"]
NoCurve  == [level |-> 0]
FreshState == [errs |-> 0, breaker |-> "closed", score |-> 100, routing |-> 3, status |-> "unspecified"]
FreshSvc   == [v \in PVenues |-> FreshState]
EmptyCurves == [v \in PVenues |-> [l \in 1..3 |-> [curve |-> NoCurve, usable |-> FALSE]]]
NoPlan == [target |-> 0, alloc |-> <<>>]

PlannerInit ==
  /\ healthLog = <<>> /\ svc = [pos |-> 0, state |-> FreshSvc]
  /\ cache = [pos |-> 0, health |-> [v \in PVenues |-> NoEvent], curves |-> EmptyCurves]
  /\ plan = NoPlan /\ nCurves = 0 /\ plannerFaults = 0
-----------------------------------------------------------------------------
(* VenueObservabilityProducer::PublishStatus.  Recommendations are ranked  *)
(* as in RoutingRecommendation: 0 block, 1 avoid, 2 caution, 3 allow.      *)
Lower(a, b) == IF a <= b THEN a ELSE b
StatusPenalty(s)  == CASE s = "connected" -> 0 [] s = "empty" -> 20 [] s = "stale" -> 25 [] OTHER -> 50
BreakerPenalty(b) == CASE b = "open" -> 50 [] b = "half_open" -> 25 [] OTHER -> 0
HealthStatus(s) == CASE s = "connected" -> "ok" [] s = "empty" -> "degraded" [] OTHER -> s
Recommended(b) ==
  CASE b.breaker = "open" \/ b.status = "disconnected" -> 0
    [] b.breaker = "half_open" /\ b.status # "disconnected" -> 1
    [] b.breaker = "closed" /\ b.status = "stale" -> 1
    [] OTHER -> IF b.errors \/ b.status = "empty" THEN 2 ELSE 3
Overridden(r, mode) == CASE mode = "disable" -> 0 [] mode = "watch" /\ r = 3 -> 2 [] OTHER -> r
Clamped(s) == IF s < 0 THEN 0 ELSE s
RawEvent(v, b) ==
  LET s == 100 - StatusPenalty(b.status) - BreakerPenalty(b.breaker) - Lower(25, b.rate)
  IN  [type |-> "raw", venue |-> v, status |-> HealthStatus(b.status), breaker |-> b.breaker,
       routing |-> Overridden(Recommended(b), b.mode), score |-> Clamped(s),
       rate |-> b.rate, disabled |-> b.mode = "disable"]

PublishStatus(v, b) ==
  /\ Cardinality({i \in DOMAIN healthLog : healthLog[i].type = "raw"}) < MaxBeats
  /\ healthLog' = Append(healthLog, RawEvent(v, b))
  /\ UNCHANGED <<svc, cache, plan, nCurves, plannerFaults>>
-----------------------------------------------------------------------------
(* venue_health.  kept errors are still in the window; elapsed: the        *)
(* cooldown is over.                                                       *)
IsError(status) == status \notin {"ok", "rate_limit"}
BreakerAfter(state, status, errs, elapsed) ==
  CASE errs >= ErrorThreshold -> "open"
    [] errs < ErrorThreshold /\ state = "open" -> IF elapsed THEN "half_open" ELSE "open"
    [] errs < ErrorThreshold /\ state = "half_open" -> IF status = "ok" THEN "closed" ELSE "open"
    [] OTHER -> "closed"
(* No report carries snapshots_per_sec, so every score is cut to 50 and    *)
(* every recommendation to caution.                                        *)
OnRawReport(x, e, kept, elapsed) ==
  LET errs  == kept + IF IsError(e.status) THEN 1 ELSE 0
      brk   == BreakerAfter(x.breaker, e.status, errs, elapsed)
      score == Lower(((100 - e.rate) + x.score) \div 2, IF e.status = "stale" THEN 20 ELSE 50)
      rank  == IF e.status = "stale" THEN 1 ELSE 2
  IN  [errs |-> errs, breaker |-> brk, status |-> e.status,
       score   |-> CASE brk = "open" -> 0 [] brk = "half_open" -> 10 [] OTHER -> score,
       routing |-> CASE brk = "open" -> 0 [] brk = "half_open" -> 1 [] OTHER -> rank]
Aggregated(v, x, e) ==
  [type |-> "agg", venue |-> v, status |-> x.status, breaker |-> x.breaker, routing |-> x.routing,
   score |-> x.score, rate |-> e.rate, disabled |-> e.disabled]

ServiceReads ==
  /\ svc.pos < Len(healthLog)
  /\ LET e == healthLog[svc.pos + 1]
     IN  \/ /\ e.type = "raw"
            /\ \E kept \in 0..svc.state[e.venue].errs, elapsed \in BOOLEAN :
                 LET x == OnRawReport(svc.state[e.venue], e, kept, elapsed)
                 IN  /\ svc' = [pos |-> svc.pos + 1, state |-> [svc.state EXCEPT ![e.venue] = x]]
                     /\ healthLog' = Append(healthLog, Aggregated(e.venue, x, e))
         \/ e.type = "agg" /\ svc' = [svc EXCEPT !.pos = @ + 1] /\ UNCHANGED healthLog
  /\ UNCHANGED <<cache, plan, nCurves, plannerFaults>>
-----------------------------------------------------------------------------
(* PlannerInputsCache.                                                     *)
VenueAllowsMatching(h) ==
  /\ ~h.disabled /\ h.breaker # "open" /\ h.routing >= 2
  /\ h.status \in {"ok", "unspecified"} /\ h.score >= MinHealth
CurveHasUsableLiquidity(c) == c.max > 0 /\ c.price > 0
ShouldUse(c, h) == CurveHasUsableLiquidity(c) /\ (h = NoEvent \/ VenueAllowsMatching(h))
Refreshed(entries, h) ==
  [l \in 1..3 |-> IF entries[l].curve = NoCurve THEN entries[l]
                  ELSE [entries[l] EXCEPT !.usable = ShouldUse(entries[l].curve, h)]]

Ignored(old, new) == old.type = "agg" /\ new.type = "raw"
NotRefreshed(k, v, h) == [k EXCEPT !.health[v] = h]
UpsertHealth(k, v, h) == [k EXCEPT !.health[v] = h, !.curves[v] = Refreshed(@, h)]

OnVenueHealth ==
  /\ cache.pos < Len(healthLog)
  /\ LET e == healthLog[cache.pos + 1]
         k == IF Ignored(cache.health[e.venue], e) THEN cache ELSE UpsertHealth(cache, e.venue, e)
     IN  cache' = [k EXCEPT !.pos = @ + 1]
  /\ UNCHANGED <<healthLog, svc, plan, nCurves, plannerFaults>>

OnLiquidityCurve(v, c) ==
  /\ nCurves < MaxCurves /\ nCurves' = nCurves + 1
  /\ cache' = [cache EXCEPT !.curves[v][c.level] =
                 [curve |-> c, usable |-> ShouldUse(c, cache.health[v])]]
  /\ UNCHANGED <<healthLog, svc, plan, plannerFaults>>

(* SelectBestCurveForVenueFallback: the highest usable level, otherwise    *)
(* the lowest one cached.                                                  *)
Cached(v) == {l \in 1..3 : cache.curves[v][l].curve # NoCurve}
UsableLevels(v) == {l \in Cached(v) : cache.curves[v][l].usable}
Selected(v) == cache.curves[v][IF UsableLevels(v) # {} THEN Max(UsableLevels(v)) ELSE Min(Cached(v))]
Inputs == {v \in PVenues : Cached(v) # {}}

(* CompareVenues: the cost of a quantity on one venue in basis points.  A  *)
(* curve has one price, and flow is its flow penalty at the speed asked.   *)
HealthOf(v) == IF cache.health[v] = NoEvent THEN 100 ELSE cache.health[v].score
Worse(side, a, b) == IF side = "buy" THEN a > b ELSE a < b
ShortfallBps(side, vwap, ref) ==
  IF side = "buy" THEN (vwap * 10000) \div ref - 10000 ELSE (ref * 10000) \div vwap - 10000
RefPrice(q, c) == IF q.ref > 0 THEN q.ref ELSE c.mid
Cost(v, q) ==
  LET c == Selected(v).curve
  IN  ShortfallBps(q.side, c.price, RefPrice(q, c)) + c.flow + (100 - HealthOf(v)) + (100 - c.conf) \div 2
WithinLimit(q, price) == q.limit = 0 \/ ~Worse(q.side, price, q.limit)
Feasible(v, q) ==
  LET c == Selected(v).curve
  IN  /\ Selected(v).usable /\ q.qty > 0 /\ q.qty <= c.max
      /\ RefPrice(q, c) > 0 /\ q.speed <= c.speed
      /\ WithinLimit(q, c.price)
      /\ q.slippage = 0 \/ Cost(v, q) <= q.slippage
(* IsHigherRankedComparison.                                               *)
HigherRanked(v, w, q) ==
  CASE Cost(v, q) # Cost(w, q) -> Cost(v, q) < Cost(w, q)
    [] Cost(v, q) = Cost(w, q) /\ HealthOf(v) # HealthOf(w) -> HealthOf(v) > HealthOf(w)
    [] OTHER -> LET cv == Selected(v).curve.conf
                    cw == Selected(w).curve.conf
                IN  IF cv # cw THEN cv > cw ELSE v < w
BestVenue(q) ==
  LET ok == {v \in Inputs : Feasible(v, q)}
  IN  IF ok = {} THEN 0 ELSE CHOOSE v \in ok : \A w \in ok \ {v} : HigherRanked(v, w, q)
-----------------------------------------------------------------------------
(* BuildMultiVenuePlan for a hedge of quantity target.                     *)
VenueHealthGreen(v) == cache.health[v] = NoEvent \/ (cache.health[v].routing # 0 /\ cache.health[v].breaker # "open")
Candidates(allowed) ==
  {v \in Inputs : /\ Selected(v).usable /\ (allowed = {} \/ v \in allowed)
                  /\ VenueHealthGreen(v) /\ Selected(v).curve.max > 0}
Liquidity(S) == MapThenSumSet(LAMBDA v : Selected(v).curve.max, S)
Rounded(a, b) == (2 * a + b) \div (2 * b)
(* share * target is at least the absolute and the relative threshold.     *)
Kept(S, target) ==
  {v \in S : /\ Selected(v).curve.max * target >= MinPart * Liquidity(S)
             /\ 100 * Selected(v).curve.max >= MinShare * Liquidity(S)}
Largest(S) == CHOOSE v \in S : \A w \in S : \/ Selected(v).curve.max > Selected(w).curve.max
                                            \/ Selected(v).curve.max = Selected(w).curve.max /\ v <= w
(* Shares are rounded; the largest takes the difference to the target.     *)
Shares(S, target) ==
  LET q == [v \in S |-> Rounded(target * Selected(v).curve.max, Liquidity(S))]
      rest == target - MapThenSumSet(LAMBDA v : q[v], S)
  IN  [q EXCEPT ![Largest(S)] = @ + rest]
BuildMultiVenuePlan(target, allowed) ==
  LET S == Candidates(allowed)
      K == Kept(S, target)
  IN  CASE target <= 0 \/ S = {} -> <<>>
        [] target > 0 /\ S # {} /\ (K = {} \/ Cardinality(S) = 1) -> [v \in {Largest(S)} |-> target]
        [] OTHER -> Shares(K, target)

(* FanOutIntentByPlan: two venues or more, otherwise the intent as it is.  *)
FanOut(target, allowed) ==
  LET p == BuildMultiVenuePlan(target, allowed)
  IN  IF Cardinality(DOMAIN p) >= 2 THEN p ELSE <<>>
PlanHedge(target, allowed) ==
  /\ plan' = [target |-> target, alloc |-> FanOut(target, allowed)]
  /\ UNCHANGED <<healthLog, svc, cache, nCurves, plannerFaults>>

(* Both services keep their state in memory and resume at their offset.    *)
RestartHealth ==
  /\ plannerFaults < MaxPlannerFaults /\ plannerFaults' = plannerFaults + 1
  /\ svc' = [svc EXCEPT !.state = FreshSvc]
  /\ UNCHANGED <<healthLog, cache, plan, nCurves>>
RestartPlanner ==
  /\ plannerFaults < MaxPlannerFaults /\ plannerFaults' = plannerFaults + 1
  /\ cache' = [cache EXCEPT !.health = [v \in PVenues |-> NoEvent], !.curves = EmptyCurves]
  /\ plan' = NoPlan
  /\ UNCHANGED <<healthLog, svc, nCurves>>
-----------------------------------------------------------------------------
PlannerNext ==
  \/ \E v \in PVenues, b \in Beats : PublishStatus(v, b)
  \/ ServiceReads \/ OnVenueHealth
  \/ \E v \in PVenues, c \in PCurves : OnLiquidityCurve(v, c)
  \/ \E target \in Targets, allowed \in {{}, PVenues \ {1}} : PlanHedge(target, allowed)
  \/ RestartHealth \/ RestartPlanner

PlannerSpec == PlannerInit /\ [][PlannerNext]_plannerVars
-----------------------------------------------------------------------------
PlannerTypeOK ==
  /\ svc.pos \in 0..Len(healthLog) /\ cache.pos \in 0..Len(healthLog)
  /\ \A i \in DOMAIN healthLog : healthLog[i].score \in 0..100
  /\ \A v \in PVenues : /\ svc.state[v].score \in 0..100 /\ svc.state[v].routing \in 0..3
                        /\ svc.state[v].breaker \in {"closed", "half_open", "open"}
  /\ \A v \in DOMAIN plan.alloc : plan.alloc[v] \in Nat

(* The usable flag of a cached curve is what its curve and the venue's     *)
(* cached health say together, whichever of the two consumers came last.   *)
UsableIsCurrent ==
  \A v \in PVenues, l \in 1..3 :
    LET x == cache.curves[v][l]
    IN  x.curve # NoCurve => x.usable = ShouldUse(x.curve, cache.health[v])

(* Once both consumers have read the whole topic, a venue whose breaker    *)
(* venue_health holds open has no usable curve in matching, if matching    *)
(* has heard of the venue since it started.                                *)
OpenBreakerReachesPlanner ==
  svc.pos = Len(healthLog) /\ cache.pos = Len(healthLog) =>
    \A v \in PVenues :
      svc.state[v].breaker = "open" /\ cache.health[v] # NoEvent => UsableLevels(v) = {}

(* A hedge that is split is split completely, between venues that could    *)
(* be used, and no part is negative.                                       *)
PlanAddsUp ==
  plan.alloc # <<>> =>
    /\ MapThenSumSet(LAMBDA v : plan.alloc[v], DOMAIN plan.alloc) = plan.target
    /\ \A v \in DOMAIN plan.alloc : plan.alloc[v] >= 0

(* The venue a forecast picks can take the whole quantity within the       *)
(* limits, and no venue that can do so is cheaper.                         *)
ForecastPicksBest ==
  \A q \in Forecasts :
    LET v == BestVenue(q)
        Can(w) == LET x == Selected(w)
                  IN  /\ x.usable /\ q.qty \in 1..x.curve.max /\ RefPrice(q, x.curve) > 0
                      /\ q.speed <= x.curve.speed
                      /\ q.limit # 0 => (q.side = "buy" => x.curve.price <= q.limit)
                                        /\ (q.side = "sell" => x.curve.price >= q.limit)
                      /\ q.slippage # 0 => Cost(w, q) <= q.slippage
    IN  IF v = 0 THEN \A w \in Inputs : ~Can(w)
        ELSE Can(v) /\ \A w \in Inputs : Can(w) => Cost(v, q) <= Cost(w, q)
=============================================================================

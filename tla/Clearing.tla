------------------------------ MODULE Clearing ------------------------------
(***************************************************************************)
(* The continuous clearing of one symbol (matching): Init, Solve and the   *)
(* allocation of ContinuousClearingSolver, RunBatchUseCase around it, and  *)
(* the venue intents and hedge intents built from the fills of a batch.    *)
(*                                                                         *)
(* An order is [side, lo, hi, rate, qmax, user]: business prices, rate per *)
(* batch interval.  Flow orders have one leg (FlowOrder::from_proto and    *)
(* the writer of flow_order_legs).  Quantities and prices are integers; a  *)
(* division rounds down, so a property about a pro-rata split allows one   *)
(* unit per fill.  A side of a venue curve is a sequence of [q, p], the    *)
(* grid of cumulative quantities and the price at each.                    *)
(*                                                                         *)
(* The interior point iterations are not modelled step by step but by what *)
(* they can return: SolveImpl ends converged, at the iteration limit, or   *)
(* with NaN.  Its iterates stay strictly inside (0, qH), so every active   *)
(* order has a positive leg_qty and is planned; what is below one unit is  *)
(* noise, and only decides a comparison of two equal totals.               *)
(***************************************************************************)
EXTENDS Positions, SequencesExt

CONSTANTS Books,         \* order id -> order: the books to start from
          VenueCurves,   \* [bid, ask]: what external_liquidity may hold
          ClearPrices,   \* prices the iterations may end at
          RefPrice,      \* reference_prices of the symbol
          ThresholdQty, ThresholdNotional,  \* hedge trigger thresholds
          MaxBatches     \* bound: batches run

(* What the constants satisfy; the instances that are checked assert it.   *)
ClearingAssumption == RefPrice \in Nat /\ ThresholdQty \in Nat
                                /\ ThresholdNotional \in Nat /\ MaxBatches \in Nat

VARIABLES book,     \* the orders
          filled,   \* filled_cum of each order in memory
          given,    \* what the published batches gave each order, and who was opposite
          active,   \* ids of active_orders
          batch,    \* the last batch: [n, pi, curve, fills, how]
          unsent,   \* intents built and not yet published
          bought    \* per order, the venue intents on execution.intents

clearingVars == <<book, filled, given, active, batch, unsent, bought>>

Counterparties == {"internal", "venue"}
Ids    == DOMAIN book
OfSide(s) == {o \in active : book[o].side = s}
Greater(a, b) == IF a > b THEN a ELSE b
SumOver(f, S) == FoldSet(LAMBDA o, n : n + f[o], 0, S)


(* qH of Init: the rate, and what remains of the order.                    *)
Left(o)  == Greater(0, book[o].qmax - filled[o])

HighQty(o) == Lesser(book[o].rate, Left(o))

(* ComputeInternalOverlapPrice, else the reference price.                  *)
BuyLimits  == {book[o].hi : o \in OfSide("buy")}
SellLimits == {book[o].lo : o \in OfSide("sell")}
Overlaps   == /\ BuyLimits # {} /\ SellLimits # {}
              /\ \A b \in BuyLimits, s \in SellLimits : s <= b
InitialPi  ==
  IF Overlaps THEN (Min(BuyLimits) + Max(SellLimits)) \div 2 ELSE RefPrice

(* The share of the rate an order trades at price p: the linear demand of  *)
(* the quadratic programme, and PriceBandMaxQtyForSingleLegOrder.          *)
Band(o, p) ==
  LET b == book[o]
      gap == IF b.side = "buy" THEN b.hi - p ELSE p - b.lo
      width == b.hi - b.lo
  IN  IF width = 0 THEN b.qmax + b.rate
      ELSE (b.rate * Greater(0, Lesser(gap, width))) \div width

(* What SolveImpl may return: [x, pi].                                     *)
Converged ==
  {[x |-> [o \in active |-> Lesser(HighQty(o), Band(o, p))], pi |-> p] : p \in ClearPrices}

Balanced(r) == SumOver(r.x, OfSide("buy")) = SumOver(r.x, OfSide("sell"))

Unfinished == 
  [x : {x \in [active -> UNION {{HighQty(o) \div 2, HighQty(o)} : o \in active}] :
           \A o \in active : x[o] \in {HighQty(o) \div 2, HighQty(o)}},
   pi : ClearPrices]

Fallback == [x |-> [o \in active |-> HighQty(o)], pi |-> InitialPi]

(* ExternalPriceAtQty: the first grid point that holds the quantity, else  *)
(* the last one.                                                           *)
PriceAt(grid, qty) ==
  LET holds == {i \in DOMAIN grid : grid[i].q >= qty}
  IN  grid[IF holds = {} THEN Len(grid) ELSE Min(holds)].p

(* MaxTradableExternalQtyForOrder and MaxPriceImprovingExternalQtyForOrder:*)
(* the grid up to the first point that is not acceptable.                  *)
Reaches(o, p) == IF book[o].side = "buy" THEN p <= book[o].hi ELSE p >= book[o].lo
Improves(o, p, pi) == IF book[o].side = "buy" THEN p < pi ELSE p > pi
MaxTradable(o, grid, pi, improving) ==
  LET good(i) == /\ Reaches(o, grid[i].p)
                 /\ improving => Improves(o, grid[i].p, pi)
      ok == {i \in DOMAIN grid : \A j \in 1 .. i : good(j)}
  IN  IF ok = {} THEN 0 ELSE grid[Max(ok)].q

(* allocate_external_side, over the orders of a side in the order of the   *)
(* snapshot; plan is [req, int, ext].                                      *)
Actual(plan, o) == plan.int[o] + plan.ext[o]
Rooms(plan, S)  == SumOver([o \in S |-> Greater(0, HighQty(o) - Actual(plan, o))], S)

AllocateExternal(plan, seq, grid, pi, improving) ==
  LET S == Range(seq)
      target == Rooms(plan, S)
      take(acc, o) ==
        LET left == target - acc.allocated
            room == Greater(0, HighQty(o) - Actual(acc.plan, o))
            price == PriceAt(grid, acc.consumed + Lesser(left, room))
            capacity == Greater(0, Lesser(HighQty(o), Band(o, price)) - Actual(acc.plan, o))
            available == Greater(0, MaxTradable(o, grid, pi, improving) - acc.consumed)
            qty == Lesser(left, Lesser(capacity, available))
        IN  [plan |-> [acc.plan EXCEPT !.ext[o] = @ + qty],
             consumed |-> acc.consumed + qty, allocated |-> acc.allocated + qty]
  IN  IF grid = <<>> THEN plan
      ELSE FoldLeft(take, [plan |-> plan, consumed |-> SumOver(plan.ext, S),
                           allocated |-> 0], seq).plan

(* requested_remaining and allocate_internal_side: pro rata.               *)
Wanted(plan, S) == SumOver([o \in S |-> Greater(0, plan.req[o] - Actual(plan, o))], S)

AllocateInternal(plan, S, target) ==
  LET total == Wanted(plan, S)
      part(o) == (Greater(0, plan.req[o] - Actual(plan, o)) * Lesser(target, total)) \div total
  IN  IF total = 0 THEN plan
      ELSE [plan EXCEPT !.int = [o \in DOMAIN @ |-> IF o \in S THEN @[o] + part(o) ELSE @[o]]]

(* The first two phases: better venue prices, then the internal match.     *)
Matched(r, buys, sells, curve) ==
  LET none == [o \in active |-> 0]
      B == Range(buys)
      S == Range(sells)
      p1 == AllocateExternal([req |-> r.x, int |-> none, ext |-> none], buys, curve.ask, r.pi, TRUE)
      p2 == AllocateExternal(p1, sells, curve.bid, r.pi, TRUE)
      internal == Lesser(Wanted(p2, B), Wanted(p2, S))
  IN  AllocateInternal(AllocateInternal(p2, B, internal), S, internal)

(* The side that wants more takes the rest from the venue; with equal      *)
(* totals the noise of the iterations decides.                             *)
Ahead(plan) ==
  LET more == Wanted(plan, OfSide("buy")) - Wanted(plan, OfSide("sell"))
  IN  IF more > 0 THEN {"buy"} ELSE IF more < 0 THEN {"sell"} ELSE {"buy", "sell", "none"}

Completed(plan, r, buys, sells, curve, ahead) ==
  CASE ahead = "buy"  -> AllocateExternal(plan, buys, curve.ask, r.pi, FALSE)
    [] ahead = "sell" -> AllocateExternal(plan, sells, curve.bid, r.pi, FALSE)
    [] OTHER          -> plan

(* The fills: the internal part at the clearing price, the external part   *)
(* at the curve's price for what the side has consumed so far.             *)
FillsOf(plan, seq, grid, pi) ==
  LET at(o) == SumOver(plan.ext, {seq[j] : j \in 1 .. CHOOSE i \in DOMAIN seq : seq[i] = o})
  IN  {[order |-> o, qty |-> plan.int[o], price |-> pi, from |-> "internal"] :
         o \in {x \in Range(seq) : plan.int[x] > 0}}
      \cup
      {[order |-> o, qty |-> plan.ext[o], price |-> PriceAt(grid, at(o)), from |-> "venue"] :
         o \in {x \in Range(seq) : plan.ext[x] > 0}}

(* CapFillsAgainstRemaining: fills of an order beyond what is left are cut,*)
(* the internal fill comes first.                                          *)
Cap(fills) ==
  LET before(f) == IF f.from = "internal" THEN 0
                   ELSE LET i == {g \in fills : g.order = f.order /\ g.from = "internal"}
                        IN  IF i = {} THEN 0 ELSE (CHOOSE g \in i : TRUE).qty
  IN  {[f EXCEPT !.qty = Lesser(@, Greater(0, Left(f.order) - before(f)))] : f \in fills}

FilledBy(fills, o, from) ==
  SumOver([f \in fills |-> f.qty], {f \in fills : f.order = o /\ f.from = from})

(* PositionSnapshotCalculator: the net quantity of each user over all      *)
(* fills, valued at the clear price of the batch (VWAP of its fills).      *)
QtyOf(fills)      == SumOver([f \in fills |-> f.qty], fills)
NotionalOf(fills) == SumOver([f \in fills |-> f.qty * f.price], fills)

NetOf(fills, u) ==
  LET of(s) == {f \in fills : book[f.order].user = u /\ book[f.order].side = s}
  IN  QtyOf(of("buy")) - QtyOf(of("sell"))

(* HedgeTriggerPolicy::Evaluate: a threshold of 0 is switched off.         *)
Triggered(fills, u) ==
  LET net == Abs(NetOf(fills, u))
  IN  \/ ThresholdQty > 0 /\ net > ThresholdQty
      \/ /\ ThresholdNotional > 0 /\ NotionalOf(fills) > 0
         /\ net * NotionalOf(fills) > ThresholdNotional * QtyOf(fills)

(* BuildFromHedgeTriggerDecisions: the opposite of the user's position.    *)
Users == {book[o].user : o \in Ids}

HedgeIntents(n, fills) ==
  {[id |-> <<n, "hedge", u>>, why |-> "hedge", order |-> u, qty |-> Abs(NetOf(fills, u)), price |-> 0,
    side |-> IF NetOf(fills, u) > 0 THEN "sell" ELSE "buy"] :
      u \in {v \in Users : /\ NetOf(fills, v) # 0 /\ NotionalOf(fills) > 0 /\ Triggered(fills, v)}}

\* Mutant: internal fills are sent to the venue as well.
IntentPerFill(n, fills) ==
  {[id |-> <<n, f.from, f.order>>, why |-> "external_liquidity", order |-> f.order, qty |-> f.qty,
    price |-> f.price, side |-> book[f.order].side] : f \in {g \in fills : g.qty > 0}}

(* BuildFromExternalFills: one intent per venue fill, named by the batch,  *)
(* the order and the fill; limited at the price of the fill.               *)
VenueIntents(n, fills) ==
  {[id |-> <<n, "fill", f.order>>, why |-> "external_liquidity", order |-> f.order, qty |-> f.qty,
    price |-> f.price, side |-> book[f.order].side] :
      f \in {g \in fills : g.from = "venue" /\ g.qty > 0}}

(* The updates of Solve (uncapped), applied by Execute when the batch was  *)
(* published: filled orders leave.                                         *)
Updated(plan, o) == filled[o] + (IF o \in active THEN Actual(plan, o) ELSE 0)

Cleared(plan, r, how, buys, sells, curve) ==
  LET fills == Cap(FillsOf(plan, buys, curve.ask, r.pi) \cup FillsOf(plan, sells, curve.bid, r.pi))
      n == batch.n + 1
  IN  /\ batch' = [n |-> n, pi |-> r.pi, curve |-> curve, fills |-> fills, how |-> how]
      /\ given' = [o \in Ids |-> [c \in Counterparties |-> given[o][c] + FilledBy(fills, o, c)]]
      /\ filled' = [o \in Ids |-> Updated(plan, o)]
      /\ active' = {o \in active : Updated(plan, o) < book[o].qmax}
      /\ unsent' = HedgeIntents(n, fills) \cup VenueIntents(n, fills)
      /\ UNCHANGED <<book, bought>>

(* RunBatchUseCase::Execute: the snapshot of the unordered map is in any   *)
(* order.                                                                  *)
Execute(how, results) ==
  /\ active # {} /\ batch.how = "none" /\ batch.n < MaxBatches
  /\ \E r \in results, curve \in VenueCurves,
        buys \in SetToSeqs(OfSide("buy")), sells \in SetToSeqs(OfSide("sell")) :
       \E plan \in {Matched(r, buys, sells, curve)} : \E ahead \in Ahead(plan) :
         Cleared(Completed(plan, r, buys, sells, curve, ahead), r, how, buys, sells, curve)

ExecuteConverged  == Execute("converged", {r \in Converged : Balanced(r)})
ExecuteUnfinished == Execute("unfinished", Unfinished)
ExecuteFallback   == Execute("nan", {Fallback})

NoBatch(n) == [n |-> n, pi |-> 0, curve |-> [bid |-> <<>>, ask |-> <<>>], fills |-> {}, how |-> "none"]

(* The solver throws, or the batch is not published: nothing changes, the  *)
(* batch number is not used again.                                         *)
ExecuteFails ==
  /\ active # {} /\ batch.how = "none" /\ batch.n < MaxBatches
  /\ batch' = NoBatch(batch.n + 1)
  /\ UNCHANGED <<book, filled, given, active, unsent, bought>>

(* The end of the batch: hedge intents, then the venue intents; a failed   *)
(* produce is logged only.                                                 *)
VenueQty(intents, o) ==
  LET mine == {i \in intents : i.why = "external_liquidity" /\ i.order = o}
  IN  SumOver([i \in mine |-> i.qty], mine)

PublishIntents ==
  /\ batch.how # "none"
  /\ \E lost \in {{}, unsent} \cup {{i} : i \in unsent} :
       bought' = [o \in Ids |-> bought[o] + VenueQty(unsent \ lost, o)]
  /\ unsent' = {}
  /\ batch' = NoBatch(batch.n)
  /\ UNCHANGED <<book, filled, given, active>>

ClearingInit ==
  /\ book \in Books
  /\ filled = [o \in Ids |-> 0]
  /\ given = [o \in Ids |-> [c \in Counterparties |-> 0]]
  /\ active = Ids
  /\ batch = NoBatch(0) /\ unsent = {} /\ bought = filled

Idle == (active = {} \/ batch.n = MaxBatches) /\ batch.how = "none" /\ UNCHANGED clearingVars

ClearingNext == \/ ExecuteConverged \/ ExecuteUnfinished \/ ExecuteFallback \/ ExecuteFails
                \/ PublishIntents \/ Idle

ClearingSpec == ClearingInit /\ [][ClearingNext]_clearingVars
-----------------------------------------------------------------------------
ClearingTypeOK ==
  /\ active \subseteq Ids
  /\ \A o \in Ids : filled[o] \in 0 .. book[o].qmax /\ given[o] \in [Counterparties -> Nat]
  /\ \A f \in batch.fills : f.order \in Ids /\ f.qty \in Nat

MatchedQty(s, from) ==
  SumOver([f \in batch.fills |-> f.qty], {f \in batch.fills : f.from = from /\ book[f.order].side = s})

(* What memory counts as filled is what the published fills gave, though   *)
(* the updates are not capped and the fills are: over any batches, with    *)
(* any ending of the solver.                                               *)
MemoryMatchesFills == \A o \in Ids : filled[o] = given[o].internal + given[o].venue

(* Internal buys are internal sells (flow conservation), whatever the      *)
(* solver returned.                                                        *)
InternalBalances ==
  Abs(MatchedQty("buy", "internal") - MatchedQty("sell", "internal")) <= Cardinality(batch.fills)

(* The venue fills of a side never exceed what the curve holds at prices   *)
(* some filled order reaches.                                              *)
WithinDepth ==
  \A s \in {"buy", "sell"} :
    LET grid == IF s = "buy" THEN batch.curve.ask ELSE batch.curve.bid
        qty == MatchedQty(s, "venue")
    IN  qty > 0 => \E f \in batch.fills : /\ f.from = "venue" /\ book[f.order].side = s
                                          /\ qty <= MaxTradable(f.order, grid, batch.pi, FALSE)

(* A venue fill is never outside the limit of its order.                   *)
VenueFillsWithinLimit == \A f \in batch.fills : f.from = "venue" => Reaches(f.order, f.price)

(* An internal fill is never outside the limit of its order when the       *)
(* solver converged.                                                       *)
ConvergedWithinLimit ==
  batch.how = "converged" => \A f \in batch.fills : f.from = "internal" => Reaches(f.order, f.price)

(* No intent buys at a venue what no published fill gave: over all batches *)
(* the venue intents of an order are at most its venue fills.              *)
IntentsBacked == \A o \in Ids : bought[o] + VenueQty(unsent, o) <= given[o].venue

(* The hedges of a batch offset each other except for what came from the   *)
(* venue: with no position below its threshold, the exchange asks the      *)
(* venues for the net of the venue fills and nothing of the internal ones. *)
HedgesNetToVenue ==
  LET hedges(s) == SumOver([i \in unsent |-> i.qty], {i \in unsent : i.why = "hedge" /\ i.side = s})
  IN  (\A u \in Users : NetOf(batch.fills, u) = 0 \/ Triggered(batch.fills, u))
        => Abs((hedges("sell") - hedges("buy")) - (MatchedQty("buy", "venue") - MatchedQty("sell", "venue")))
             <= Cardinality(batch.fills)
=============================================================================

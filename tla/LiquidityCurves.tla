-------------------------- MODULE LiquidityCurves --------------------------
(***************************************************************************)
(* Liquidity curves of the venues service: the canonical book or the       *)
(* virtual book of a pool, its cost curve, the L2 and L3 layers over it,   *)
(* the Fenchel dual and the synthetic flow orders made from it.            *)
(*                                                                         *)
(* One job walks through LiquidityCurveProducer::Publish.  A curve is a    *)
(* sequence of knots [q, s, p]: cumulative quantity, cumulative cost and   *)
(* marginal price.  Decimals are integers: a price of a curve counts       *)
(* 1/PriceDen of the book's unit (fee_adjusted_price_scale), a cost        *)
(* 1/Scale of price times quantity, and divisions and conversions from     *)
(* double round half up as DivideDecimal and std::round do.  The square    *)
(* root of the price at tick t is taken as t.                              *)
(***************************************************************************)
EXTENDS Integers, Sequences, FiniteSets, SequencesExt, FiniteSetsExt

CONSTANTS
  RawBooks,      \* sides of a raw book: sequences of [p, q]
  Pools,         \* pool states: [tick, liquidity, ticks], ticks a sequence of [t, net]
  Mids, Reserves, Depth,   \* a pool known by price and reserve only
  Tick, Lot, MinQty,
  FeeNum, FeeDen,          \* taker or pool fee, a fraction
  Overhead, Slippage,      \* of a swap: overhead rate and multiplier, in 1/FeeDen
  PriceDen, Scale,         \* price and cost units
  Gas,           \* gas cost of a swap, in units of price times quantity
  Mu,            \* smoothing of the Moreau envelope; 0 switches it off
  Samples,       \* execution samples: [qty, impact], impact in 1/ImpactDen
  ImpactDen, MaxImpact, FullWeight, MaxHistory

VARIABLES
  job,           \* [pc, side, source, level, book, curve, dual]
  impact_history,
  synthetic      \* the last synthetic order, or NoOrder

curveVars == <<job, impact_history, synthetic>>

NoOrder == [p_l |-> 0, p_h |-> 0, q_max |-> 0]

Div(a, b) == (2 * a + b) \div (2 * b)
Largest(a, b) == IF a >= b THEN a ELSE b
Least(a, b)   == IF a <= b THEN a ELSE b
-----------------------------------------------------------------------------
(* Canonical book: prices rounded away from the taker, quantities down to  *)
(* the lot, levels of one price added up.                                  *)
FloorToStep(v, step) == (v \div step) * step
CeilToStep(v, step)  == ((v + step - 1) \div step) * step

(* Mutant: every price rounded down. *)
RoundedDown(p, side) == FloorToStep(p, Tick)

CanonicalPrice(p, side) ==
  IF side = "sell" THEN FloorToStep(p, Tick) ELSE CeilToStep(p, Tick)

(* A sell walks the bids from the highest, a buy the asks from the lowest. *)
Better(side, p, r) == IF side = "sell" THEN p > r ELSE p < r

CanonicalizeBookSide(levels, side) ==
  LET P(i)   == CanonicalPrice(levels[i].p, side)
      Q(i)   == FloorToStep(levels[i].q, Lot)
      kept   == {i \in DOMAIN levels : P(i) > 0 /\ Q(i) > 0 /\ Q(i) >= MinQty}
      prices == SetToSortSeq({P(i) : i \in kept}, LAMBDA p, r : Better(side, p, r))
  IN  [k \in DOMAIN prices |->
         [p |-> prices[k],
          q |-> MapThenSumSet(Q, {i \in kept : P(i) = prices[k]})]]

(* ApplyTakerFeeToBook: asks cost more, bids pay less, rounded to the      *)
(* price scale of the curve.                                               *)
With(rate, side) == IF side = "buy" THEN FeeDen + rate ELSE FeeDen - rate

ApplyTakerFee(levels, side) ==
  [k \in DOMAIN levels |-> [p |-> Div(levels[k].p * With(FeeNum, side) * PriceDen, FeeDen),
                            q |-> levels[k].q]]
-----------------------------------------------------------------------------
(* Virtual book of a pool.                                                 *)
PriceAtTick(t) == t * t
BaseAmountInRange(liquidity, lower, upper) ==
  IF liquidity > 0 /\ lower < upper THEN Div(liquidity * (upper - lower), lower * upper) ELSE 0

(* Selling walks the ticks at or below the current one downwards: the      *)
(* first range ends at the current tick, and crossing a tick takes its net *)
(* liquidity off.  The direct walk leaves an empty range before that.      *)
SellWalk(pool, direct) ==
  LET below == SetToSortSeq({i \in DOMAIN pool.ticks : pool.ticks[i].t <= pool.tick},
                            LAMBDA i, j : i > j)
      Cross(acc, i) ==
        LET lower == pool.ticks[i].t
            upper == IF acc.out = <<>> THEN pool.tick ELSE pool.ticks[i + 1].t
            qty   == BaseAmountInRange(acc.liq, lower, upper)
        IN  IF direct /\ upper <= lower THEN acc
            ELSE [out |-> IF qty > 0 THEN Append(acc.out, [p |-> PriceAtTick(lower), q |-> qty])
                          ELSE acc.out,
                  liq |-> Largest(0, acc.liq - pool.ticks[i].net)]
  IN  FoldLeft(Cross, [out |-> <<>>, liq |-> pool.liquidity], below).out

(* Buying starts at the first tick at or above the current one and adds    *)
(* its net liquidity before the range above it.                            *)
BuyWalk(pool) ==
  LET above == SetToSortSeq({i \in DOMAIN pool.ticks : pool.ticks[i].t >= pool.tick},
                            LAMBDA i, j : i < j)
      Cross(acc, i) ==
        LET liq == Largest(0, acc.liq + pool.ticks[i].net)
            qty == IF i = Len(pool.ticks) THEN 0
                   ELSE BaseAmountInRange(liq, pool.ticks[i].t, pool.ticks[i + 1].t)
        IN  [out |-> IF qty > 0
                     THEN Append(acc.out, [p |-> PriceAtTick(pool.ticks[i + 1].t), q |-> qty])
                     ELSE acc.out,
             liq |-> liq]
  IN  FoldLeft(Cross, [out |-> <<>>, liq |-> pool.liquidity], above).out

BuildTickBasedSide(pool, side)  == IF side = "sell" THEN SellWalk(pool, FALSE) ELSE BuyWalk(pool)
BuildSideSegmentsFromTicks(pool, side) ==
  IF side = "sell" THEN SellWalk(pool, TRUE) ELSE BuyWalk(pool)

(* A pool without ticks is spread evenly around its price, with the fee in *)
(* the price and a quantity that falls to half.                            *)
BuildUniformSide(mid, reserve, levels, side) ==
  LET near == IF side = "sell" THEN Div(mid * (FeeDen - FeeNum), FeeDen)
              ELSE Div(mid * (FeeDen + FeeNum), FeeDen)
      P(i) == IF side = "sell" THEN near - (i - 1) ELSE near + (i - 1)
      Q(i) == Largest(1, Div(Largest(1, reserve) * (2 * levels - (i - 1)), 2 * levels * levels))
  IN  SelectSeq([i \in 1..levels |-> [p |-> P(i), q |-> Q(i)]], LAMBDA l : l.p > 0)
-----------------------------------------------------------------------------
(* The cost curve of a side, from the fee adjusted levels.                 *)
BuildDepthSideCurves(levels) ==
  LET Qty(k)  == levels[k].q
      Cost(k) == levels[k].p * levels[k].q * Scale
  IN  <<[q |-> 0, s |-> 0, p |-> levels[1].p]>> \o
      [k \in DOMAIN levels |->
         [q |-> MapThenSumSet(Qty, 1..k), s |-> MapThenSumSet(Cost, 1..k), p |-> levels[k].p]]

(* RebuildCurvesFromCostLayer: marginal prices are the slopes of the cost, *)
(* kept monotone.                                                          *)
RebuildFromCostLayer(c, cost, side) ==
  LET Slope(k) == Div(cost[k] - cost[k - 1], (c[k].q - c[k - 1].q) * Scale)
      price == [k \in 2..Len(c) |->
                  IF side = "buy" THEN Max({Slope(j) : j \in 2..k})
                  ELSE Min({Slope(j) : j \in 2..k})]
  IN  [k \in DOMAIN c |-> [q |-> c[k].q, s |-> cost[k], p |-> price[IF k = 1 THEN 2 ELSE k]]]

Costs(c) == [k \in DOMAIN c |-> c[k].s]

(* ApplyExecutionCorrections: slippage stretches the distance to the first *)
(* price, then fee and overhead; a price that is not positive any more is  *)
(* dropped, the rest kept monotone.  Prices count 1/FeeDen^3 of the book's *)
(* unit, doubles that are not rounded yet.                                 *)
ApplyExecutionCorrections(segments, side) ==
  LET Stretched(k) == segments[1].p * FeeDen + (segments[k].p - segments[1].p) * Slippage
      P(k) == Stretched(k) * With(FeeNum, side) * With(Overhead, side)
      kept == SelectSeq([k \in DOMAIN segments |-> [p |-> P(k), q |-> segments[k].q]],
                        LAMBDA l : l.p > 0)
      Kept(k) == {kept[j].p : j \in 1..k}
  IN  [k \in DOMAIN kept |-> [p |-> IF side = "buy" THEN Max(Kept(k)) ELSE Min(Kept(k)),
                              q |-> kept[k].q]]

(* BuildDirectAmmFobCurves: costs are summed up and rounded, and gas is    *)
(* paid once, by every quantity.                                           *)
AddGas(segments, side) ==
  LET c    == BuildDepthSideCurves(ApplyExecutionCorrections(segments, side))
      Spent(k) == Div(c[k].s * PriceDen, FeeDen * FeeDen * FeeDen)
      Paid(k) == IF k = 1 THEN 0
                 ELSE IF side = "buy" THEN Spent(k) + Gas * Scale
                 ELSE Largest(0, Spent(k) - Gas * Scale)
  IN  RebuildFromCostLayer(c, [k \in DOMAIN c |-> Max({Paid(j) : j \in 1..k})], side)

(* NormalizeCostLayerForL2 and back: what a sell pays is concave, so the   *)
(* layers work on the loss against the first price.                        *)
Mirrored(c, cost, side) ==
  IF side = "buy" THEN cost
  ELSE [k \in DOMAIN cost |-> c[1].p * c[k].q * Scale - cost[k]]

(* ConvexifySlopesPav: pool adjacent violators on slopes, with the widths  *)
(* as weights; blocks are [n, w, rise].                                    *)
RECURSIVE MergeBlocks(_)
MergeBlocks(blocks) ==
  LET n == Len(blocks)
  IN  IF n < 2 THEN blocks
      ELSE LET a == blocks[n - 1]
               b == blocks[n]
           IN  IF a.rise * b.w <= b.rise * a.w THEN blocks
               ELSE MergeBlocks(Append(SubSeq(blocks, 1, n - 2),
                      [n |-> a.n + b.n, w |-> a.w + b.w, rise |-> a.rise + b.rise]))

PavBlocks(c, cost) ==
  FoldLeft(LAMBDA blocks, k : MergeBlocks(Append(blocks,
             [n |-> 1, w |-> c[k + 1].q - c[k].q, rise |-> cost[k + 1] - cost[k]])),
           <<>>, [k \in 1..Len(c) - 1 |-> k])

ConvexifyCostLayer(c, cost) ==
  IF Len(c) < 3 THEN cost
  ELSE LET blocks == PavBlocks(c, cost)
           Ends(j) == 1 + FoldFunctionOnSet(LAMBDA x, y : x + y, 0,
                            [b \in DOMAIN blocks |-> blocks[b].n], 1..j)
           Block(k) == Min({j \in DOMAIN blocks : Ends(j) >= k})
           Rise(j) == FoldFunctionOnSet(LAMBDA x, y : x + y, 0,
                        [b \in DOMAIN blocks |-> blocks[b].rise], 1..j)
       IN  [k \in DOMAIN c |->
              IF k = 1 THEN cost[1]
              ELSE LET j == Block(k)
                       from == Ends(j - 1)
                   IN  cost[1] + Rise(j - 1)
                       + Div(blocks[j].rise * (c[k].q - c[from].q), blocks[j].w)]

(* RegularizeCostLayerMoreauL2: the envelope with the steepest slope as    *)
(* the reference price, the first point kept, never decreasing.            *)
RegularizeCostLayerMoreauL2(c, cost) ==
  IF Mu = 0 \/ Len(c) < 2 THEN cost
  ELSE LET ref == Max({1} \cup {Div(cost[k] - cost[k - 1], (c[k].q - c[k - 1].q) * Scale) :
                                k \in 2..Len(c)})
           Near(i, j) == cost[j] + Div((c[i].q - c[j].q) * (c[i].q - c[j].q) * ref * Scale, 2 * Mu)
           env == [i \in DOMAIN c |-> IF i = 1 THEN cost[1] ELSE Min({Near(i, j) : j \in DOMAIN c})]
       IN  [k \in DOMAIN c |-> Max({env[j] : j \in 1..k})]

ApplyL2(c, side, Layer(_, _)) ==
  RebuildFromCostLayer(c, Mirrored(c, Layer(c, Mirrored(c, Costs(c), side)), side), side)
-----------------------------------------------------------------------------
(* L3: the impact of earlier executions, fitted through the origin and     *)
(* blended in as samples arrive.                                           *)
SumOver(h, F(_)) == FoldFunctionOnSet(LAMBDA x, y : x + y, 0, [i \in DOMAIN h |-> F(h[i])], DOMAIN h)

CalibrateImpactModel(h) ==
  [num |-> SumOver(h, LAMBDA x : x.qty * x.impact), den |-> SumOver(h, LAMBDA x : x.qty * x.qty)]

EvaluateImpact(h, q) ==
  LET fit == CalibrateImpactModel(h)
  IN  Least(MaxImpact, Div(fit.num * q, fit.den))

BlendWeight(h) == Least(Len(h), FullWeight)    \* in 1/FullWeight

ApplyL3ImpactCalibration(c, side, h) ==
  IF h = <<>> THEN c
  ELSE LET Factor(k) == IF side = "buy" THEN ImpactDen + EvaluateImpact(h, c[k].q)
                        ELSE ImpactDen - EvaluateImpact(h, c[k].q)
           Step(k) == IF k = 1 THEN 0
                      ELSE Div(c[k].p * Factor(k) * (c[k].q - c[k - 1].q) * Scale, ImpactDen)
           executed == [k \in DOMAIN c |-> MapThenSumSet(Step, 1..k)]
           w == BlendWeight(h)
       IN  RebuildFromCostLayer(c,
             [k \in DOMAIN c |-> Div((FullWeight - w) * c[k].s + w * executed[k], FullWeight)], side)

(* BuildFenchelLegendreLayer over the slopes of the curve: the dual value  *)
(* and the largest quantity that reaches it.                               *)
FenchelGrid(c) == {Div(c[k].s - c[k - 1].s, c[k].q - c[k - 1].q) : k \in 2..Len(c)}
BuildFenchelLegendreLayer(c) ==
  [price \in FenchelGrid(c) |->
     LET value == Max({price * c[k].q - c[k].s : k \in DOMAIN c})
     IN  [value |-> value,
          qty |-> Max({c[k].q : k \in {j \in DOMAIN c : price * c[j].q - c[j].s = value}})]]

(* BuildSyntheticFlowOrders: the price range and size of the side.         *)
BuildSyntheticFlowOrder(c) ==
  [p_l |-> Min({c[k].p : k \in DOMAIN c}), p_h |-> Max({c[k].p : k \in DOMAIN c}),
   q_max |-> Max({c[k].q : k \in DOMAIN c})]
-----------------------------------------------------------------------------
Level == {"L1", "L2", "L3"}
Side  == {"buy", "sell"}
Source ==
  [kind : {"book"}, levels : RawBooks] \cup [kind : {"pool"}, pool : Pools]
  \cup [kind : {"reserves"}, mid : Mids, reserve : Reserves]

Jobs ==
  [pc : {"canonical"}, side : Side, source : Source, level : Level,
   book : {<<>>}, curve : {<<>>}, dual : {<<>>}]

CurveInit ==
  /\ job \in Jobs
  /\ impact_history = <<>>
  /\ synthetic = NoOrder

At(pc) == job.pc = pc
Goto(pc) == [job EXCEPT !.pc = pc]

(* The levels a curve is built on: a pool with ticks is walked directly.   *)
InputBook(source, side) ==
  CASE source.kind = "book"     -> CanonicalizeBookSide(source.levels, side)
    [] source.kind = "pool"     -> BuildSideSegmentsFromTicks(source.pool, side)
    [] source.kind = "reserves" ->
         CanonicalizeBookSide(BuildUniformSide(source.mid, source.reserve, Depth, side), side)

Canonicalize ==
  /\ At("canonical")
  /\ LET book == InputBook(job.source, job.side)
     IN  job' = [Goto(IF book = <<>> THEN "off" ELSE "build") EXCEPT !.book = book]
  /\ UNCHANGED <<impact_history, synthetic>>

BaseCurve(book, side, kind) ==
  IF kind = "pool" THEN AddGas(book, side) ELSE BuildDepthSideCurves(ApplyTakerFee(book, side))

BuildBase ==
  /\ At("build")
  /\ job' = [Goto(IF job.level = "L1" THEN "dual" ELSE "convex") EXCEPT
               !.curve = BaseCurve(job.book, job.side, job.source.kind)]
  /\ UNCHANGED <<impact_history, synthetic>>

Convexify ==
  /\ At("convex")
  /\ job' = [Goto("moreau") EXCEPT !.curve = ApplyL2(@, job.side, ConvexifyCostLayer)]
  /\ UNCHANGED <<impact_history, synthetic>>

Regularize ==
  /\ At("moreau")
  /\ job' = [Goto(IF job.level = "L2" THEN "dual" ELSE "impact") EXCEPT
               !.curve = ApplyL2(@, job.side, RegularizeCostLayerMoreauL2)]
  /\ UNCHANGED <<impact_history, synthetic>>

Calibrate ==
  /\ At("impact")
  /\ job' = [Goto("dual") EXCEPT !.curve = ApplyL3ImpactCalibration(@, job.side, impact_history)]
  /\ UNCHANGED <<impact_history, synthetic>>

Dualise ==
  /\ At("dual")
  /\ job' = [Goto("synthetic") EXCEPT !.dual = BuildFenchelLegendreLayer(job.curve)]
  /\ UNCHANGED <<impact_history, synthetic>>

PublishSynthetic ==
  /\ At("synthetic")
  /\ synthetic' = BuildSyntheticFlowOrder(job.curve)
  /\ job' = Goto("done")
  /\ UNCHANGED impact_history

(* ObserveExecution, from the execution thread: the history keeps the last *)
(* MaxHistory samples.                                                     *)
ObserveSample(x) ==
  /\ job.pc \in {"canonical", "impact"} /\ job.level = "L3"
  /\ impact_history' =
       (IF Len(impact_history) = MaxHistory THEN Tail(impact_history) ELSE impact_history) \o <<x>>
  /\ UNCHANGED <<job, synthetic>>

CurveNext ==
  \/ Canonicalize \/ BuildBase \/ Convexify \/ Regularize \/ Calibrate
  \/ Dualise \/ PublishSynthetic
  \/ \E x \in Samples : ObserveSample(x)

CurveSpec == CurveInit /\ [][CurveNext]_curveVars
-----------------------------------------------------------------------------
CurveTypeOK ==
  /\ job.pc \in {"canonical", "build", "convex", "moreau", "impact", "dual", "synthetic", "done", "off"}
  /\ \A k \in DOMAIN job.curve :
       /\ job.curve[k].q >= 0 /\ job.curve[k].s >= 0 /\ job.curve[k].p >= 0
       /\ k > 1 => job.curve[k].q > job.curve[k - 1].q
  /\ Len(impact_history) <= MaxHistory

(* Reference: what a taker really pays or gets for q from the raw levels,  *)
(* best prices first.                                                      *)
RefCost(levels, side, q) ==
  LET order == SetToSortSeq(DOMAIN levels, LAMBDA i, j :
                 Better(side, levels[i].p, levels[j].p) \/ (levels[i].p = levels[j].p /\ i < j))
      Take(acc, i) == LET x == Least(acc.left, levels[i].q)
                      IN  [left |-> acc.left - x, cost |-> acc.cost + x * levels[i].p]
  IN  FoldLeft(Take, [left |-> q, cost |-> 0], order).cost

(* The same with the fee, in 1/FeeDen of the cost unit, and what swapping  *)
(* q along the ranges of a pool takes or pays, with fee, overhead and gas. *)
RefBook(levels, side, q) == RefCost(levels, side, q) * With(FeeNum, side) * PriceDen * Scale
RefSwap(walk, side, q) ==
  LET cost == RefCost(walk, side, q) * With(FeeNum, side) * With(Overhead, side) * PriceDen * Scale
      gas  == Gas * Scale * FeeDen * FeeDen
  IN  IF side = "buy" THEN cost + gas ELSE Largest(0, cost - gas)

(* A buy that costs at least the reference, a sell that pays at most it,   *)
(* up to `rounding', half a unit.                                          *)
NotBetter(side, cost, reference, rounding) ==
  LET gain == IF side = "buy" THEN reference - cost ELSE cost - reference
  IN  2 * gain <= rounding

FromBook == job.source.kind = "book" /\ job.curve # <<>>

(* Rounding to ticks, lots and the price scale and the fee never make a    *)
(* curve better than the book it comes from: at each knot a buy costs at   *)
(* least, a sell pays at most what the raw levels would, up to half a unit *)
(* of the price scale, until a layer smooths the curve.  A pool's curve is *)
(* never better than the swap along its ranges, whatever its slippage.     *)
Unsmoothed == job.curve # <<>> /\ (job.level = "L1" \/ job.pc = "convex")

NeverBetterThanBook ==
  Unsmoothed =>
    \A k \in 2..Len(job.curve) :
      LET c == job.curve[k] IN
        /\ job.source.kind = "book" =>
             NotBetter(job.side, c.s * FeeDen, RefBook(job.source.levels, job.side, c.q),
                       FeeDen * Scale * c.q)
        /\ job.source.kind = "pool" =>
             NotBetter(job.side, c.s * FeeDen * FeeDen, RefSwap(job.book, job.side, c.q),
                       FeeDen * FeeDen)

(* Pooling adjacent violators gives the greatest convex curve below the    *)
(* cost, also when gas has made the first step of a pool's curve the       *)
(* steepest: every knot lies on the lowest chord of the base curve.        *)
ConvexIsMinorant ==
  job.pc = "moreau" =>
    LET base == BaseCurve(job.book, job.side, job.source.kind)
        y == Mirrored(base, Costs(base), job.side)
        z == Mirrored(base, Costs(job.curve), job.side)
        Chord(i, j, k) == IF i = j THEN y[i]
                          ELSE y[i] + Div((y[j] - y[i]) * (base[k].q - base[i].q), base[j].q - base[i].q)
    IN  \A k \in DOMAIN base :
          z[k] = Min({Chord(i, j, k) : i \in 1..k, j \in k..Len(base)})

(* The dual of a buy curve of a book loses nothing: its prices and values  *)
(* give back the cost of every knot, and a higher price never asks for     *)
(* less.                                                                   *)
DualRecoversCost ==
  (FromBook /\ job.side = "buy" /\ job.level = "L1" /\ job.pc \in {"synthetic", "done"}) =>
    /\ \A k \in 2..Len(job.curve) :
         job.curve[k].s = Max({price * job.curve[k].q - job.dual[price].value :
                               price \in DOMAIN job.dual})
    /\ \A p, r \in DOMAIN job.dual : p < r => job.dual[p].qty <= job.dual[r].qty

(* Impact only ever makes a curve worse for the taker, up to the rounding  *)
(* of the marginal price.                                                  *)
ImpactWorsens ==
  [][(job.pc = "impact" /\ job'.pc = "dual") =>
       \A k \in DOMAIN job.curve :
         LET rounding == Scale * job.curve[k].q IN
           IF job.side = "buy" THEN 2 * (job.curve[k].s - job'.curve[k].s) <= rounding
           ELSE 2 * (job'.curve[k].s - job.curve[k].s) <= rounding]_curveVars

(* A synthetic order offers the whole side, whatever layers were applied   *)
(* (of a pool what slippage leaves a price of), and an L1 order of a book  *)
(* takes no price the raw book does not give before fees.                  *)
SyntheticWithinBook ==
  job.pc = "done" =>
    /\ LET levels == IF job.source.kind = "pool" THEN ApplyExecutionCorrections(job.book, job.side)
                     ELSE job.book
       IN  synthetic.q_max = MapThenSumSet(LAMBDA k : levels[k].q, DOMAIN levels)
    /\ (FromBook /\ job.level = "L1") =>
         LET raw == {job.source.levels[i].p * PriceDen : i \in DOMAIN job.source.levels}
         IN  IF job.side = "buy" THEN synthetic.p_l >= Min(raw) ELSE synthetic.p_h <= Max(raw)
=============================================================================

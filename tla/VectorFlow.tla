----------------------------- MODULE VectorFlow -----------------------------
(***************************************************************************)
(* Vector clearing of external liquidity (F-05A), a pipeline of three      *)
(* consumers.  market_data cuts a venue's curve into segments, publishes   *)
(* them on marketdata.vectorized and stores them; matching clears the      *)
(* segments against each other, publishes the outcome and, with            *)
(* F05A_MONEY_ENABLED, sends one execution intent per executed segment;    *)
(* market_data stores the outcome.  Both tables are ReplacingMergeTree,    *)
(* every message may be redelivered and every insert may fail.             *)
(*                                                                         *)
(* A curve is a pair of grids <<cumulative quantity, price>>; price 0      *)
(* stands for a price that is not a positive number.  OSQP is external:    *)
(* it answers with any point of the box, finished or not, or with an       *)
(* error.  The fees and buffers of an effective price are zero for levels  *)
(* cut from a curve.                                                       *)
(***************************************************************************)
EXTENDS Integers, FiniteSets, Sequences, FiniteSetsExt

CONSTANTS
  Quantity,        \* cumulative quantities of a grid
  Price,           \* prices of a grid, 0 for an unusable one
  MaxPoints,       \* points of one grid
  MoneyEnabled,    \* F05A_MONEY_ENABLED
  MaxDeliveries    \* deliveries of a message, the first included

VARIABLES
  curve,           \* [bid, ask]: the curve of the snapshot
  delivered,       \* deliveries of curve, segments and outcome
  vectorized,      \* marketdata.vectorized: the segments, or none
  clearing,        \* matching.vector_clearing: the outcomes published
  sentIntents,     \* intents sent, each with the solve it came from
  segmentRows,     \* vector_flow_segments
  clearingRows,    \* vector_clearing_results
  vfFailed         \* inserts that failed

vfVars == <<curve, delivered, vectorized, clearing, sentIntents, segmentRows, clearingRows, vfFailed>>

Sides == {"bid", "ask"}
Points == [q : Quantity, p : Price]
Rising(g) == \A i, j \in DOMAIN g : i < j => g[i].q < g[j].q
Grids == {g \in UNION {[1..n -> Points] : n \in 0..MaxPoints} : Rising(g)}

VfInit ==
  /\ curve \in [Sides -> Grids]
  /\ delivered = [curve |-> 0, segments |-> 0, outcome |-> 0]
  /\ vectorized = {} /\ clearing = {} /\ sentIntents = {}
  /\ segmentRows = {} /\ clearingRows = {} /\ vfFailed = {}
---------------------------------------------------------------------------
(* The curve becomes levels and the levels segments.                       *)

PrevQ(g, k) == IF k = 1 THEN 0 ELSE g[k - 1].q
Usable(g, k) == g[k].q > PrevQ(g, k) /\ g[k].p > 0

AppendSide(side, g) ==
  {[side |-> side, k |-> k, price |-> g[k].p, qty |-> g[k].q - PrevQ(g, k)] :
     k \in {i \in DOMAIN g : Usable(g, i)}}

LevelsFromCurve == AppendSide("bid", curve["bid"]) \cup AppendSide("ask", curve["ask"])

SegmentId(level) == <<level.side, level.k>>
FlowOf(level) == IF level.side = "bid" THEN [base |-> 1, quote |-> -level.price]
                                       ELSE [base |-> -1, quote |-> level.price]
VectorizeLevels ==
  {[id |-> SegmentId(l), side |-> l.side, w |-> FlowOf(l), price |-> l.price, qMax |-> l.qty] :
     l \in LevelsFromCurve}
---------------------------------------------------------------------------
(* Storage: a ReplacingMergeTree keeps the newest row of a key.            *)

Now == delivered.curve + delivered.segments + delivered.outcome
SegmentKey(row) == row.segment.id
ClearingKey(row) == "batch"

RowKey(row) == IF "segment" \in DOMAIN row THEN SegmentKey(row) ELSE ClearingKey(row)

Newest(table) == {r \in table : \A s \in table : RowKey(s) = RowKey(r) => s.at <= r.at}

SaveSegments(segments) ==
  \/ segmentRows' = segmentRows \cup {[segment |-> s, at |-> 0] : s \in segments} /\ UNCHANGED vfFailed
  \/ vfFailed' = vfFailed \cup {"segments"} /\ UNCHANGED segmentRows

PublishVectorized(segments) == vectorized' = segments \/ UNCHANGED vectorized

OnLiquidityCurve ==
  /\ delivered.curve < MaxDeliveries
  /\ delivered' = [delivered EXCEPT !.curve = @ + 1]
  /\ LET segments == VectorizeLevels
     IN  IF segments = {} THEN UNCHANGED <<vectorized, segmentRows, vfFailed>>
         ELSE PublishVectorized(segments) /\ SaveSegments(segments)
  /\ UNCHANGED <<curve, clearing, sentIntents, clearingRows>>
---------------------------------------------------------------------------
(* matching: one solve.                                                    *)

Box(segments) == {x \in [segments -> 0..Max({0} \cup {s.qMax : s \in segments})] :
                    \A s \in segments : x[s] <= s.qMax}
Backend(segments) ==
  [status : {"solved", "max_iter"}, x : Box(segments)] \cup [status : {"error"}, x : {<<>>}]

Total(x, asset) == FoldSet(LAMBDA s, sum : sum + s.w[asset] * x[s], 0, DOMAIN x)
Residual(x) == {<<a, Total(x, a)>> : a \in {"base", "quote"}}
Balanced(x) == \A r \in Residual(x) : r[2] = 0

SolveStatus(answer) ==
  CASE answer.status = "error" -> "failed"
    [] answer.status = "solved" /\ Balanced(answer.x) -> "converged"
    [] OTHER -> "degraded"

(* Mutant: only the base has to balance. *)
DecideSurplusByBase(answer) ==
  IF answer.status = "error" \/ Total(answer.x, "base") = 0 THEN "proceed" ELSE "reject"

(* A failed solve has no residual, and its norm is the initial zero.       *)
DecideSurplus(answer) ==
  IF answer.status = "error" \/ Balanced(answer.x) THEN "proceed" ELSE "reject"

BuildHedgeIntents(answer) ==
  {[id |-> s.id, side |-> IF s.side = "bid" THEN "sell" ELSE "buy", qty |-> answer.x[s],
    price |-> s.price] : s \in {z \in DOMAIN answer.x : answer.x[z] > 0}}

Clear(answer) == [status |-> SolveStatus(answer), action |-> DecideSurplus(answer)]
ToVectorClearingResult(outcome) ==
  [status |-> outcome.status,
   policy |-> IF outcome.action = "reject" THEN "reject_if_residual" ELSE "unspecified"]

OnVectorizedLiquidity ==
  /\ vectorized # {} /\ delivered.segments < MaxDeliveries
  /\ delivered' = [delivered EXCEPT !.segments = @ + 1]
  /\ \E answer \in Backend(vectorized) :
       LET outcome == Clear(answer)
           intents == BuildHedgeIntents(answer)
       IN  /\ clearing' = clearing \cup {ToVectorClearingResult(outcome)} \/ UNCHANGED clearing
           /\ sentIntents' =
                IF outcome.action = "proceed" /\ MoneyEnabled /\ intents # {}
                THEN sentIntents \cup {[solve |-> delivered.segments, status |-> outcome.status,
                                        intents |-> intents]}
                ELSE sentIntents
  /\ UNCHANGED <<curve, vectorized, segmentRows, clearingRows, vfFailed>>

OnVectorClearingResult ==
  /\ delivered.outcome < MaxDeliveries
  /\ delivered' = [delivered EXCEPT !.outcome = @ + 1]
  /\ \E outcome \in clearing :
       \/ /\ clearingRows' = clearingRows \cup {[outcome |-> outcome, at |-> Now]}
          /\ UNCHANGED vfFailed
       \/ vfFailed' = vfFailed \cup {"clearing"} /\ UNCHANGED clearingRows
  /\ UNCHANGED <<curve, vectorized, clearing, sentIntents, segmentRows>>

MergeRows ==
  /\ segmentRows' = Newest(segmentRows)
  /\ clearingRows' = Newest(clearingRows)
  /\ <<segmentRows, clearingRows>>' # <<segmentRows, clearingRows>>
  /\ UNCHANGED <<curve, delivered, vectorized, clearing, sentIntents, vfFailed>>

VfNext == OnLiquidityCurve \/ OnVectorizedLiquidity \/ OnVectorClearingResult \/ MergeRows
VfSpec == VfInit /\ [][VfNext]_vfVars
---------------------------------------------------------------------------
(* Types of the pipeline's state. *)
VfTypeOK ==
  /\ curve \in [Sides -> Grids]
  /\ delivered \in [{"curve", "segments", "outcome"} -> 0..MaxDeliveries]
  /\ \A s \in vectorized : s.side \in Sides /\ s.qMax \in Nat \ {0} /\ s.price \in Price \ {0}
  /\ \A c \in clearing : c.status \in {"converged", "degraded", "failed"}
                      /\ c.policy \in {"reject_if_residual", "unspecified"}
  /\ vfFailed \subseteq {"segments", "clearing"}

(* The intents of one solve are orders against the venue that cancel out: *)
(* what they sell of the base they buy, and what they receive of the      *)
(* quote they pay (surplus_policy.hpp: nothing unbalanced is executed).   *)
Bought(i) == IF i.side = "buy" THEN i.qty ELSE -i.qty
HedgesBalance ==
  \A sent \in sentIntents :
     /\ FoldSet(LAMBDA i, sum : sum + Bought(i), 0, sent.intents) = 0
     /\ FoldSet(LAMBDA i, sum : sum + i.price * Bought(i), 0, sent.intents) = 0

(* A segment offers only what its grid point adds: up to any point, the   *)
(* segments of a side that are at least as good hold no more than the     *)
(* cumulative quantity less what unusable points took away.               *)
Unusable(g, k) == FoldSet(LAMBDA i, sum : sum + IF g[i].p > 0 THEN 0 ELSE g[i].q - PrevQ(g, i), 0, 1..k)
DepthOfTheCurve ==
  \A side \in Sides : \A k \in DOMAIN curve[side] :
     LET upTo == {s \in vectorized : s.side = side /\ s.id[2] <= k}
     IN  FoldSet(LAMBDA s, sum : sum + s.qMax, 0, upTo)
            <= curve[side][k].q - Unusable(curve[side], k)

(* Redelivery does not multiply rows: merged, the tables hold one row for *)
(* a segment and one for the outcome of the batch, the newest.            *)
MergedOnce ==
  /\ Cardinality(Newest(clearingRows)) <= 1
  /\ \A r, s \in Newest(segmentRows) : r.segment.id = s.segment.id => r = s
=============================================================================

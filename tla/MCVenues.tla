------------------------------ MODULE MCVenues ------------------------------
(* The venues service around its execution path: the market data adapter   *)
(* of a CEX and the topics it feeds with two failures (feed) and with one  *)
(* and no order (mend), the curves built on its books (curves), and the    *)
(* adapter of a DEX (dex).  `part' says which of them runs; the others     *)
(* stay in their initial state, so the state spaces add up.                *)
EXTENDS VenueFeed

VARIABLES
  part,
  job, impact_history, synthetic,
  config, chain, dex, pool, snap, mdpc, send, dexFaults

curvesPart == <<job, impact_history, synthetic>>
dexPart == <<config, chain, dex, pool, snap, mdpc, send, dexFaults>>
vars == <<part, feedVars, curvesPart, dexPart>>

-----------------------------------------------------------------------------
(* Three books: the best bid goes, then a better ask comes.  A snapshot    *)
(* holds one level, so the first diff leaves a local book without bids.    *)
BookLevels(pairs) == [p \in 1..4 |-> IF \E x \in pairs : x[1] = p
                                     THEN (CHOOSE x \in pairs : x[1] = p)[2] ELSE 0]
VenueBook(b, a) == [bids |-> BookLevels(b), asks |-> BookLevels(a)]

MCBooks == <<VenueBook({<<1, 1>>, <<2, 1>>}, {<<4, 1>>}), VenueBook({<<1, 1>>}, {<<4, 1>>}),
             VenueBook({<<1, 1>>}, {<<3, 1>>, <<4, 1>>})>>

(* Books of one and two levels in any order, a deeper one, one out of      *)
(* order; pools between, at and outside their ticks; a pool without ticks. *)
Level(p, q) == [p |-> p, q |-> q]
SomeLevels == [p : {3, 4, 6}, q : {1, 2, 3}]
Net(t, n) == [t |-> t, net |-> n]

Curve == INSTANCE LiquidityCurves WITH
  RawBooks <- UNION {[1..n -> SomeLevels] : n \in 1..2}
              \cup {<<Level(3, 2), Level(5, 3), Level(8, 2)>>,
                    <<Level(9, 2), Level(5, 2), Level(6, 3), Level(7, 2)>>},
  Pools <- [tick : 2..4, liquidity : {12, 24},
            ticks : {<<Net(1, 12), Net(3, 12), Net(5, -24)>>,
                     <<Net(1, 24), Net(2, -12), Net(4, -12), Net(5, 0)>>}],
  Mids <- {10}, Reserves <- {0, 9}, Depth <- 3, Tick <- 2, Lot <- 2, MinQty <- 1,
  FeeNum <- 1, FeeDen <- 5, Overhead <- 1, Slippage <- 8, PriceDen <- 1, Scale <- 12, Gas <- 15,
  Mu <- 2,
  Samples <- {[qty |-> 1, impact |-> 2], [qty |-> 3, impact |-> 1]},
  ImpactDen <- 10, MaxImpact <- 5, FullWeight <- 2, MaxHistory <- 2

(* The Uniswap adapter of the multi-venue set-up, and the one of the       *)
(* dex_amm_rpc set-up in its default sync mode.                            *)
Dex == INSTANCE DexAdapter WITH
  Hashes <- <<1, 2>>,
  DexConfigs <- {[mode |-> "polling", source |-> "screener", simulate |-> TRUE],
                 [mode |-> "hybrid", source |-> "rpc", simulate |-> FALSE]},
  MaxSwapEvents <- 1, DexErrors <- 2, DexTries <- 1, MaxSeq <- 2, MaxSends <- 1, MaxDexFaults <- 1

ASSUME VenuesAssumption == Dex!DexAssumption

-----------------------------------------------------------------------------
(* A part with several initial states takes one of them while another runs. *)
Init ==
  /\ part \in {"feed", "mend", "curves", "dex"}
  /\ FeedInit
  /\ Curve!CurveInit /\ (part # "curves" => job = CHOOSE j \in Curve!Jobs : TRUE)
  /\ Dex!DexInit /\ (part # "dex" => config.mode = "polling")

(* In `dex' either an order or a second block comes.                       *)
Next ==
  \/ part = "feed" /\ FeedNext /\ UNCHANGED <<part, curvesPart, dexPart>>
  \/ part = "mend" /\ FeedNext /\ faults' <= 1 /\ order'.n = 0
     /\ UNCHANGED <<part, curvesPart, dexPart>>
  \/ part = "curves" /\ Curve!CurveNext /\ UNCHANGED <<part, feedVars, dexPart>>
  \/ part = "dex" /\ Dex!DexNext /\ (send'.n = 0 \/ chain' = 1)
     /\ UNCHANGED <<part, feedVars, curvesPart>>

(* The market data threads run; cooldowns and back-offs end.               *)
Fairness ==
  /\ WF_feedVars(part = "mend" /\ MdStep /\ faults' <= 1)
  /\ WF_feedVars(part = "mend" /\ CoolDown)
  /\ WF_feedVars(part = "mend" /\ BackoffOver)
  /\ WF_dexPart(part = "dex" /\ Dex!MdThread)
  /\ SF_dexPart(part = "dex" /\ Dex!CooldownEnds)

Spec == Init /\ [][Next]_vars /\ Fairness
-----------------------------------------------------------------------------
(* Curves: rounding to ticks, lots and the price scale and the fee never   *)
(* make one better than its book, nor slippage, overhead and gas one       *)
(* better than the swap along the pool; pooling adjacent violators gives   *)
(* the greatest convex curve below the cost; the dual of a curve loses     *)
(* nothing; a synthetic order offers the whole side at no price the book   *)
(* does not give; and learnt impact only ever makes a curve worse for the  *)
(* taker.                                                                  *)
CurveSafety ==
  /\ [](part = "curves" => /\ Curve!CurveTypeOK
                           /\ Curve!NeverBetterThanBook
                           /\ Curve!ConvexIsMinorant
                           /\ Curve!DualRecoversCost
                           /\ Curve!SyntheticWithinBook)
  /\ Curve!ImpactWorsens

(* The DEX adapter keeps its types; the volume of the last day counts a    *)
(* swap with a hash once, whether polls and messages bring it twice, late, *)
(* or after the list of recent swaps dropped it; a pool state that changes *)
(* the price gets a larger sequence, an equal one being dropped by the     *)
(* snapshot producer; and a snapshot handed out as connected was taken of  *)
(* a cache younger than the threshold, by a connected adapter.             *)
DexSafety ==
  /\ [](part = "dex" => Dex!DexTypeOK /\ Dex!VolumeCountsOnce)
  /\ Dex!NewStateNewSequence
  /\ Dex!ConnectedIsFresh

(* Once the venue is quiet its last book reaches the topic, unless the     *)
(* publication failed or the venue is switched off; an open circuit closes *)
(* again once calls succeed; the DEX adapter comes back after failures.    *)
FeedProgress ==
  /\ part = "mend" => LastBookPublished /\ CircuitRecovers
  /\ part = "dex" => Dex!ComesBack
=============================================================================

----------------------------- MODULE MarketData -----------------------------
(***************************************************************************)
(* The market_data service.  One consumer thread reads all Kafka topics    *)
(* and runs a handler to its end before it reads the next message; the     *)
(* stale sweeper marks old snapshots; every gRPC stream is a thread.  mu_  *)
(* guards the snapshot cache, the hub has a mutex of its own.              *)
(*                                                                         *)
(* A snapshot is its number, its source and its stale mark; mdOld holds    *)
(* the numbers of those older than stale_threshold_sec.  An order book is  *)
(* one level a side.  Offsets are committed in the background, handlers    *)
(* fail without a retry: a message is handled once.                        *)
(***************************************************************************)
EXTENDS Integers, Sequences, FiniteSets, SequencesExt, FiniteSetsExt

CONSTANTS
  Assets, MdVenues, MdOrders,
  Streams,          \* gRPC streams of SubscribeMarketData
  Capacity,         \* capacity of OrderBookChannel
  Quotes,           \* venue snapshots: status allows aggregation, bid and ask quantity
  Curves,           \* liquidity curves: bid and ask side, points <<q_grid, p_of_q>>
  FillQty,          \* quantities of the fill of a batch, 0 for no fill
  MaxMessages       \* bound on market messages handled

(* The grid of a curve side is the sum of its levels so far.               *)
Cumulative(points) == \A i, j \in DOMAIN points : i <= j => points[i][1] <= points[j][1]

(* What the constants satisfy; the instances that are checked assert it.   *)
MdAssumption ==
  /\ Capacity \in Nat \ {0} /\ FillQty \subseteq Nat /\ MaxMessages \in Nat
  /\ Quotes \subseteq [ok : BOOLEAN, bid : Nat, ask : Nat]
  /\ Curves \subseteq [{"bid", "ask"} -> Seq(Nat \X Nat)]
  /\ \A curve \in Curves, side \in {"bid", "ask"} : Cumulative(curve[side])
  /\ IsFiniteSet(Assets) /\ Assets # {} /\ IsFiniteSet(MdVenues)

VARIABLES
  mdLast,           \* last_snapshot_ of each asset
  mdOld,            \* numbers of snapshots older than the threshold
  mdJob,            \* the consumer thread
  mdSweep,          \* the sweeper thread
  mdMu,             \* who holds mu_ between two steps
  mdDue,            \* assets whose last ClickHouse write is 15 s old
  streams, view,    \* SubscribeMarketData: where it is, what the client saw last
  fob, orders,      \* FlowOrderBook; the orders as matching knows them
  latest, book,     \* UpdateOrderBookUseCase: venue snapshots, book_
  bbo,              \* last_published_bbo_ and the book it was sent for
  channel,          \* OrderBookChannel: queue, number published, newest received
  rows,             \* ClickHouse: batches handled, stored or refused, fills, spreads,
                    \* kinds of message that reached only some of their tables
  segments,         \* the last curve and its vectorized segments
  mdCount           \* messages handled

cacheVars  == <<mdLast, mdOld, mdMu, mdDue>>
streamVars == <<streams, view>>
orderVars  == <<fob, orders>>
bookVars   == <<latest, book, bbo>>
mdVars == <<cacheVars, mdJob, mdSweep, streamVars, orderVars, bookVars, channel, rows, segments, mdCount>>

NoSnapshot == [n |-> 0, src |-> "none", stale |-> TRUE]
NoBook == [sym |-> "none", bid |-> 0, ask |-> 0]
JobIdle == [at |-> "idle", next |-> "idle", asset |-> "none", on |-> "none", snap |-> NoSnapshot,
           batch |-> 0, fill |-> 0, left |-> {}, to |-> {}]

MdInit ==
  /\ mdLast = [a \in Assets |-> NoSnapshot] /\ mdOld = {} /\ mdMu = "free" /\ mdDue = Assets
  /\ mdJob = JobIdle /\ mdSweep = [asset |-> "none", snap |-> NoSnapshot, to |-> {}]
  /\ streams = [s \in Streams |-> "off"] /\ view = [s \in Streams |-> NoSnapshot]
  /\ fob = {} /\ orders = [o \in MdOrders |-> "new"]
  /\ latest = [v \in MdVenues |-> [a \in Assets |-> [ok |-> FALSE, bid |-> 0, ask |-> 0]]]
  /\ book = NoBook /\ bbo = NoBook
  /\ channel = [queue |-> <<>>, sent |-> 0, got |-> 0]
  /\ rows = [seen |-> {}, batches |-> {}, refused |-> {}, fills |-> {}, spreads |-> 0, split |-> {}]
  /\ segments = [curve |-> [side \in {"bid", "ask"} |-> <<>>], out |-> {}]
  /\ mdCount = 0

Message == mdJob.at = "idle" /\ mdCount < MaxMessages /\ mdCount' = mdCount + 1
Goes(at) == mdJob' = [mdJob EXCEPT !.at = at]
-----------------------------------------------------------------------------
(* The hub: Broadcast copies the callbacks under its mutex and calls them  *)
(* one by one after it released it.                                        *)
Watched == CHOOSE a \in Assets : TRUE
Subscribed(a) == {s \in Streams : a = Watched /\ streams[s] = "on"}

Writes(s, snapshot) == view' = [view EXCEPT ![s] = snapshot]

(* SubscribeMarketData: the current snapshot first, then the subscription; *)
(* the client cancels; the handler unsubscribes and returns.  Every stream *)
(* asks for the one asset that is being watched.                           *)
StreamReads(s) ==
  /\ streams[s] = "off" /\ mdMu = "free"
  /\ streams' = [streams EXCEPT ![s] = "read"]
  /\ Writes(s, mdLast[Watched])
  /\ UNCHANGED <<cacheVars, mdJob, mdSweep, orderVars, bookVars, channel, rows, segments, mdCount>>
StreamSubscribes(s) ==
  /\ streams[s] = "read"
  /\ streams' = [streams EXCEPT ![s] = "on"]
  /\ UNCHANGED <<cacheVars, mdJob, mdSweep, view, orderVars, bookVars, channel, rows, segments, mdCount>>
StreamReturns(s) ==
  /\ streams[s] = "on"
  /\ streams' = [streams EXCEPT ![s] = "done"]
  /\ UNCHANGED <<cacheVars, mdJob, mdSweep, view, orderVars, bookVars, channel, rows, segments, mdCount>>
-----------------------------------------------------------------------------
(* The stale sweeper.  It holds mu_ while it walks the cache, the calls of *)
(* the hub included.                                                       *)
MarkStale(a) ==
  /\ mdMu = "free" /\ mdLast[a].n \in mdOld /\ ~mdLast[a].stale
  /\ mdLast' = [mdLast EXCEPT ![a].stale = TRUE]
  /\ mdSweep' = [asset |-> a, snap |-> mdLast'[a], to |-> Subscribed(a)]
  /\ mdMu' = "sweeper"
  /\ UNCHANGED <<mdOld, mdDue, mdJob, streamVars, orderVars, bookVars, channel, rows, segments, mdCount>>

SweeperCalls ==
  /\ mdSweep.to # {}
  /\ \E s \in mdSweep.to :
       /\ Writes(s, mdSweep.snap)
       /\ mdSweep' = [mdSweep EXCEPT !.to = @ \ {s}]
  /\ UNCHANGED <<cacheVars, mdJob, streams, orderVars, bookVars, channel, rows, segments, mdCount>>

SweeperUnlocks ==
  /\ mdMu = "sweeper" /\ mdSweep.to = {}
  /\ mdMu' = "free"
  /\ UNCHANGED <<mdLast, mdOld, mdDue, mdJob, mdSweep, streamVars, orderVars, bookVars, channel, rows, segments, mdCount>>

Sweeper == (\E a \in Assets : MarkStale(a)) \/ SweeperCalls \/ SweeperUnlocks

(* Time: a snapshot passes stale_threshold_sec, 15 s pass.                 *)
Ages ==
  /\ \E n \in ({mdLast[a].n : a \in Assets} \cup {mdJob.snap.n}) \ ({0} \cup mdOld) : mdOld' = mdOld \cup {n}
  /\ UNCHANGED <<mdLast, mdMu, mdDue, mdJob, mdSweep, streamVars, orderVars, bookVars, channel, rows, segments, mdCount>>
PersistDue ==
  /\ mdDue # Assets /\ mdDue' = Assets
  /\ UNCHANGED <<mdLast, mdMu, mdOld, mdJob, mdSweep, streamVars, orderVars, bookVars, channel, rows, segments, mdCount>>
-----------------------------------------------------------------------------
(* Orders: creates and cancels reach the FlowOrderBook, fills and expiry   *)
(* do not.                                                                 *)
OnOrderCreate(o) ==
  /\ mdJob.at = "idle" /\ orders[o] = "new"
  /\ orders' = [orders EXCEPT ![o] = "active"] /\ fob' = fob \cup {o}
  /\ UNCHANGED <<cacheVars, mdJob, mdSweep, streamVars, bookVars, channel, rows, segments, mdCount>>
OnOrderCancel(o) ==
  /\ mdJob.at = "idle" /\ orders[o] = "active"
  /\ orders' = [orders EXCEPT ![o] = "gone"] /\ fob' = fob \ {o}
  /\ UNCHANGED <<cacheVars, mdJob, mdSweep, streamVars, bookVars, channel, rows, segments, mdCount>>
OrderFilled(o) ==
  /\ orders[o] = "active"
  /\ orders' = [orders EXCEPT ![o] = "gone"]
  /\ UNCHANGED <<cacheVars, mdJob, mdSweep, streamVars, fob, bookVars, channel, rows, segments, mdCount>>

OnFillEvent(a) ==
  /\ Message /\ mdMu = "free"
  /\ \E saved \in BOOLEAN :
       rows' = [rows EXCEPT !.spreads = IF mdLast[a] # NoSnapshot /\ saved THEN @ + 1 ELSE @]
  /\ UNCHANGED <<cacheVars, mdJob, mdSweep, streamVars, orderVars, bookVars, channel, segments>>
-----------------------------------------------------------------------------
(* The order book.  A fill larger than its level throws out of the         *)
(* handler, and so does a fill whose fee is not in the base asset or whose *)
(* ids are no UUIDs; the consumer logs it and reads the next message.      *)
Aggregatable(snapshot) == snapshot.ok /\ snapshot.bid > 0 /\ snapshot.ask > 0
Aggregated(a, snapshots) ==
  LET usable == {v \in MdVenues : Aggregatable(snapshots[v][a])} IN
  [sym |-> a, bid |-> MapThenSumSet(LAMBDA v : snapshots[v][a].bid, usable),
   ask |-> MapThenSumSet(LAMBDA v : snapshots[v][a].ask, usable)]
Rebuild(a, snapshots) ==
  LET aggregate == Aggregated(a, snapshots) IN IF aggregate.bid = 0 THEN book ELSE aggregate
Exceeds(a, qty) == book.sym = a /\ book.ask > 0 /\ qty > book.ask
Updated(a, qty) == IF book.sym # a \/ book.ask = 0 THEN book ELSE [book EXCEPT !.ask = @ - qty]

(* PublishBBOIfChanged compares numbers only, whatever the symbol.         *)
SameBBO(b, c) == b.bid = c.bid /\ b.ask = c.ask /\ b # NoBook
PublishBBOIfChanged == bbo' = IF SameBBO(bbo, book) THEN bbo ELSE book

(* OrderBookChannel::Publish drops the oldest book of a full queue; a      *)
(* stream may take one in between.  OnMarketDataRaw holds mu_ meanwhile.   *)
Room == Len(channel.queue) < Capacity
Pushed(n) == [channel EXCEPT !.queue = IF Room THEN Append(@, n) ELSE @, !.sent = n]
NothingDropped(q) == q
Oldest(q) == IF q = <<>> THEN q ELSE Tail(q)
Publish ==
  /\ mdJob.at = "publish"
  /\ channel' = Pushed(channel.sent + 1)
  /\ Goes(IF Room THEN "bbo" ELSE "drop")
  /\ UNCHANGED <<cacheVars, mdSweep, streamVars, orderVars, bookVars, rows, segments, mdCount>>
PublishDrops ==
  /\ mdJob.at = "drop"
  /\ channel' = [channel EXCEPT !.queue = Oldest(@)]
  /\ Goes("repush")
  /\ UNCHANGED <<cacheVars, mdSweep, streamVars, orderVars, bookVars, rows, segments, mdCount>>
PublishAgain ==
  /\ mdJob.at = "repush"
  /\ channel' = Pushed(channel.sent)
  /\ Goes("bbo")
  /\ UNCHANGED <<cacheVars, mdSweep, streamVars, orderVars, bookVars, rows, segments, mdCount>>
PublishBBO ==
  /\ mdJob.at = "bbo"
  /\ PublishBBOIfChanged
  /\ mdMu' = IF mdMu = "consumer" THEN "free" ELSE mdMu
  /\ Goes(mdJob.next)
  /\ UNCHANGED <<mdLast, mdOld, mdDue, mdSweep, streamVars, orderVars, latest, book, channel, rows, segments, mdCount>>
(* GetLiveMarketSnapshots: all streams share the one queue.                *)
GetLiveMarketSnapshots ==
  /\ channel.queue # <<>>
  /\ channel' = [channel EXCEPT !.queue = Tail(@), !.got = Head(channel.queue)]
  /\ UNCHANGED <<cacheVars, mdJob, mdSweep, streamVars, orderVars, bookVars, rows, segments, mdCount>>

OnMarketDataRaw(a) ==
  /\ Message /\ mdMu = "free"
  /\ \E quote \in Quotes : book' = [sym |-> a, bid |-> quote.bid, ask |-> quote.ask]
  /\ mdMu' = "consumer"
  /\ mdJob' = [JobIdle EXCEPT !.at = "publish"]
  /\ UNCHANGED <<mdLast, mdOld, mdDue, mdSweep, streamVars, orderVars, latest, bbo, channel, rows, segments>>

(* OnVenueSnapshot: the aggregated book is published also when no venue    *)
(* is left to build it from; then the composite snapshot of the asset.     *)
OnVenueSnapshot(v, a) ==
  /\ Message
  /\ \E quote \in Quotes : latest' = [latest EXCEPT ![v][a] = quote]
  /\ book' = Rebuild(a, latest')
  /\ mdJob' = [JobIdle EXCEPT !.at = IF book' = NoBook THEN "venue" ELSE "publish", !.next = "venue",
                           !.on = a, !.snap = [n |-> mdCount', src |-> "venue", stale |-> FALSE]]
  /\ UNCHANGED <<cacheVars, mdSweep, streamVars, orderVars, bbo, channel, rows, segments>>

HasFreshInternal(a) == mdLast[a].src = "internal" /\ ~mdLast[a].stale
FromVenueSnapshot ==
  /\ mdJob.at = "venue" /\ mdMu = "free"
  /\ \/ mdJob' = JobIdle
     \/ ~HasFreshInternal(mdJob.on) /\ mdJob' = [mdJob EXCEPT !.at = "config", !.next = "idle"]
  /\ UNCHANGED <<cacheVars, mdSweep, streamVars, orderVars, bookVars, channel, rows, segments, mdCount>>

(* OnBatchResult: a snapshot of every asset with a clear price, the book,  *)
(* then the two inserts, each of which may fail.                           *)
OnBatchResult ==
  /\ Message /\ mdMu = "free"
  /\ \E cleared \in SUBSET Assets, a \in Assets, fill \in FillQty :
       mdJob' = [JobIdle EXCEPT !.at = "batch", !.asset = a, !.fill = fill, !.left = cleared,
                             !.batch = mdCount']
  /\ rows' = [rows EXCEPT !.seen = @ \cup {mdCount'}]
  /\ UNCHANGED <<cacheVars, mdSweep, streamVars, orderVars, bookVars, channel, segments>>
NextAsset ==
  /\ mdJob.at = "batch" /\ mdJob.left # {}
  /\ \E a \in mdJob.left :
       mdJob' = [mdJob EXCEPT !.at = "config", !.next = "batch", !.left = @ \ {a},
                   !.on = a,
                   !.snap = [n |-> mdJob.batch, src |-> "internal", stale |-> FALSE]]
  /\ UNCHANGED <<cacheVars, mdSweep, streamVars, orderVars, bookVars, channel, rows, segments, mdCount>>
BatchUpdatesBook ==
  /\ mdJob.at = "batch" /\ mdJob.left = {}
  /\ \/ book = NoBook /\ Goes("save") /\ UNCHANGED book
     \/ book # NoBook /\ mdJob.fill > 0 /\ mdJob' = JobIdle /\ UNCHANGED book
     \/ /\ book # NoBook /\ ~Exceeds(mdJob.asset, mdJob.fill)
        /\ book' = Updated(mdJob.asset, mdJob.fill)
        /\ mdJob' = [mdJob EXCEPT !.at = "publish", !.next = "save"]
  /\ UNCHANGED <<cacheVars, mdSweep, streamVars, orderVars, latest, bbo, channel, rows, segments, mdCount>>
SaveBatch ==
  /\ mdJob.at = "save"
  /\ \E b, f \in BOOLEAN :
       rows' = [rows EXCEPT !.batches = IF b THEN @ \cup {mdJob.batch} ELSE @,
                            !.refused = IF b THEN @ ELSE @ \cup {mdJob.batch},
                            !.fills = IF f /\ mdJob.fill > 0 THEN @ \cup {mdJob.batch} ELSE @]
  /\ mdJob' = JobIdle
  /\ UNCHANGED <<cacheVars, mdSweep, streamVars, orderVars, bookVars, channel, segments, mdCount>>
-----------------------------------------------------------------------------
(* Messages that only go to ClickHouse: every table by an insert of its    *)
(* own, a failed one is logged.                                            *)
Tables == [groups    |-> {"events", "metrics", "legs", "deviations"},
           execution |-> {"execution_venue", "execution_reports"},
           clearing  |-> {"vector_clearing"}]
SaveRows(kind) ==
  /\ Message
  /\ \E saved \in SUBSET Tables[kind] :
       rows' = [rows EXCEPT !.split = IF saved \in {{}, Tables[kind]} THEN @ ELSE @ \cup {kind}]
  /\ UNCHANGED <<cacheVars, mdJob, mdSweep, streamVars, orderVars, bookVars, channel, segments>>
OnExecutionGroup == SaveRows("groups")
OnExecutionReport == SaveRows("execution")
OnVectorClearingResult == SaveRows("clearing")

(* OnLiquidityCurve: the cumulative curve becomes one level a grid step    *)
(* (curve_to_levels), every level with a quantity and a price a segment.   *)
StepQty(points, k) == points[k][1] - (IF k = 1 THEN 0 ELSE points[k - 1][1])
LevelsFromCurve(curve) ==
  UNION {{[side |-> side, k |-> k, qty |-> StepQty(curve[side], k), price |-> curve[side][k][2]] :
            k \in {j \in DOMAIN curve[side] : StepQty(curve[side], j) > 0 /\ curve[side][j][2] > 0}} :
         side \in {"bid", "ask"}}
Vectorize(levels) ==
  {[id |-> <<level.side, level.k>>, q |-> level.qty,
    base |-> IF level.side = "bid" THEN 1 ELSE -1,
    quote |-> IF level.side = "bid" THEN -level.price ELSE level.price] : level \in levels}
OnLiquidityCurve ==
  /\ Message
  /\ \E curve \in Curves : segments' = [curve |-> curve, out |-> Vectorize(LevelsFromCurve(curve))]
  /\ UNCHANGED <<cacheVars, mdJob, mdSweep, streamVars, orderVars, bookVars, channel, rows>>
-----------------------------------------------------------------------------
(* ProcessSnapshot.  The read of the configuration and the ClickHouse      *)
(* calls take their time; the cache is written before and after them.      *)
ReadConfig ==
  /\ mdJob.at = "config"
  /\ \E active \in BOOLEAN : Goes(IF active THEN "store" ELSE "paused")
  /\ UNCHANGED <<cacheVars, mdSweep, streamVars, orderVars, bookVars, channel, rows, segments, mdCount>>

StoreSnapshot ==
  /\ mdJob.at = "store" /\ mdMu = "free"
  /\ mdLast' = [mdLast EXCEPT ![mdJob.on] = mdJob.snap]
  /\ \E volume \in BOOLEAN :
       Goes(IF mdJob.on \in mdDue THEN "written" ELSE IF volume THEN "volume" ELSE "send")
  /\ UNCHANGED <<mdOld, mdMu, mdDue, mdSweep, streamVars, orderVars, bookVars, channel, rows, segments, mdCount>>

StoreAgain ==
  /\ mdJob.at \in {"written", "volume"} /\ mdMu = "free"
  /\ mdLast' = [mdLast EXCEPT ![mdJob.on] = mdJob.snap]
  /\ mdDue' = IF mdJob.at = "written" THEN mdDue \ {mdJob.on} ELSE mdDue
  /\ Goes("send")
  /\ UNCHANGED <<mdOld, mdMu, mdSweep, streamVars, orderVars, bookVars, channel, rows, segments, mdCount>>

(* The kill switch: the cache is updated, the subscribers see a pause;     *)
(* mu_ is held over the calls.                                             *)
PauseSnapshot ==
  /\ mdJob.at = "paused" /\ mdMu = "free"
  /\ mdLast' = [mdLast EXCEPT ![mdJob.on] = mdJob.snap]
  /\ mdMu' = "consumer"
  /\ mdJob' = [mdJob EXCEPT !.at = "call", !.snap.stale = TRUE, !.to = Subscribed(mdJob.on)]
  /\ UNCHANGED <<mdOld, mdDue, mdSweep, streamVars, orderVars, bookVars, channel, rows, segments, mdCount>>

Broadcast ==
  /\ mdJob.at = "send"
  /\ mdJob' = [mdJob EXCEPT !.at = "call", !.to = Subscribed(mdJob.on)]
  /\ UNCHANGED <<cacheVars, mdSweep, streamVars, orderVars, bookVars, channel, rows, segments, mdCount>>
BroadcastCalls ==
  /\ mdJob.at = "call" /\ mdJob.to # {}
  /\ \E s \in mdJob.to :
       /\ Writes(s, mdJob.snap)
       /\ mdJob' = [mdJob EXCEPT !.to = @ \ {s}]
  /\ UNCHANGED <<cacheVars, mdSweep, streams, orderVars, bookVars, channel, rows, segments, mdCount>>
SnapshotDone ==
  /\ mdJob.at = "call" /\ mdJob.to = {}
  /\ mdMu' = IF mdMu = "consumer" THEN "free" ELSE mdMu
  /\ mdJob' = IF mdJob.next = "batch" THEN [mdJob EXCEPT !.at = "batch"] ELSE JobIdle
  /\ UNCHANGED <<mdLast, mdOld, mdDue, mdSweep, streamVars, orderVars, bookVars, channel, rows, segments, mdCount>>
-----------------------------------------------------------------------------
Handles ==
  \/ Publish \/ PublishDrops \/ PublishAgain \/ PublishBBO
  \/ FromVenueSnapshot \/ NextAsset \/ BatchUpdatesBook \/ SaveBatch
  \/ ReadConfig \/ StoreSnapshot \/ StoreAgain \/ PauseSnapshot
  \/ Broadcast \/ BroadcastCalls \/ SnapshotDone
Receives ==
  \/ OnBatchResult \/ OnExecutionGroup \/ OnExecutionReport \/ OnVectorClearingResult \/ OnLiquidityCurve
  \/ \E a \in Assets : OnMarketDataRaw(a) \/ OnFillEvent(a) \/ \E v \in MdVenues : OnVenueSnapshot(v, a)
  \/ \E o \in MdOrders : OnOrderCreate(o) \/ OnOrderCancel(o) \/ OrderFilled(o)
MdNext ==
  \/ Handles \/ Receives \/ Sweeper \/ Ages \/ PersistDue \/ GetLiveMarketSnapshots
  \/ \E s \in Streams : StreamReads(s) \/ StreamSubscribes(s) \/ StreamReturns(s)

(* The consumer and the sweeper are loops of their own threads, time       *)
(* passes, and a stream of order books waits on the queue.                 *)
MdFairness == WF_mdVars(Handles) /\ WF_mdVars(Sweeper) /\ WF_mdVars(Ages) /\ WF_mdVars(GetLiveMarketSnapshots)
MdSpec == MdInit /\ [][MdNext]_mdVars /\ MdFairness
-----------------------------------------------------------------------------
Snapshots == [n : 0..MaxMessages, src : {"none", "internal", "venue"}, stale : BOOLEAN]
MdTypeOK ==
  /\ mdLast \in [Assets -> Snapshots] /\ mdOld \subseteq 1..MaxMessages /\ mdDue \subseteq Assets
  /\ mdMu \in {"free", "consumer", "sweeper"}
  /\ mdJob.snap \in Snapshots /\ mdJob.to \subseteq Streams /\ mdSweep.to \subseteq Streams
  /\ streams \in [Streams -> {"off", "read", "on", "done"}] /\ view \in [Streams -> Snapshots]
  /\ book.bid \in Nat /\ book.ask \in Nat
  /\ Len(channel.queue) <= Capacity
  /\ fob \subseteq MdOrders /\ rows.batches \subseteq 1..MaxMessages

(* A full channel loses its oldest books, never the newest: after Publish  *)
(* returns, the book it was given is in the queue or with a stream.        *)
NewestNeverDropped ==
  mdJob.at \notin {"drop", "repush"} =>
    channel.sent = channel.got \/ channel.sent \in ToSet(channel.queue)

(* A stream never sees an older snapshot after a newer one, although the   *)
(* consumer and the sweeper both write to it: the sweeper keeps mu_ over   *)
(* its calls, so a newer snapshot cannot be stored and sent in between.    *)
StreamNeverGoesBack == [][\A s \in Streams : view'[s].n >= view[s].n]_mdVars

(* A quote of a venue never replaces a fresh internal snapshot in the      *)
(* cache, also when the sweeper runs between the check and the writes.     *)
InternalFirst ==
  [][\A a \in Assets : mdLast[a].src = "internal" /\ ~mdLast[a].stale
                        => mdLast'[a].src = "internal"]_mdVars

(* When messages stop, every cached snapshot ends up marked stale, however *)
(* the sweeper and the two writes of ProcessSnapshot interleave.           *)
AllGoStale == <>[](\A a \in Assets : mdLast[a].stale)

(* The segments of a curve offer, side by side, exactly the units of its   *)
(* depth that are quoted with a price: unit x belongs to the first grid    *)
(* point that reaches it, also behind points that were skipped.            *)
Quoted(points) ==
  {x \in 1..(IF points = <<>> THEN 0 ELSE Last(points)[1]) :
     LET k == Min({j \in DOMAIN points : points[j][1] >= x}) IN points[k][2] > 0}
SegmentsCoverCurve ==
  \A side \in {"bid", "ask"} :
    MapThenSumSet(LAMBDA seg : seg.q, {seg \in segments.out : seg.id[1] = side})
      = Cardinality(Quoted(segments.curve[side]))

(* A full channel loses its oldest books, never the newest; the segments   *)
(* of a curve offer exactly the units of its depth that are quoted with a  *)
(* price, also behind points that were skipped; a stream never sees an     *)
(* older snapshot after a newer one, although the consumer and the sweeper *)
(* both write to it; a quote of a venue never replaces a fresh internal    *)
(* snapshot, also when the sweeper runs between the check and the writes.  *)
MdSafety ==
  /\ [](MdTypeOK /\ NewestNeverDropped /\ SegmentsCoverCurve)
  /\ StreamNeverGoesBack
  /\ InternalFirst
=============================================================================

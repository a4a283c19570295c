----------------------------- MODULE VenueFeed -----------------------------
(***************************************************************************)
(* Market data of one centralised venue in the venues service.  The market *)
(* data thread polls the adapter: heartbeat, reconnect, snapshot, publish, *)
(* curve.  Stream callbacks, the execution thread and the operator use the *)
(* same adapter; its fields are guarded by one mutex, which is not held    *)
(* over a REST call.  An action is one critical section or one call.       *)
(*                                                                         *)
(* The venue's books are Books[1], Books[2], ...; the index is the update  *)
(* id.  A side of a book is a function from prices to quantities, 0 for no *)
(* level.  Durations are choices: a cooldown, a back-off or an error       *)
(* window may run out at any moment.                                       *)
(***************************************************************************)
EXTENDS Integers, Sequences, FiniteSets

CONSTANTS
  Books,            \* sequence of [bids, asks]
  BookPrices,       \* prices of a book
  MaxLevels,        \* lob_max_levels, also the depth of a REST answer
  MaxPending,       \* lob_pending_max_events
  CircuitErrors,    \* circuit_breaker_errors
  ReconnectTries,   \* reconnect_max_attempts
  CurveLevel,       \* requested curve level: 0 (off) to 3
  ErrorsOff,        \* degradation.max_consecutive_errors_off
  StaleFallback,    \* degradation.publish_stale_l1_fallback
  MaxOrders,        \* bound on orders
  MaxFaults         \* bound on failed calls, lost messages, operator steps

ASSUME FeedAssumption ==
  /\ BookPrices \subseteq Nat \ {0} /\ IsFiniteSet(BookPrices) /\ Books # <<>>
  /\ Books \in Seq([bids : [BookPrices -> Nat], asks : [BookPrices -> Nat]])
  /\ MaxLevels \in Nat \ {0} /\ MaxPending \in Nat \ {0}
  /\ CircuitErrors \in Nat \ {0} /\ ReconnectTries \in Nat \ {0}
  /\ CurveLevel \in 0..3 /\ ErrorsOff \in Nat /\ StaleFallback \in BOOLEAN
  /\ MaxOrders \in Nat /\ MaxFaults \in Nat

VARIABLES
  venue,            \* the venue's update id
  wire,             \* depth events on their way: sequence of [first, final]
  link,             \* [connected, circuit, cooled, errs, backoff] of the adapter
  lob,              \* [init, seq, bids, asks, reinit, empty, pending]
  md,               \* market data thread: [pc, tries, rest, snap, level]
  order,            \* execution thread: [pc, n]
  active,           \* venue_configs_[venue].is_active
  last_sequence,    \* SnapshotProducer::last_sequence_
  published,        \* last snapshot on the topic
  degradation,      \* [publish, execution] error counts of the curve producer
  curve,            \* update id of the last curve on the topic
  lost,             \* ghost: update ids whose publication failed
  faults

feedVars == <<venue, wire, link, lob, md, order, active, last_sequence, published,
              degradation, curve, lost, faults>>

NoLevels == [p \in BookPrices |-> 0]
NoLob == [init |-> FALSE, seq |-> 0, bids |-> NoLevels, asks |-> NoLevels, reinit |-> FALSE,
          empty |-> FALSE, pending |-> <<>>]
NoSnap == [seq |-> 0, bids |-> NoLevels, asks |-> NoLevels, status |-> "none"]
MdIdle == [pc |-> "idle", tries |-> 0, rest |-> 0, snap |-> NoSnap, level |-> 0]

(* connect_and_subscribe_defaults has connected and subscribed.            *)
FeedInit ==
  /\ venue = 1 /\ wire = <<>>
  /\ link = [connected |-> TRUE, circuit |-> "closed", cooled |-> FALSE, errs |-> 0,
             backoff |-> FALSE]
  /\ lob = NoLob /\ md = MdIdle
  /\ order = [pc |-> "idle", n |-> 0]
  /\ active = TRUE
  /\ last_sequence = 0 /\ published = NoSnap
  /\ degradation = [publish |-> 0, execution |-> 0]
  /\ curve = 0
  /\ lost = {} /\ faults = 0

Fault   == faults < MaxFaults /\ faults' = faults + 1
NoFault == UNCHANGED faults
-----------------------------------------------------------------------------
(* The circuit breaker of the adapter.                                     *)
Allows(l) == l.circuit # "open" \/ l.cooled
Entered(l) == IF l.circuit = "open" THEN [l EXCEPT !.circuit = "half_open"] ELSE l

Opened(l) == [l EXCEPT !.circuit = "open", !.cooled = FALSE, !.connected = FALSE]
Failed(l) ==
  LET k == [l EXCEPT !.errs = @ + 1]
  IN  IF l.circuit = "half_open" \/ k.errs >= CircuitErrors THEN Opened(k) ELSE k
Succeeded(l) ==
  IF l.circuit = "closed" THEN l ELSE [l EXCEPT !.circuit = "closed", !.cooled = FALSE, !.errs = 0]

(* Cooldown, error window and reconnect back-off run out.                  *)
CoolDown ==
  /\ link.circuit = "open" /\ ~link.cooled
  /\ link' = [link EXCEPT !.cooled = TRUE]
  /\ UNCHANGED <<venue, wire, lob, md, order, active, last_sequence, published, degradation, curve, lost, faults>>
EvictError ==
  /\ link.errs > 0
  /\ link' = [link EXCEPT !.errs = @ - 1]
  /\ UNCHANGED <<venue, wire, lob, md, order, active, last_sequence, published, degradation, curve, lost, faults>>
BackoffOver ==
  /\ link.backoff
  /\ link' = [link EXCEPT !.backoff = FALSE]
  /\ UNCHANGED <<venue, wire, lob, md, order, active, last_sequence, published, degradation, curve, lost, faults>>
-----------------------------------------------------------------------------
(* Books.                                                                  *)
Prices(m)  == {p \in BookPrices : m[p] > 0}
Best(m, side) ==
  CHOOSE p \in Prices(m) : \A r \in Prices(m) : IF side = "bids" THEN p >= r ELSE p <= r
Crossed(bids, asks) == Best(bids, "bids") >= Best(asks, "asks")
TopLevels(m, side) ==
  [p \in BookPrices |->
     IF Cardinality({r \in Prices(m) : IF side = "bids" THEN r > p ELSE r < p}) < MaxLevels
     THEN m[p] ELSE 0]

(* A depth event carries the final quantity of every level it touched.     *)
Touched(d, side) ==
  {p \in BookPrices : \E k \in d.first..d.final : Books[k][side][p] # Books[k - 1][side][p]}
Patched(m, d, side) ==
  [p \in BookPrices |-> IF p \in Touched(d, side) THEN Books[d.final][side][p] ELSE m[p]]

(* CexLocalLobAssembler::ApplyDiff.                                        *)
Late(l, d) == d.final < l.seq + 1
GapLoose(l, d) == d.first > l.seq + 2
Gap(l, d) == d.first > l.seq + 1
Sound(bids, asks) == Prices(bids) # {} /\ Prices(asks) # {} /\ ~Crossed(bids, asks)
ApplyDiff(l, d) ==
  LET bids == Patched(l.bids, d, "bids")
      asks == Patched(l.asks, d, "asks")
  IN  CASE Late(l, d) -> [status |-> "old", lob |-> [l EXCEPT !.empty = FALSE]]
        [] Gap(l, d) \/ (~Late(l, d) /\ ~Sound(bids, asks)) -> [status |-> "reinit", lob |-> l]
        [] OTHER -> [status |-> "applied",
                     lob |-> [l EXCEPT !.seq = d.final, !.bids = bids, !.asks = asks,
                                       !.reinit = FALSE, !.empty = FALSE]]

PushPending(pending, d) ==
  LET all == Append(pending, d)
  IN  IF Len(all) > MaxPending THEN Tail(all) ELSE all

(* apply_ws_depth_event: kept for later without a book, applied to one, or *)
(* the book is given up.                                                   *)
OnDepth(l, d) ==
  IF ~l.init \/ l.reinit
  THEN [ok |-> TRUE, lob |-> [l EXCEPT !.pending = PushPending(@, d)]]
  ELSE LET r == ApplyDiff(l, d)
       IN  IF r.status # "reinit" THEN [ok |-> TRUE, lob |-> r.lob]
           ELSE [ok |-> FALSE, lob |-> [NoLob EXCEPT !.reinit = TRUE, !.pending = <<d>>]]

(* InitializeFromSnapshot, then the pending events until one does not fit, *)
(* which puts the snapshot back.                                           *)
FromRest(k) ==
  [NoLob EXCEPT !.init = TRUE, !.seq = k, !.bids = TopLevels(Books[k].bids, "bids"),
                !.asks = TopLevels(Books[k].asks, "asks")]
ReplayNext(prev, d, base) ==
  LET r == ApplyDiff(prev.lob, d)
  IN  IF prev.ok /\ r.status # "reinit" THEN [ok |-> TRUE, lob |-> r.lob]
      ELSE [ok |-> FALSE, lob |-> base]
Replay(base, pending) ==
  LET Run[i \in 0..Len(pending)] ==
        IF i = 0 THEN [ok |-> TRUE, lob |-> base] ELSE ReplayNext(Run[i - 1], pending[i], base)
  IN  Run[Len(pending)].lob
HasBook(k) == Prices(Books[k].bids) # {} /\ Prices(Books[k].asks) # {}

(* A venue does not cross its own book, so that InitializeFromSnapshot     *)
(* finds nothing to refuse in one with two sides.                          *)
ASSUME VenueBooks == \A k \in DOMAIN Books : HasBook(k) => ~Crossed(Books[k].bids, Books[k].asks)

ParseRest(l, k) ==
  IF HasBook(k) THEN Replay(FromRest(k), l.pending)
  ELSE [NoLob EXCEPT !.seq = k, !.reinit = TRUE, !.empty = TRUE]

(* snapshot_from_state_locked.                                             *)
Snapshot(l, status) ==
  CASE l.empty -> [NoSnap EXCEPT !.seq = l.seq, !.status = "empty"]
    [] ~l.empty /\ (l.reinit \/ ~l.init) -> NoSnap
    [] OTHER -> [seq |-> l.seq, bids |-> TopLevels(l.bids, "bids"),
                 asks |-> TopLevels(l.asks, "asks"), status |-> status]
-----------------------------------------------------------------------------
(* The venue and its stream.                                               *)
VenueMoves(n) ==
  /\ venue + n <= Len(Books)
  /\ venue' = venue + n
  /\ wire' = Append(wire, [first |-> venue + 1, final |-> venue + n])
  /\ UNCHANGED <<link, lob, md, order, active, last_sequence, published, degradation, curve, lost, faults>>

OnWsDepth ==
  /\ wire # <<>> /\ link.connected
  /\ LET r == OnDepth(lob, Head(wire))
     IN  /\ lob' = r.lob
         /\ link' = IF r.ok THEN Succeeded(link) ELSE Failed(link)
  /\ wire' = Tail(wire)
  /\ UNCHANGED <<venue, md, order, active, last_sequence, published, degradation, curve, lost, faults>>

(* An event is lost with its connection, or on its own.                    *)
LoseEvent ==
  /\ wire # <<>>
  /\ wire' = Tail(wire)
  /\ IF link.connected THEN Fault ELSE NoFault
  /\ UNCHANGED <<venue, link, lob, md, order, active, last_sequence, published, degradation, curve, lost>>

(* Trades, tickers and pongs count as successes, an unreadable message as  *)
(* an error.                                                               *)
OnWsOther ==
  /\ link.connected
  /\ link.circuit # "closed"
  /\ link' = Succeeded(link)
  /\ UNCHANGED <<venue, wire, lob, md, order, active, last_sequence, published, degradation, curve, lost, faults>>
OnWsInvalid ==
  /\ link.connected /\ Fault
  /\ link' = Failed(link)
  /\ UNCHANGED <<venue, wire, lob, md, order, active, last_sequence, published, degradation, curve, lost>>
-----------------------------------------------------------------------------
(* md_publish_loop.                                                        *)
MdAt(pc) == md.pc = pc
MdGoto(pc) == [md EXCEPT !.pc = pc]

(* Heartbeat: the ping fails, or no pong came in time.                     *)
PingFailed(l)  == Failed(l)
PongTimeout(l) == Failed([l EXCEPT !.connected = FALSE])
Heartbeat ==
  /\ MdAt("idle")
  /\ \/ NoFault /\ link' = link
     \/ Fault /\ link.connected /\ link' = PingFailed(link)
     \/ Fault /\ link.connected /\ link' = PongTimeout(link)
  /\ md' = CASE ~active -> MdIdle
             [] active /\ link'.connected -> [MdIdle EXCEPT !.pc = "request"]
             [] OTHER -> [MdIdle EXCEPT !.pc = "reconnect"]
  /\ UNCHANGED <<venue, wire, lob, order, active, last_sequence, published, degradation, curve, lost>>

BeginReconnect ==
  /\ MdAt("reconnect")
  /\ IF link.backoff \/ ~Allows(link)
     THEN md' = MdIdle /\ UNCHANGED link
     ELSE md' = MdGoto("attempt") /\ link' = Entered(link)
  /\ UNCHANGED <<venue, wire, lob, order, active, last_sequence, published, degradation, curve, lost, faults>>

(* The next try, or the back-off after the last one.                       *)
NextTry == IF md.tries + 1 < ReconnectTries
           THEN [md EXCEPT !.pc = "attempt", !.tries = @ + 1] ELSE MdIdle
Exhausted == md.tries + 1 >= ReconnectTries

CloseSession ==
  /\ MdAt("attempt")
  /\ \/ /\ link.backoff \/ ~Allows(link)
        /\ md' = MdIdle /\ UNCHANGED link /\ NoFault
     \/ /\ ~link.backoff /\ Allows(link)
        /\ link' = [Entered(link) EXCEPT !.connected = FALSE]
        /\ md' = MdGoto("connect") /\ NoFault
     \/ /\ ~link.backoff /\ Allows(link) /\ Fault      \* no connect token
        /\ link' = [Entered(link) EXCEPT !.backoff = Exhausted]
        /\ md' = NextTry
  /\ UNCHANGED <<venue, wire, lob, order, active, last_sequence, published, degradation, curve, lost>>

ConnectSession ==
  /\ MdAt("connect")
  /\ \/ /\ NoFault
        /\ link' = Succeeded([link EXCEPT !.connected = TRUE, !.backoff = FALSE])
        /\ md' = MdGoto("request")
     \/ /\ Fault
        /\ link' = [Failed([link EXCEPT !.connected = FALSE]) EXCEPT !.backoff = Exhausted \/ @]
        /\ md' = NextTry
  /\ UNCHANGED <<venue, wire, lob, order, active, last_sequence, published, degradation, curve, lost>>

(* RequestSnapshot up to the REST call: refused by the circuit it falls    *)
(* back on the book it has.                                                *)
Take(snap) == IF snap = NoSnap THEN MdIdle ELSE [md EXCEPT !.pc = "publish", !.snap = snap]
RequestSnapshot ==
  /\ MdAt("request")
  /\ \/ /\ ~Allows(link)
        /\ md' = Take(Snapshot(lob, "disconnected")) /\ UNCHANGED link /\ NoFault
     \/ /\ Allows(link)
        /\ md' = MdGoto("rest") /\ link' = Entered(link) /\ NoFault
     \/ /\ Allows(link) /\ Fault                       \* no REST token
        /\ md' = MdIdle /\ link' = Entered(link)
  /\ UNCHANGED <<venue, wire, lob, order, active, last_sequence, published, degradation, curve, lost>>

(* The answer shows the book at some moment of the call; 0 is none.        *)
RestAnswers ==
  /\ MdAt("rest")
  /\ \/ NoFault /\ md' = [md EXCEPT !.pc = "apply", !.rest = venue]
     \/ Fault   /\ md' = [md EXCEPT !.pc = "apply", !.rest = 0]
  /\ UNCHANGED <<venue, wire, link, lob, order, active, last_sequence, published, degradation, curve, lost>>

Cached(l, k) == Snapshot(l, IF k.connected THEN "stale" ELSE "disconnected")
ApplyRest ==
  /\ MdAt("apply")
  /\ \/ /\ md.rest # 0 /\ NoFault
        /\ lob' = ParseRest(lob, md.rest)
        /\ link' = Succeeded(link)
        /\ md' = Take(Snapshot(lob', "connected"))
     \/ /\ md.rest # 0 /\ Fault                        \* unreadable: counted twice
        /\ link' = Failed(Failed(link))
        /\ md' = Take(Cached(lob, link')) /\ UNCHANGED lob
     \/ /\ md.rest = 0 /\ NoFault
        /\ link' = Failed(link)
        /\ md' = Take(Cached(lob, link')) /\ UNCHANGED lob
  /\ UNCHANGED <<venue, wire, order, active, last_sequence, published, degradation, curve, lost>>

(* SnapshotProducer::Publish: an update id that is not new is dropped; the *)
(* id counts as published before the publication is tried.                 *)
NeverDuplicate(seq) == FALSE
SkipsOne(seq) == seq # 0 /\ last_sequence # 0 /\ seq <= last_sequence + 1
IsDuplicate(seq) == seq # 0 /\ seq <= last_sequence
DropDuplicate ==
  /\ MdAt("publish") /\ IsDuplicate(md.snap.seq)
  /\ md' = MdIdle
  /\ UNCHANGED <<venue, wire, link, lob, order, active, last_sequence, published, degradation, curve, lost, faults>>

(* DeriveSnapshotStatus: the age is the time since the last snapshot.      *)
DeriveStatus(snap, aged) ==
  CASE snap.status = "disconnected" -> "disconnected"
    [] Prices(snap.bids) = {} /\ Prices(snap.asks) = {} -> "empty"
    [] OTHER -> IF aged THEN "stale" ELSE "connected"

PublishSnapshot(aged) ==
  /\ MdAt("publish") /\ ~IsDuplicate(md.snap.seq)
  /\ aged => last_sequence # 0
  /\ last_sequence' = IF md.snap.seq = 0 THEN last_sequence ELSE md.snap.seq
  /\ LET snap == [md.snap EXCEPT !.status = DeriveStatus(md.snap, aged)]
     IN  \/ /\ NoFault
            /\ published' = snap
            /\ md' = [md EXCEPT !.pc = IF CurveLevel = 0 THEN "idle" ELSE "curve", !.snap = snap]
            /\ UNCHANGED lost
         \/ /\ Fault
            /\ md' = MdIdle /\ lost' = lost \cup {snap.seq} /\ UNCHANGED published
  /\ UNCHANGED <<venue, wire, link, lob, order, active, degradation, curve>>

(* LiquidityCurveProducer::Publish: the level errors and staleness leave.  *)
Errors == degradation.publish + degradation.execution
CurveCap(status) ==
  LET cap == IF status = "stale" /\ CurveLevel > 1 THEN 1 ELSE CurveLevel
  IN  IF Errors >= ErrorsOff \/ Errors >= cap THEN 0 ELSE cap - Errors
ReadDegradation ==
  /\ MdAt("curve")
  /\ LET status == md.snap.status
         off == status \in {"disconnected", "empty"} \/ (status = "stale" /\ ~StaleFallback)
     IN  md' = IF off \/ CurveCap(status) = 0 THEN MdIdle
               ELSE [md EXCEPT !.pc = "build", !.level = CurveCap(status)]
  /\ UNCHANGED <<venue, wire, link, lob, order, active, last_sequence, published, degradation, curve, lost, faults>>

(* Quality gating takes any level up to that, or none; then the curve and  *)
(* its synthetic orders are published.                                     *)
GatedLevels == 0..md.level
PublishCurve(level) ==
  /\ MdAt("build")
  /\ \/ /\ level = 0 /\ NoFault /\ UNCHANGED <<degradation, curve>>
     \/ /\ level > 0 /\ NoFault
        /\ curve' = md.snap.seq
        /\ degradation' = [degradation EXCEPT !.publish = 0]
     \/ /\ level > 0 /\ Fault                          \* the curve
        /\ degradation' = [degradation EXCEPT !.publish = @ + 1]
        /\ UNCHANGED curve
     \/ /\ level > 0 /\ Fault /\ md.snap.status # "stale"   \* a synthetic order
        /\ curve' = md.snap.seq
        /\ degradation' = [degradation EXCEPT !.publish = 1]
  /\ md' = MdIdle
  /\ UNCHANGED <<venue, wire, link, lob, order, active, last_sequence, published, lost>>
-----------------------------------------------------------------------------
(* SendOrder and ObserveExecution on the execution thread.                 *)
Rejected(g) == [g EXCEPT !.execution = @ + 1]
BeginOrder ==
  /\ order.pc = "idle" /\ order.n < MaxOrders
  /\ \/ /\ ~Allows(link) /\ NoFault
        /\ order' = [order EXCEPT !.n = @ + 1]
        /\ degradation' = Rejected(degradation) /\ UNCHANGED link
     \/ /\ Allows(link) /\ NoFault
        /\ order' = [pc |-> "posting", n |-> order.n + 1]
        /\ link' = Entered(link) /\ UNCHANGED degradation
     \/ /\ Allows(link) /\ Fault                       \* no REST token
        /\ order' = [order EXCEPT !.n = @ + 1]
        /\ link' = Entered(link) /\ degradation' = Rejected(degradation)
  /\ UNCHANGED <<venue, wire, lob, md, active, last_sequence, published, curve, lost>>

FinishOrder ==
  /\ order.pc = "posting"
  /\ order' = [order EXCEPT !.pc = "idle"]
  /\ \/ /\ NoFault
        /\ link' = Succeeded(link)
        /\ degradation' = [degradation EXCEPT !.execution = 0]
     \/ /\ Fault
        /\ link' = Failed(link)
        /\ degradation' = Rejected(degradation)
  /\ UNCHANGED <<venue, wire, lob, md, active, last_sequence, published, curve, lost>>

(* ApplyRuntimeConfig with a new url, and the venue switched on or off.    *)
ChangeUrl ==
  /\ Fault /\ link.connected
  /\ link' = [link EXCEPT !.connected = FALSE]
  /\ UNCHANGED <<venue, wire, lob, md, order, active, last_sequence, published, degradation, curve, lost>>
SetActive ==
  /\ Fault
  /\ active' = ~active
  /\ UNCHANGED <<venue, wire, link, lob, md, order, last_sequence, published, degradation, curve, lost>>
-----------------------------------------------------------------------------
MdStep ==
  \/ Heartbeat \/ BeginReconnect \/ CloseSession \/ ConnectSession
  \/ RequestSnapshot \/ RestAnswers \/ ApplyRest
  \/ DropDuplicate \/ (\E aged \in BOOLEAN : PublishSnapshot(aged))
  \/ ReadDegradation \/ (\E level \in GatedLevels : PublishCurve(level))

FeedNext ==
  \/ MdStep
  \/ (\E n \in 1..2 : VenueMoves(n)) \/ OnWsDepth \/ LoseEvent \/ OnWsOther \/ OnWsInvalid
  \/ BeginOrder \/ FinishOrder
  \/ CoolDown \/ EvictError \/ BackoffOver
  \/ ChangeUrl \/ SetActive

FeedSpec == FeedInit /\ [][FeedNext]_feedVars
-----------------------------------------------------------------------------
FeedTypeOK ==
  /\ venue \in 1..Len(Books)
  /\ link.circuit \in {"closed", "open", "half_open"}
  /\ link.errs \in Nat /\ {link.connected, link.cooled, link.backoff} \subseteq BOOLEAN
  /\ lob.seq \in 0..venue /\ Len(lob.pending) <= MaxPending
  /\ last_sequence \in 0..venue
  /\ curve \in 0..venue /\ md.level \in 0..CurveLevel

(* The local book is the venue's at its update id, as far as it goes: every *)
(* level has the venue's quantity, through late REST answers, lost events   *)
(* and replays of pending ones, and it is never crossed or one-sided.       *)
BookIsReal ==
  lob.init =>
    /\ Sound(lob.bids, lob.asks)
    /\ \A p \in BookPrices :
         /\ lob.bids[p] \in {0, Books[lob.seq].bids[p]}
         /\ lob.asks[p] \in {0, Books[lob.seq].asks[p]}

(* While the circuit is open the session is down, whichever thread opened   *)
(* it and whatever the other one was in the middle of.                      *)
OpenIsDisconnected == link.circuit = "open" => ~link.connected

(* Snapshots reach the topic in the order of their update ids although a    *)
(* slow REST answer can take the local book back.                           *)
PublishedForward == [][published' # published => published'.seq > published.seq]_feedVars

(* A curve on the topic has its snapshot there too, and was not made from   *)
(* one that said disconnected or empty.                                     *)
CurveFollowsSnapshot ==
  /\ curve <= published.seq /\ curve \notin lost
  /\ curve = published.seq /\ curve # 0 => published.status \in {"connected", "stale"}

(* The local book is real, the circuit breaker and the session agree, and  *)
(* the topics of snapshots and curves agree, at every step of the market   *)
(* data thread, the callbacks, the orders and the operator.                *)
FeedSafety == FeedTypeOK /\ BookIsReal /\ OpenIsDisconnected /\ CurveFollowsSnapshot

(* Once the venue is quiet its last book reaches the topic, unless the      *)
(* publication failed or the venue is switched off.                         *)
LastBookPublished ==
  (venue = Len(Books)) ~> (published.seq = Len(Books) \/ Len(Books) \in lost \/ ~active)

(* An open circuit closes again without an operator once calls succeed.     *)
CircuitRecovers == (link.circuit = "open") ~> (link.circuit = "closed" \/ ~active)
=============================================================================

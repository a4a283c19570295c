------------------------------ MODULE SimVenue ------------------------------
(***************************************************************************)
(* The simulated venue: SimulatedVenueAdapter, which makes up a book around*)
(* a wandering mid price, and VenueSimAdapter around it, which answers     *)
(* orders of a simulation by a policy: refuse, fill a share of the order,  *)
(* or walk the last book.                                                  *)
(*                                                                         *)
(* Each adapter has its own mutex.  VenueSimAdapter takes a snapshot from  *)
(* the inner adapter and stores it under its own lock afterwards, so two   *)
(* market data threads may store theirs in the other order.  SendOrder     *)
(* reads the connection, the policy and the last snapshot one after the    *)
(* other, each under a lock of its own; an operator may change the policy  *)
(* in between.                                                             *)
(*                                                                         *)
(* The waves of the profile are any drift and spread within their          *)
(* amplitudes.  Prices of one venue have one scale; quantities carry       *)
(* theirs, because the walk of the book skips the levels of another scale. *)
(* Shares are halves: 1 is half of the order, 2 all of it.                 *)
(***************************************************************************)
EXTENDS Integers, Sequences, FiniteSets, FiniteSetsExt

CONSTANTS
  Profile,     \* [mid, wave, half, breath, step, qty, decay, least, scale]
  Depth,       \* levels per side of a requested book
  Requesters,  \* market data threads
  SimOrders,   \* the ExecutionIntents: [id, side, target, scale, limit]; limit 0: none
  Policies,    \* the OrderPolicies in use: [reject, walk, enforce, slip, share, forced]
  NoBook, NoPolicy,
  MaxBooks,    \* bound on the requested snapshots
  MaxChanges   \* bound on the changes of a policy

VARIABLES
  connected, consecutive_errors,
  sequence, mid_price,     \* of the inner adapter
  taken,                   \* Requesters -> the snapshot not yet stored
  last_snapshot,
  default_policy,
  per_intent_policies,     \* SimOrders -> policy or NoPolicy
  policyChanges,
  sending,                 \* SimOrders -> [step, policy]: how far SendOrder is
  answers,                 \* SimOrders -> the last VenueOrderResult
  sent_orders

simLink == <<connected, consecutive_errors>>
simBook == <<sequence, mid_price, taken, last_snapshot>>
simPolicy == <<default_policy, per_intent_policies, policyChanges>>
simOrder == <<sending, answers, sent_orders>>
simVenueVars == <<simLink, simBook, simPolicy, simOrder>>

Greater(a, b) == IF a > b THEN a ELSE b
-----------------------------------------------------------------------------
(* The inner adapter.                                                      *)

(* wave_units: an oscillation within its amplitude.                        *)
Wave(amplitude) == (-amplitude)..amplitude

RoundToStep(units) ==
  IF Profile.step <= 1 THEN units
  ELSE ((units + Profile.step \div 2) \div Profile.step) * Profile.step

(* compute_mid_price_units.                                                *)
MidPrice(drift) == Greater(Profile.step, RoundToStep(Profile.mid + drift))

(* compute_half_spread_units.                                              *)
HalfSpread(breath) == Greater(Profile.step, Profile.half + breath)

(* A level's quantity falls with its distance, to a least one; its own    *)
(* wave is left out.                                                       *)
LevelQty(i) == Greater(Profile.least, Profile.qty - i * Profile.decay)

(* The two ladders of a snapshot.                                          *)
Bids(mid, half) ==
  [i \in 1..Depth |-> [price |-> Greater(Profile.step, mid - half - (i - 1) * Profile.step),
                       qty |-> LevelQty(i - 1), scale |-> Profile.scale]]
Asks(mid, half) ==
  [i \in 1..Depth |-> [price |-> mid + half + (i - 1) * Profile.step,
                       qty |-> LevelQty(i - 1), scale |-> Profile.scale]]

(* Heartbeat.                                                              *)
Heartbeat == IF connected THEN "connected" ELSE "disconnected"

Connect ==
  /\ connected' = TRUE
  /\ consecutive_errors' = 0
  /\ UNCHANGED <<simBook, simPolicy, simOrder>>

(* Subscribe; Reconnect is Connect with a counter of attempts.             *)
Subscribe ==
  /\ consecutive_errors' = IF connected THEN 0 ELSE Min({2, consecutive_errors + 1})
  /\ UNCHANGED <<connected, simBook, simPolicy, simOrder>>

(* RequestSnapshot of the inner adapter, under its lock.                   *)
RequestSnapshot(r) ==
  /\ taken[r] = NoBook
  /\ \/ /\ ~connected
        /\ consecutive_errors' = Min({2, consecutive_errors + 1})
        /\ UNCHANGED <<sequence, mid_price, taken>>
     \/ /\ connected
        /\ sequence < MaxBooks
        /\ sequence' = sequence + 1
        /\ \E drift \in Wave(Profile.wave), breath \in 0..Profile.breath :
             /\ mid_price' = MidPrice(drift)
             /\ taken' = [taken EXCEPT ![r] =
                  [sequence |-> sequence',
                   bids |-> Bids(mid_price', HalfSpread(breath)),
                   asks |-> Asks(mid_price', HalfSpread(breath))]]
        /\ UNCHANGED consecutive_errors
  /\ UNCHANGED <<connected, last_snapshot, simPolicy, simOrder>>

(* ... and the outer adapter stores what it got, under its own.            *)
StoreSnapshot(r) ==
  /\ taken[r] # NoBook
  /\ last_snapshot' = taken[r]
  /\ taken' = [taken EXCEPT ![r] = NoBook]
  /\ UNCHANGED <<simLink, sequence, mid_price, simPolicy, simOrder>>
-----------------------------------------------------------------------------
(* Policies.                                                               *)

(* clamp01.                                                                *)
Clamped(p) == [p EXCEPT !.share = Greater(0, Min({2, p.share}))]

SetDefaultOrderPolicy(p) ==
  /\ policyChanges < MaxChanges
  /\ policyChanges' = policyChanges + 1
  /\ default_policy' = Clamped(p)
  /\ UNCHANGED <<simLink, simBook, per_intent_policies, simOrder>>

SetOrderPolicyFor(o, p) ==
  /\ policyChanges < MaxChanges
  /\ policyChanges' = policyChanges + 1
  /\ per_intent_policies' = [per_intent_policies EXCEPT ![o] = Clamped(p)]
  /\ UNCHANGED <<simLink, simBook, default_policy, simOrder>>

PolicyOf(o) ==
  IF per_intent_policies[o] # NoPolicy THEN per_intent_policies[o] ELSE default_policy
-----------------------------------------------------------------------------
(* walk_book: the levels of the scale of the order, best first, until it   *)
(* is filled; the price is the truncated average.                          *)
Usable(levels, scale) == {i \in DOMAIN levels : levels[i].qty > 0 /\ levels[i].scale = scale}

(* Faulty variant: a level gives whatever is still wanted.                 *)
TakeTheRest(levels, o, i) ==
  Greater(0, o.target - MapThenSumSet(LAMBDA j : levels[j].qty,
                          {j \in Usable(levels, o.scale) : j < i}))

Take(levels, o, i) ==
  LET before == MapThenSumSet(LAMBDA j : levels[j].qty,
                  {j \in Usable(levels, o.scale) : j < i})
  IN Greater(0, Min({levels[i].qty, o.target - before}))

WalkBook(levels, o) ==
  LET used == Usable(levels, o.scale)
      filled == MapThenSumSet(LAMBDA i : Take(levels, o, i), used)
      notional == MapThenSumSet(LAMBDA i : Take(levels, o, i) * levels[i].price, used)
  IN [filled |-> filled,
      remaining |-> Greater(0, o.target - filled),
      vwap |-> IF filled > 0 THEN notional \div filled ELSE 0]
-----------------------------------------------------------------------------
(* BuildResult.                                                            *)

Refusal(status, remaining, p) ==
  [status |-> status, accepted |-> FALSE, filled |-> 0, remaining |-> remaining,
   price |-> 0, policy |-> p, book |-> NoBook]

Status(p, filled, remaining) ==
  IF p.forced # "" THEN p.forced
  ELSE IF filled = 0 THEN "CANCELLED"
  ELSE IF remaining = 0 THEN "FILLED" ELSE "PARTIALLY_FILLED"

Answer(p, book, filled, remaining, price) ==
  [status |-> Status(p, filled, remaining),
   accepted |-> Status(p, filled, remaining) \notin {"REJECTED", "CANCELLED"},
   filled |-> filled, remaining |-> remaining, price |-> price,
   policy |-> p, book |-> book]

Breached(o, price) ==
  IF o.side = "SELL" THEN price < o.limit ELSE price > o.limit

(* The limit is held against the average before the slippage is added.     *)
WalkResult(o, p) ==
  IF last_snapshot = NoBook THEN Refusal("REJECTED", 0, p)
  ELSE LET levels == IF o.side = "SELL" THEN last_snapshot.bids ELSE last_snapshot.asks
           walk == WalkBook(levels, o)
       IN IF walk.filled = 0 THEN Refusal("REJECTED", o.target, p)
          ELSE IF p.enforce /\ o.limit # 0 /\ Breached(o, walk.vwap)
               THEN Refusal("CANCELLED", o.target, p)
          ELSE Answer(p, last_snapshot, walk.filled, walk.remaining, walk.vwap + p.slip)

(* A share of the order, rounded half up, at its limit or at the mid price *)
(* of the inner adapter's SendOrder.                                       *)
ShareResult(o, p) ==
  LET filled == (o.target * p.share + 1) \div 2
      price == IF o.limit # 0 THEN o.limit ELSE mid_price
  IN Answer(p, NoBook, filled, Greater(0, o.target - filled), price + p.slip)

BuildResult(o, p) ==
  IF p.reject THEN Refusal("REJECTED", 0, p)
  ELSE IF p.walk THEN WalkResult(o, p)
  ELSE ShareResult(o, p)

(* SendOrder: heartbeat, policy, result.                                   *)
Idle == [step |-> "idle", policy |-> NoPolicy]
Unanswered == Refusal("none", 0, NoPolicy)

CheckConnection(o) ==
  /\ sending[o].step = "idle"
  /\ answers[o] = Unanswered
  /\ \/ /\ Heartbeat = "disconnected"
        /\ answers' = [answers EXCEPT ![o] = Refusal("REJECTED", 0, NoPolicy)]
        /\ UNCHANGED sending
     \/ /\ Heartbeat = "connected"
        /\ sending' = [sending EXCEPT ![o].step = "connected"]
        /\ UNCHANGED answers
  /\ UNCHANGED <<simLink, simBook, simPolicy, sent_orders>>

ResolvePolicy(o) ==
  /\ sending[o].step = "connected"
  /\ sending' = [sending EXCEPT ![o] = [step |-> "resolved", policy |-> PolicyOf(o)]]
  /\ UNCHANGED <<simLink, simBook, simPolicy, answers, sent_orders>>

SendOrder(o) ==
  /\ sending[o].step = "resolved"
  /\ answers' = [answers EXCEPT ![o] = BuildResult(o, sending[o].policy)]
  /\ sending' = [sending EXCEPT ![o] = Idle]
  /\ sent_orders' = sent_orders + 1
  /\ UNCHANGED <<simLink, simBook, simPolicy>>
-----------------------------------------------------------------------------
SimVenueInit ==
  /\ connected = FALSE
  /\ consecutive_errors = 0
  /\ sequence = 0
  /\ mid_price = Profile.mid
  /\ taken = [r \in Requesters |-> NoBook]
  /\ last_snapshot = NoBook
  /\ default_policy = [reject |-> FALSE, walk |-> FALSE, enforce |-> FALSE,
                       slip |-> 0, share |-> 2, forced |-> ""]
  /\ per_intent_policies = [o \in SimOrders |-> NoPolicy]
  /\ policyChanges = 0
  /\ sending = [o \in SimOrders |-> Idle]
  /\ answers = [o \in SimOrders |-> Unanswered]
  /\ sent_orders = 0

SimVenueNext ==
  \/ Connect \/ Subscribe
  \/ \E r \in Requesters : RequestSnapshot(r) \/ StoreSnapshot(r)
  \/ \E p \in Policies : \/ SetDefaultOrderPolicy(p)
                         \/ \E o \in SimOrders : SetOrderPolicyFor(o, p)
  \/ \E o \in SimOrders : CheckConnection(o) \/ ResolvePolicy(o) \/ SendOrder(o)

SimVenueSpec == SimVenueInit /\ [][SimVenueNext]_simVenueVars
-----------------------------------------------------------------------------
SimVenueTypeOK ==
  /\ connected \in BOOLEAN
  /\ consecutive_errors \in Nat
  /\ sequence \in 0..MaxBooks
  /\ mid_price >= Profile.step
  /\ default_policy.share \in 0..2
  /\ \A o \in SimOrders : per_intent_policies[o] = NoPolicy \/ per_intent_policies[o].share \in 0..2
  /\ sent_orders <= Cardinality(SimOrders)

(* A stored book never crosses, and its ladders lead away from the mid     *)
(* price, whatever the waves did to mid and spread.                        *)
BooksDoNotCross ==
  last_snapshot # NoBook =>
    /\ last_snapshot.bids[1].price < last_snapshot.asks[1].price
    /\ \A i \in 2..Depth : /\ last_snapshot.bids[i].price <= last_snapshot.bids[i - 1].price
                           /\ last_snapshot.asks[i].price > last_snapshot.asks[i - 1].price

(* A walked fill comes from one book: it is no more than that book offers  *)
(* in the scale of the order, at a price between its best and its last     *)
(* level, although snapshots are stored while the order is sent.           *)
FilledFromOneBook ==
  \A o \in SimOrders :
    LET a == answers[o]
        levels == IF o.side = "SELL" THEN a.book.bids ELSE a.book.asks
    IN a.book # NoBook =>
         /\ a.filled <= MapThenSumSet(LAMBDA i : levels[i].qty, Usable(levels, o.scale))
         /\ \E i, j \in DOMAIN levels :
              levels[i].price <= a.price - a.policy.slip /\ a.price - a.policy.slip <= levels[j].price

(* What an accepted order did not get is reported as remaining, on either  *)
(* way of filling it.                                                      *)
AcceptedAddsUp ==
  \A o \in SimOrders :
    answers[o].accepted => /\ answers[o].filled + answers[o].remaining = o.target
                           /\ answers[o].filled >= 0

(* An order whose policy enforces the limit and adds no slippage is never  *)
(* filled beyond its limit.                                                *)
LimitIsEnforced ==
  \A o \in SimOrders :
    LET a == answers[o]
    IN a.accepted /\ a.policy.enforce /\ a.policy.slip = 0 /\ o.limit # 0
         => ~Breached(o, a.price)
==============================================================================

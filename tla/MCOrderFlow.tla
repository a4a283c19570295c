---------------------------- MODULE MCOrderFlow ----------------------------
(* Failures on the way of a flow order through gateway, order_flow and     *)
(* matching (flow), on the simulated venue that may fill it (sim), and in  *)
(* the history that backtest records of batches and reads again (history). *)
(* `part' says which of them runs; the others stay in their initial state, *)
(* so the state spaces add up.                                             *)
EXTENDS MCFlow, FiniteSets

CONSTANTS NoBook, NoPolicy

VARIABLES
  part,
  connected, consecutive_errors, sequence, mid_price, taken, last_snapshot,
  default_policy, per_intent_policies, policyChanges, sending, answers, sent_orders,
  recorder, copies, snaps, curves, load, log, audit, refusedInserts, historyFaults

simPart == <<connected, consecutive_errors, sequence, mid_price, taken, last_snapshot,
             default_policy, per_intent_policies, policyChanges, sending, answers, sent_orders>>
historyPart == <<recorder, copies, snaps, curves, load, log, audit, refusedInserts, historyFaults>>
vars == <<part, flowVars, simPart, historyPart>>

-----------------------------------------------------------------------------
(* A book that breathes and moves; a limited buy and a sell; policies that *)
(* walk the book or not, enforce the limit or not, force a status, refuse. *)
OrderPolicy(reject, walk, enforce, slip, share, forced) ==
  [reject |-> reject, walk |-> walk, enforce |-> enforce, slip |-> slip,
   share |-> share, forced |-> forced]

Sim == INSTANCE SimVenue WITH
  Profile <- [mid |-> 2, wave |-> 2, half |-> 0, breath |-> 1, step |-> 2,
              qty |-> 2, decay |-> 1, least |-> 1, scale |-> 3],
  Depth <- 3, Requesters <- {"r1", "r2"},
  SimOrders <- {[id |-> "o1", side |-> "BUY", target |-> 5, scale |-> 3, limit |-> 6],
                [id |-> "o2", side |-> "SELL", target |-> 3, scale |-> 3, limit |-> 0]},
  Policies <- {OrderPolicy(FALSE, TRUE, TRUE, 0, 2, ""), OrderPolicy(FALSE, TRUE, FALSE, 1, 2, "FILLED"),
               OrderPolicy(FALSE, FALSE, FALSE, 1, 1, ""), OrderPolicy(TRUE, FALSE, FALSE, 0, 3, "")},
  MaxBooks <- 2, MaxChanges <- 2

(* Two batches: three venue fills, then an internal and a venue fill; the  *)
(* fills are read two at a time.                                           *)
VenueFill(o) == [order |-> o, venue |-> "v", curve |-> "c"]
Internal(o)  == [order |-> o, venue |-> "", curve |-> ""]

Hist == INSTANCE ReplayHistory WITH
  refused <- refusedInserts, faults <- historyFaults,
  Outputs <- << <<VenueFill(1), VenueFill(2), VenueFill(3)>>, <<Internal(4), VenueFill(5)>> >>,
  SnapVenue <- << {"v"}, {} >>, Reader <- {"r1"}, ChunkSize <- 2, MaxFaults <- 1

-----------------------------------------------------------------------------
Init ==
  /\ part \in {"flow", "sim", "history"}
  /\ InitFlow /\ Sim!SimVenueInit /\ Hist!HistoryInit

Next ==
  \/ part = "flow" /\ NextFlow /\ UNCHANGED <<part, simPart, historyPart>>
  \/ part = "sim" /\ Sim!SimVenueNext /\ UNCHANGED <<part, flowVars, historyPart>>
  \/ part = "history" /\ Hist!HistoryNext /\ UNCHANGED <<part, flowVars, simPart>>

Spec == Init /\ [][Next]_vars
-----------------------------------------------------------------------------
(* The simulated venue: a stored book never crosses, whatever the waves    *)
(* did to mid and spread; a walked fill comes from one book although       *)
(* snapshots are stored while the order is sent; what an accepted order    *)
(* did not get is reported as remaining; an enforced limit is kept.        *)
SimVenueSafety ==
  part = "sim" => /\ Sim!SimVenueTypeOK
                  /\ Sim!BooksDoNotCross
                  /\ Sim!FilledFromOneBook
                  /\ Sim!AcceptedAddsUp
                  /\ Sim!LimitIsEnforced

(* The history: a batch the consumer passed is in each of the four tables  *)
(* unless ClickHouse refused that very insert; what the preflight counted  *)
(* is loaded although the recorder keeps inserting between two pages; and  *)
(* a batch delivered once is only replayed or audited with exactly the     *)
(* fills that matching published.                                          *)
HistorySafety ==
  part = "history" => /\ Hist!HistoryTypeOK
                      /\ Hist!RecordedUnlessRefused
                      /\ Hist!PreflightIsLoaded
                      /\ Hist!AcceptedIsWhole
=============================================================================

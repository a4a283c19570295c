------------------------------- MODULE Risk -------------------------------
(***************************************************************************)
(* The risk service.  Its checks (new order, hedge, combo group) read a    *)
(* kill switch and a health gate that Kafka consumers and the operator     *)
(* write under one mutex; they change nothing and are operators here.  The *)
(* batch consumer and the gRPC call OnBatchResult build a margin snapshot  *)
(* per affected user from PostgreSQL, several transactions that the        *)
(* ledger's writes fall between, and send the margin alert after it.       *)
(***************************************************************************)
EXTENDS Integers, Sequences, FiniteSets

CONSTANTS
  Symbols, RiskVenues, RiskUsers,
  Healths,        \* health messages: [status, routing, breaker, score], score in 0..100
  Synthetics,     \* synthetic orders: [venue, cost], cost signed by side
  MaxExposure,    \* RISK_MAX_EXPOSURE
  RiskBatches,    \* sequence of sets of users with fills
  UserBooks,         \* what PostgreSQL may hold for a user: set of [free, pnl, notional]
  RiskLimits,     \* risk_limits rows: partial function of {"user", "role", "global"} to rates
  MaxRiskInputs,  \* bound on operator calls, health and order messages, ledger writes
  MaxRiskFaults   \* bound on failed transactions and restarts

ASSUME RiskAssumption ==
  /\ Healths \subseteq [status : {"ok", "degraded", "stale", "rate_limit", "disconnected"},
                        routing : {"allow", "caution", "avoid", "block"},
                        breaker : {"closed", "half_open", "open"}, score : 0..100]
  /\ Synthetics \subseteq [venue : RiskVenues, cost : Int] /\ MaxExposure \in Nat
  /\ RiskBatches \in Seq(SUBSET RiskUsers)
  /\ UserBooks \subseteq [free : Nat, pnl : Int, notional : Nat] /\ UserBooks # {}
  /\ MaxRiskInputs \in Nat /\ MaxRiskFaults \in Nat

VARIABLES
  halted,         \* symbols halted; "*" is global_halt_
  gate,           \* venue_health_gate_: venue -> a health message or NoHealth
  exposures,      \* exposures_
  books,          \* positions and accounts of the users in PostgreSQL
  work,           \* OnBatchResult per caller: [pc, batch, users, user, book, m]
  riskOffset,     \* committed batches of group risk-batch
  snapshots,      \* risk_snapshots: set of [user, batch, m]
  marginAlerts,   \* risk.alerts: number of margin alerts of a user and batch
  refused,        \* ghost: users and batches whose insert failed
  riskInputs, riskFaults

riskVars == <<halted, gate, exposures, books, work, riskOffset, snapshots, marginAlerts,
              refused, riskInputs, riskFaults>>

NoHealth == [status |-> "none", routing |-> "none", breaker |-> "none", score |-> 0]
Callers == {"kafka", "grpc"}
NoUserBook == [free |-> 0, pnl |-> 0, notional |-> 0]
NoWork == [pc |-> "idle", batch |-> 0, users |-> {}, user |-> "none", book |-> NoUserBook, m |-> "none"]
Keys == RiskUsers \X DOMAIN RiskBatches

RiskInit ==
  /\ halted = {} /\ gate = [v \in RiskVenues |-> NoHealth]
  /\ exposures = [v \in RiskVenues |-> 0]
  /\ books \in [RiskUsers -> UserBooks]
  /\ work = [c \in Callers |-> NoWork] /\ riskOffset = 0
  /\ snapshots = {} /\ marginAlerts = [k \in Keys |-> 0]
  /\ refused = {}
  /\ riskInputs = 0 /\ riskFaults = 0

RiskInput == riskInputs < MaxRiskInputs /\ riskInputs' = riskInputs + 1 /\ UNCHANGED riskFaults
RiskFault == riskFaults < MaxRiskFaults /\ riskFaults' = riskFaults + 1 /\ UNCHANGED riskInputs
RiskCalm  == UNCHANGED <<riskInputs, riskFaults>>
-----------------------------------------------------------------------------
(* The checks.                                                             *)
IsHalted(sym) == "*" \in halted \/ sym \in halted
Known == {v \in RiskVenues : gate[v] # NoHealth}

HardBlockNoBreaker(h) == h.routing = "block" \/ h.status \in {"disconnected", "stale", "rate_limit"}
HardBlock(h) == h.breaker = "open" \/ h.routing = "block"
                \/ h.status \in {"disconnected", "stale", "rate_limit"}
Caution(h) == ~HardBlock(h) /\ (h.routing \in {"caution", "avoid"} \/ h.status = "degraded")
ScoreSum == LET Sum[S \in SUBSET Known] ==
                  IF S = {} THEN 0
                  ELSE LET v == CHOOSE x \in S : TRUE IN gate[v].score + Sum[S \ {v}]
            IN  Sum[Known]
EvaluateVenueHealthGate ==
  LET blocked == {v \in Known : HardBlock(gate[v])}
      caution == {v \in Known : Caution(gate[v])}
  IN  CASE Known = {} -> "accept"
        [] Known # {} /\ blocked = Known -> "reject"
        [] OTHER -> IF caution # {} \/ blocked \cup caution = Known
                       \/ ScoreSum < 65 * Cardinality(Known)
                    THEN "resize" ELSE "accept"

CheckNewOrder(sym, valid) ==
  CASE IsHalted(sym) -> "halt"
    [] ~IsHalted(sym) /\ EvaluateVenueHealthGate # "accept" -> EvaluateVenueHealthGate
    [] OTHER -> IF valid THEN "accept" ELSE "reject"

(* PreHedgeCheck: within the limits on notional, exposure and slippage or  *)
(* not, and the venues it may use.                                         *)
HedgeBlocked(h) == h.breaker = "open" \/ h.routing = "block"
PreHedgeCheck(sym, within, allowed) ==
  LET known == allowed \cap Known
  IN  CASE IsHalted(sym) -> "PROVIDER_HALTED"
        [] ~IsHalted(sym) /\ ~within -> "LIMIT"
        [] OTHER -> IF known # {} /\ \A v \in known : HedgeBlocked(gate[v])
                    THEN "VENUES_UNAVAILABLE" ELSE "ACCEPT"

(* Margin of one user: flags by the largest that holds.                    *)
MarginOf(b, rates) ==
  LET free == b.free + b.pnl
  IN  CASE free <= 0 -> "liquidation"
        [] free > 0 /\ free * 100 < b.notional * rates.maintenance -> "margin_call"
        [] OTHER -> IF free * 100 < b.notional * rates.initial THEN "throttled" ELSE "fine"
DefaultRates == [initial |-> 10, maintenance |-> 5]
ResolveRates(failed) ==
  LET have == DOMAIN RiskLimits
  IN  CASE failed \/ have = {} -> DefaultRates
        [] ~failed /\ "user" \in have -> RiskLimits["user"]
        [] OTHER -> IF "role" \in have THEN RiskLimits["role"] ELSE RiskLimits["global"]
-----------------------------------------------------------------------------
(* Messages and operator.                                                  *)
SetKillSwitch(sym, on) ==
  /\ RiskInput
  /\ halted' = IF on THEN halted \cup {sym} ELSE halted \ {sym}
  /\ UNCHANGED <<gate, exposures, books, work, riskOffset, snapshots, marginAlerts, refused>>

HealthChecks(v, h) ==
  /\ RiskInput
  /\ gate' = [gate EXCEPT ![v] = h]
  /\ UNCHANGED <<halted, exposures, books, work, riskOffset, snapshots, marginAlerts, refused>>

Magnitude(x) == IF x < 0 THEN -x ELSE x
OnSyntheticOrder(o) ==
  LET new == exposures[o.venue] + o.cost
  IN  /\ RiskInput
      /\ exposures' = [exposures EXCEPT ![o.venue] = IF Magnitude(new) <= MaxExposure THEN new ELSE @]
      /\ UNCHANGED <<halted, gate, books, work, riskOffset, snapshots, marginAlerts, refused>>

LedgerWrites(u, b) ==
  /\ RiskInput
  /\ books' = [books EXCEPT ![u] = b]
  /\ UNCHANGED <<halted, gate, exposures, work, riskOffset, snapshots, marginAlerts, refused>>
-----------------------------------------------------------------------------
(* OnBatchResult and buildRiskSnapshot of caller c.                        *)
CallerAt(c, pc) == work[c].pc = pc
UnchangedBelow == UNCHANGED <<halted, gate, exposures, books>>

TakeBatch(c, b) ==
  /\ CallerAt(c, "idle")
  /\ c = "kafka" => b = riskOffset + 1
  /\ b \in DOMAIN RiskBatches
  /\ c = "grpc" => RiskInput
  /\ c = "kafka" => RiskCalm
  /\ work' = [work EXCEPT ![c] = [NoWork EXCEPT !.pc = "next", !.batch = b, !.users = RiskBatches[b]]]
  /\ UnchangedBelow /\ UNCHANGED <<riskOffset, snapshots, marginAlerts, refused>>

NextUser(c, u) ==
  /\ CallerAt(c, "next") /\ u \in work[c].users
  /\ work' = [work EXCEPT ![c].pc = "positions", ![c].user = u, ![c].users = @ \ {u}]
  /\ RiskCalm /\ UnchangedBelow /\ UNCHANGED <<riskOffset, snapshots, marginAlerts, refused>>

(* A failed read counts as no row.                                         *)
ReadPositions(c) ==
  /\ CallerAt(c, "positions")
  /\ LET b == books[work[c].user]
     IN  \/ RiskCalm  /\ work' = [work EXCEPT ![c].pc = "collateral",
                                    ![c].book = [NoUserBook EXCEPT !.pnl = b.pnl, !.notional = b.notional]]
         \/ RiskFault /\ work' = [work EXCEPT ![c].pc = "collateral", ![c].book = NoUserBook]
  /\ UnchangedBelow /\ UNCHANGED <<riskOffset, snapshots, marginAlerts, refused>>

LoadCollateral(c) ==
  /\ CallerAt(c, "collateral")
  /\ \/ /\ RiskCalm
        /\ work' = [work EXCEPT ![c].pc = "rates", ![c].book.free = books[work[c].user].free]
     \/ RiskFault /\ work' = [work EXCEPT ![c].pc = "rates"]
  /\ UnchangedBelow /\ UNCHANGED <<riskOffset, snapshots, marginAlerts, refused>>

ReadRates(c) ==
  /\ CallerAt(c, "rates")
  /\ \/ RiskCalm  /\ work' = [work EXCEPT ![c].pc = "insert", ![c].m = MarginOf(work[c].book, ResolveRates(FALSE))]
     \/ RiskFault /\ work' = [work EXCEPT ![c].pc = "insert", ![c].m = MarginOf(work[c].book, ResolveRates(TRUE))]
  /\ UnchangedBelow /\ UNCHANGED <<riskOffset, snapshots, marginAlerts, refused>>

(* INSERT ... ON CONFLICT (entity_id, batch_id) DO NOTHING.                *)
Conflicts(u, b) == \E s \in snapshots : s.user = u /\ s.batch = b
Alerting(m) == m \in {"margin_call", "liquidation"}
InsertSnapshot(c) ==
  LET x == work[c]
  IN  /\ CallerAt(c, "insert")
      /\ \/ /\ ~Conflicts(x.user, x.batch) /\ RiskCalm
            /\ UNCHANGED refused
            /\ snapshots' = snapshots \cup {[user |-> x.user, batch |-> x.batch, m |-> x.m]}
            /\ work' = [work EXCEPT ![c].pc = IF Alerting(x.m) THEN "alert" ELSE "next"]
         \/ /\ Conflicts(x.user, x.batch) /\ RiskCalm
            /\ work' = [work EXCEPT ![c].pc = "next"] /\ UNCHANGED <<snapshots, refused>>
         \/ /\ RiskFault /\ refused' = refused \cup {<<x.user, x.batch>>}
            /\ work' = [work EXCEPT ![c].pc = "next"] /\ UNCHANGED snapshots
      /\ UnchangedBelow /\ UNCHANGED <<riskOffset, marginAlerts>>

PublishMarginAlert(c) ==
  /\ CallerAt(c, "alert")
  /\ marginAlerts' = [marginAlerts EXCEPT ![<<work[c].user, work[c].batch>>] = @ + 1]
  /\ work' = [work EXCEPT ![c].pc = "next"]
  /\ RiskCalm /\ UnchangedBelow /\ UNCHANGED <<riskOffset, snapshots, refused>>

EndsEarly(c) ==
  /\ CallerAt(c, "next")
  /\ riskOffset' = IF c = "kafka" THEN riskOffset + 1 ELSE riskOffset
  /\ work' = [work EXCEPT ![c] = NoWork]
  /\ RiskCalm /\ UnchangedBelow /\ UNCHANGED <<snapshots, marginAlerts, refused>>
EndBatch(c) ==
  /\ CallerAt(c, "next") /\ work[c].users = {}
  /\ riskOffset' = IF c = "kafka" THEN riskOffset + 1 ELSE riskOffset
  /\ work' = [work EXCEPT ![c] = NoWork]
  /\ RiskCalm /\ UnchangedBelow /\ UNCHANGED <<snapshots, marginAlerts, refused>>

(* Kill switch, gate and exposures are in memory only.                     *)
RestartRisk ==
  /\ RiskFault
  /\ halted' = {} /\ gate' = [v \in RiskVenues |-> NoHealth] /\ exposures' = [v \in RiskVenues |-> 0]
  /\ work' = [c \in Callers |-> NoWork]
  /\ UNCHANGED <<books, riskOffset, snapshots, marginAlerts, refused>>
-----------------------------------------------------------------------------
Assess(c) ==
  \/ \E u \in RiskUsers : NextUser(c, u)
  \/ ReadPositions(c) \/ LoadCollateral(c) \/ ReadRates(c)
  \/ InsertSnapshot(c) \/ PublishMarginAlert(c) \/ EndBatch(c)
BatchConsumer == TakeBatch("kafka", riskOffset + 1) \/ Assess("kafka")

RiskNext ==
  \/ \E sym \in Symbols \cup {"*"}, on \in BOOLEAN : SetKillSwitch(sym, on)
  \/ \E v \in RiskVenues, h \in Healths : HealthChecks(v, h)
  \/ \E o \in Synthetics : OnSyntheticOrder(o)
  \/ \E u \in RiskUsers, b \in UserBooks : LedgerWrites(u, b)
  \/ \E b \in DOMAIN RiskBatches : TakeBatch("grpc", b)
  \/ BatchConsumer \/ Assess("grpc")
  \/ RestartRisk

RiskSpec == RiskInit /\ [][RiskNext]_riskVars
-----------------------------------------------------------------------------
RiskTypeOK ==
  /\ halted \subseteq Symbols \cup {"*"} /\ gate \in [RiskVenues -> Healths \cup {NoHealth}]
  /\ exposures \in [RiskVenues -> -MaxExposure..MaxExposure]
  /\ books \in [RiskUsers -> UserBooks] /\ riskOffset \in 0..Len(RiskBatches)
  /\ marginAlerts \in [Keys -> Nat]

(* The hedge check and the order check read the same gate: when a hedge is *)
(* refused because all its venues are down, and these are all the venues,  *)
(* a new order is refused too, whatever health messages came in between.   *)
GatesAgree ==
  \A sym \in Symbols :
    PreHedgeCheck(sym, TRUE, RiskVenues) = "VENUES_UNAVAILABLE" => CheckNewOrder(sym, TRUE) = "reject"

(* The consumer and the gRPC call may work on one batch at once, and a     *)
(* batch may be delivered again: a user still gets one snapshot of it and  *)
(* at most one margin alert, never an alert without a snapshot that calls  *)
(* for it.                                                                 *)
OneMarginAlert ==
  \A k \in Keys :
    LET rows == {s \in snapshots : s.user = k[1] /\ s.batch = k[2]}
    IN  /\ Cardinality(rows) <= 1
        /\ marginAlerts[k] <= Cardinality({s \in rows : Alerting(s.m)})

(* The gates and the margin alerts, within the types and the exposure      *)
(* limit.                                                                  *)
RiskSafety == RiskTypeOK /\ GatesAgree /\ OneMarginAlert

(* Every batch is assessed for each of its users, through restarts, unless *)
(* an insert failed.                                                       *)
BatchesAssessed ==
  <>[](/\ riskOffset = Len(RiskBatches)
       /\ \A k \in Keys \ refused : k[1] \in RiskBatches[k[2]] => Conflicts(k[1], k[2]))
=============================================================================

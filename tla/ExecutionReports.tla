-------------------------- MODULE ExecutionReports --------------------------
(***************************************************************************)
(* The hedge side of the ledger: reconciliation of the execution reports   *)
(* of the venues with the execution intents of matching                    *)
(* (RememberExecutionIntent, ApplyExecutionReport).                        *)
(*                                                                         *)
(* Two consumer threads share the mutex of the ledger: one reads           *)
(* execution.intents, the other execution.reports and execution.venue,     *)
(* which carry the same reports.  A report may arrive before its intent;   *)
(* it then waits in pending_execution_reports_.  Venues repeat and reorder *)
(* reports, so a consumer may take any message of its topics next.  The    *)
(* offset is committed after the handler; what was not committed comes     *)
(* back after a restart, and the in-memory state does not.                 *)
(*                                                                         *)
(* An intent id stands for itself; the fields that a report must share     *)
(* with its intent (venue, instrument, venue symbol, client order id) are  *)
(* one value, `plan'.  Every venue trades one base against one quote       *)
(* currency, in which fees are paid.                                       *)
(***************************************************************************)
EXTENDS Integers, Sequences, FiniteSets, FiniteSetsExt, Functions

CONSTANTS
  Intents, Venues,
  IntentInfo,   \* Intents -> [venue, plan, side, target, limit]; limit 0: none
  ReportSet,    \* the ExecutionReports the venues may send
  None,
  MaxPgFaults,  \* bound on PG statements that fail
  MaxCrashes    \* bound on restarts of the ledger

Statuses == {"UNSPECIFIED", "NEW", "PARTIALLY_FILLED", "FILLED", "CANCELLED",
             "REJECTED", "EXPIRED", "OVERFILL_GUARD", "UNDERFILLED"}

NoFee == -1     \* a report without fee_total

ASSUME ReportsAssumption ==
  /\ \A i \in Intents : /\ IntentInfo[i].venue \in Venues
                        /\ IntentInfo[i].side \in {"BUY", "SELL"}
                        /\ IntentInfo[i].target \in Nat
                        /\ IntentInfo[i].limit \in Nat
  /\ \A r \in ReportSet : /\ r.intent \in Intents
                          /\ r.status \in Statuses
                          /\ r.error \in BOOLEAN
                          /\ r.filled \in Nat
                          /\ r.remaining \in Nat
                          /\ r.avg \in Nat
                          /\ r.fee \in Nat \cup {NoFee}
  /\ \A r, q \in ReportSet : r.id = q.id => r = q    \* uuid_v4 report ids
  /\ None \notin Intents
  /\ MaxPgFaults \in Nat
  /\ MaxCrashes \in Nat

(* execution_state_key: the intent and the venue order.                    *)
Key(r) == <<r.intent, r.order>>
Keys == {Key(r) : r \in ReportSet}

Topics == {"execution.venue", "execution.reports"}
Messages == Topics \X ReportSet
NoMessage == <<>>

VARIABLES
  execution_intents,          \* intents the ledger knows
  pending_execution_reports,  \* Intents -> Seq(ReportSet)
  execution_states,           \* Keys -> [status, filled, avg, fee]
  seen_execution_report_keys,
  venue_balances,             \* Venues -> [base, quote]
  hedge_pnl_summary,          \* Venues -> Int
  flushing,                   \* pending reports being replayed, mutex held
  hedgeflows,                 \* PG hedgeflows: Intents -> [open, pnl, fee]
  intentInbox, reportInbox,   \* messages whose offset is not committed
  intentConsumer,             \* the intent being handled, or None
  reportConsumer,             \* the report message handled, or NoMessage
  pgFaults, crashes

books == <<execution_states, venue_balances, hedge_pnl_summary>>
queues == <<execution_intents, pending_execution_reports,
            seen_execution_report_keys, flushing>>
topics == <<intentInbox, reportInbox, intentConsumer, reportConsumer>>
reportVars == <<books, queues, hedgeflows, topics, pgFaults, crashes>>
-----------------------------------------------------------------------------
NormalizeStatus(r) ==
  IF r.status \notin {"NEW", "UNSPECIFIED"} THEN r.status
  ELSE IF r.error THEN "REJECTED"
  ELSE IF r.filled > 0 /\ r.remaining > 0 THEN "PARTIALLY_FILLED"
  ELSE IF r.filled > 0 THEN "FILLED"
  ELSE r.status

TerminalStatuses == {"FILLED", "CANCELLED", "REJECTED", "EXPIRED"}

AllowedTransition(prev, next) ==
  \/ prev = "UNSPECIFIED"
  \/ prev = next
  \/ prev = "NEW" /\ next \in TerminalStatuses \cup {"PARTIALLY_FILLED"}
  \/ prev = "PARTIALLY_FILLED" /\ next \in {"FILLED", "CANCELLED"}

State(r) == execution_states[Key(r)]

Mismatch(r) == r.plan # IntentInfo[r.intent].plan

ExceedsPlan(r) == r.filled > IntentInfo[r.intent].target

(* Mutation: a stale cumulative quantity is taken.                         *)
NeverRegressed(r) == FALSE
Regressed(r) == r.filled < State(r).filled

Accepted(r) ==
  /\ ~Mismatch(r)
  /\ ~ExceedsPlan(r)
  /\ ~Regressed(r)
  /\ AllowedTransition(State(r).status, NormalizeStatus(r))

(* What the report adds to the quantity.                                   *)
DeltaQty(r) == r.filled - State(r).filled

(* The fee that was not charged yet.                                       *)
FeeDelta(r) == IF r.fee > State(r).fee THEN r.fee - State(r).fee ELSE 0

SaveState(r) ==
  [status |-> NormalizeStatus(r), filled |-> r.filled, avg |-> r.avg,
   fee |-> IF r.fee = NoFee THEN State(r).fee ELSE r.fee]

(* Signed for the exchange: +1 when it buys on the venue.                  *)
SideSign(i) == IF IntentInfo[i].side = "BUY" THEN 1 ELSE -1

InternalPrice(r) ==
  IF IntentInfo[r.intent].limit # 0 THEN IntentInfo[r.intent].limit ELSE r.avg

(* calculate_hedge_pnl.                                                    *)
HedgePnl(r) ==
  -SideSign(r.intent) * (r.avg - InternalPrice(r)) * DeltaQty(r)

(* PostgresHedgeflowPnlSink::UpdateHedgePnlDelta, called with the PnL of   *)
(* the delta and the fee_total of the report.  It updates the row that     *)
(* venues inserted (open), if there is one; an error is swallowed.         *)
UpdateHedgePnlDelta(r) ==
  \/ /\ hedgeflows[r.intent].open
     /\ hedgeflows' = [hedgeflows EXCEPT ![r.intent] =
          [open |-> TRUE,
           pnl |-> @.pnl + HedgePnl(r),
           fee |-> @.fee + (IF r.fee = NoFee THEN 0 ELSE r.fee)]]
     /\ UNCHANGED pgFaults
  \/ /\ ~hedgeflows[r.intent].open
     /\ UNCHANGED <<hedgeflows, pgFaults>>
  \/ /\ pgFaults < MaxPgFaults
     /\ pgFaults' = pgFaults + 1
     /\ UNCHANGED hedgeflows

(* apply_execution_report_locked.                                          *)
ApplyReportLocked(r) ==
  LET v == IntentInfo[r.intent].venue
      d == SideSign(r.intent) * DeltaQty(r)
  IN
  \/ /\ ~Accepted(r)
     /\ UNCHANGED <<books, hedgeflows, pgFaults>>
  \/ /\ Accepted(r)
     /\ execution_states' = [execution_states EXCEPT ![Key(r)] = SaveState(r)]
     /\ \/ /\ DeltaQty(r) <= 0
           /\ UNCHANGED <<venue_balances, hedge_pnl_summary, hedgeflows, pgFaults>>
        \/ /\ DeltaQty(r) > 0
           /\ venue_balances' = [venue_balances EXCEPT ![v] =
                [base |-> @.base + d, quote |-> @.quote - d * r.avg - FeeDelta(r)]]
           /\ hedge_pnl_summary' = [hedge_pnl_summary EXCEPT ![v] = @ + HedgePnl(r)]
           /\ UpdateHedgePnlDelta(r)
-----------------------------------------------------------------------------
InitBooks(s, b, p) ==
  /\ s = [k \in Keys |-> [status |-> "UNSPECIFIED", filled |-> 0, avg |-> 0, fee |-> 0]]
  /\ b = [v \in Venues |-> [base |-> 0, quote |-> 0]]
  /\ p = [v \in Venues |-> 0]

InitQueues(i, p, s, f) ==
  /\ i = {}
  /\ p = [x \in Intents |-> << >>]
  /\ s = {}
  /\ f = << >>

InitLedger(opened) ==
  /\ InitBooks(execution_states, venue_balances, hedge_pnl_summary)
  /\ InitQueues(execution_intents, pending_execution_reports,
                seen_execution_report_keys, flushing)
  /\ hedgeflows = [i \in Intents |-> [open |-> i \in opened, pnl |-> 0, fee |-> 0]]
  /\ intentConsumer = None
  /\ reportConsumer = NoMessage
  /\ pgFaults = 0
  /\ crashes = 0

(* Every message is in its topic from the start: a consumer that takes     *)
(* any of them next sees every order of publication.  Venues insert the    *)
(* hedgeflows row of an intent before they publish a report of it.         *)
Init ==
  /\ InitLedger(Intents)
  /\ intentInbox = Intents
  /\ reportInbox = Messages

ClearPending(i) == [pending_execution_reports EXCEPT ![i] = << >>]

Locked == flushing # << >>

(* RememberExecutionIntent: the reports that came first are replayed one   *)
(* by one (ReplayPending) before the mutex is released.                    *)
RememberExecutionIntent(i) ==
  /\ intentConsumer = None /\ ~Locked
  /\ i \in intentInbox
  /\ intentConsumer' = i
  /\ execution_intents' = execution_intents \cup {i}
  /\ flushing' = pending_execution_reports[i]
  /\ pending_execution_reports' = ClearPending(i)
  /\ UNCHANGED <<books, seen_execution_report_keys, hedgeflows, intentInbox,
                 reportInbox, reportConsumer, pgFaults, crashes>>

ReplayPending ==
  /\ Locked
  /\ ApplyReportLocked(Head(flushing))
  /\ flushing' = Tail(flushing)
  /\ UNCHANGED <<execution_intents, pending_execution_reports,
                 seen_execution_report_keys, topics, crashes>>

CommitIntent ==
  /\ intentConsumer # None /\ ~Locked
  /\ intentInbox' = intentInbox \ {intentConsumer}
  /\ intentConsumer' = None
  /\ UNCHANGED <<books, queues, hedgeflows, reportInbox, reportConsumer,
                 pgFaults, crashes>>

UnknownIntent(i) == i \notin execution_intents

(* ApplyExecutionReport: a report seen before is dropped, one without a    *)
(* known intent is queued, any other is applied.                           *)
ApplyExecutionReport(m) ==
  LET r == m[2] IN
  /\ reportConsumer = NoMessage /\ ~Locked
  /\ m \in reportInbox
  /\ reportConsumer' = m
  /\ seen_execution_report_keys' = seen_execution_report_keys \cup {r.id}
  /\ \/ /\ r.id \in seen_execution_report_keys
        /\ UNCHANGED <<pending_execution_reports, books, hedgeflows, pgFaults>>
     \/ /\ r.id \notin seen_execution_report_keys
        /\ UnknownIntent(r.intent)
        /\ pending_execution_reports' =
             [pending_execution_reports EXCEPT ![r.intent] = Append(@, r)]
        /\ UNCHANGED <<books, hedgeflows, pgFaults>>
     \/ /\ r.id \notin seen_execution_report_keys
        /\ ~UnknownIntent(r.intent)
        /\ ApplyReportLocked(r)
        /\ UNCHANGED pending_execution_reports
  /\ UNCHANGED <<execution_intents, flushing, intentInbox, reportInbox,
                 intentConsumer, crashes>>

CommitReport ==
  /\ reportConsumer # NoMessage
  /\ reportInbox' = reportInbox \ {reportConsumer}
  /\ reportConsumer' = NoMessage
  /\ UNCHANGED <<books, queues, hedgeflows, intentInbox, intentConsumer,
                 pgFaults, crashes>>

(* A restart loses the in-memory state; uncommitted messages come again.   *)
Crash ==
  /\ crashes < MaxCrashes
  /\ crashes' = crashes + 1
  /\ InitBooks(execution_states', venue_balances', hedge_pnl_summary')
  /\ InitQueues(execution_intents', pending_execution_reports',
                seen_execution_report_keys', flushing')
  /\ intentConsumer' = None
  /\ reportConsumer' = NoMessage
  /\ UNCHANGED <<hedgeflows, intentInbox, reportInbox, pgFaults>>

IntentThread == (\E i \in intentInbox : RememberExecutionIntent(i))
                \/ ReplayPending \/ CommitIntent
ReportThread == (\E m \in reportInbox : ApplyExecutionReport(m)) \/ CommitReport

Next == IntentThread \/ ReportThread \/ Crash

Spec == Init /\ [][Next]_reportVars
-----------------------------------------------------------------------------
(* Types; a quantity that was accepted never exceeds the target of its     *)
(* intent.                                                                 *)
TypeOK ==
  /\ execution_intents \subseteq Intents
  /\ pending_execution_reports \in [Intents -> Seq(ReportSet)]
  /\ execution_states \in [Keys -> [status : Statuses, filled : Nat, avg : Nat, fee : Nat]]
  /\ \A k \in Keys : execution_states[k].filled <= IntentInfo[k[1]].target
  /\ seen_execution_report_keys \subseteq {r.id : r \in ReportSet}
  /\ venue_balances \in [Venues -> [base : Int, quote : Int]]
  /\ hedge_pnl_summary \in [Venues -> Int]
  /\ flushing \in Seq(ReportSet)
  /\ hedgeflows \in [Intents -> [open : BOOLEAN, pnl : Int, fee : Nat]]
  /\ intentInbox \subseteq Intents
  /\ reportInbox \subseteq Messages
  /\ intentConsumer \in Intents \cup {None}
  /\ reportConsumer \in Messages \cup {NoMessage}
  /\ pgFaults \in 0 .. MaxPgFaults
  /\ crashes \in 0 .. MaxCrashes

(* A report never waits for an intent the ledger already knows, whichever  *)
(* of the two consumer threads was first.                                  *)
NoStrandedReports ==
  \A i \in Intents : pending_execution_reports[i] # << >> => i \notin execution_intents

(* The venue orders of a venue that filled something.                      *)
Booked(v) == {k \in Keys : IntentInfo[k[1]].venue = v /\ execution_states[k].filled # 0}

(* What the venue orders filled, signed by their side.                     *)
SignedFills == [k \in Keys |-> SideSign(k[1]) * execution_states[k].filled]

(* The base balance of a venue is the sum of what its orders filled: no    *)
(* report counts twice or not at all.                                      *)
BaseMatchesStates ==
  \A v \in Venues : venue_balances[v].base = SumFunctionOnSet(SignedFills, Booked(v))

(* The reports of a venue order that fit the plan of their intent.         *)
Planned(k) == {r \in ReportSet : Key(r) = k /\ ~Mismatch(r) /\ ~ExceedsPlan(r)}

(* A report is settled when it was handled and does not wait any more.     *)
Waiting(r) == \/ \E n \in DOMAIN flushing : flushing[n] = r
              \/ \E n \in DOMAIN pending_execution_reports[r.intent] :
                    pending_execution_reports[r.intent][n] = r
Settled(r) == r.id \in seen_execution_report_keys /\ ~Waiting(r)

(* A venue that reports more for an order than before does so with a       *)
(* status that may follow the one before.                                  *)
VenueConsistent ==
  \A k \in Keys : \A q, r \in Planned(k) :
    q.filled < r.filled => AllowedTransition(NormalizeStatus(q), NormalizeStatus(r))

(* Reports of a consistent venue, in whatever order, once or twice, before *)
(* or after their intent: a settled report is never ahead of the ledger,   *)
(* which therefore ends with the highest quantity of each venue order.     *)
QuantityConverges ==
  VenueConsistent =>
    \A k \in Keys : \A r \in Planned(k) :
      Settled(r) => r.filled <= execution_states[k].filled

(* Whatever the two consumer threads, repeated reports and restarts do: no *)
(* report waits for an intent the ledger knows, what was settled is in the *)
(* execution states, and every venue's base balance is the sum of them.    *)
ReportsSafety == NoStrandedReports /\ QuantityConverges /\ BaseMatchesStates
=============================================================================

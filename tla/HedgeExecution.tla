--------------------------- MODULE HedgeExecution ---------------------------
(***************************************************************************)
(* The execution of hedge intents by the venues service, composed with the *)
(* ledger that books the reports (ExecutionReports).                       *)
(*                                                                         *)
(* Matching publishes an intent to execution.intents, which the ledger and *)
(* the exec_consume_loop of venues read in consumer groups of their own.   *)
(* The loop writes the hedgeflows and child_orders rows, sends the order   *)
(* to the venue, publishes the report to two topics, applies it to the     *)
(* rows and commits the offset.  A restart of venues can hit between any   *)
(* two of these steps; the intent then comes again, unless the group has   *)
(* no committed offset yet (auto_offset_reset "latest").                   *)
(*                                                                         *)
(* The venue is a CEX behind CexWsRestAdapter with real orders: the        *)
(* adapter sends no client order id, so every attempt is a new order.  The *)
(* topic has one partition.                                                *)
(***************************************************************************)
EXTENDS ExecutionReports

CONSTANTS
  Modes,            \* routing decisions of the sim router that may occur
  VenueStatuses,    \* order statuses the venue may answer
  MaxLost,          \* bound on Kafka produces of reports that fail
  MaxExecCrashes    \* bound on restarts of venues

(* An order that fails before or after it reached the venue.               *)
Failures == {"no_contact", "answer_lost"}
Outcomes == VenueStatuses \cup Failures
Attempts == 1 .. MaxExecCrashes + 1

(* The result of CexWsRestAdapter::SendOrder and the report of             *)
(* make_execution_report: an answered order counts as filled in full at    *)
(* its limit whatever its status.  A report without a venue order id is    *)
(* keyed by the client order id, the same for each attempt (0).            *)
MakeExecutionReport(i, n, o) ==
  LET answered == o \in VenueStatuses IN
  [id |-> <<i, n, o>>, intent |-> i, plan |-> IntentInfo[i].plan,
   order |-> <<i, IF answered THEN n ELSE 0>>,
   status |-> IF answered THEN o ELSE "REJECTED",
   error |-> ~answered,
   filled |-> IF answered THEN IntentInfo[i].target ELSE 0,
   remaining |-> 0,
   avg |-> IF answered THEN IntentInfo[i].limit ELSE 0,
   fee |-> NoFee]

(* ExecutionReportProducer::Normalize.  Mutation: the status is kept.      *)
KeepStatus(r) == r.status
Normalize(r) ==
  IF r.status \notin {"NEW", "UNSPECIFIED"} THEN r.status
  ELSE IF r.error THEN "REJECTED"
  ELSE IF r.filled > 0 /\ r.remaining > 0 THEN "PARTIALLY_FILLED"
  ELSE IF r.filled > 0 THEN "FILLED"
  ELSE r.status

Report(i, n, o) ==
  LET r == MakeExecutionReport(i, n, o) IN [r EXCEPT !.status = Normalize(r)]

(* What the ledger may be sent: the value of ReportSet in this system.     *)
ExecutionReportSet == {Report(i, n, o) : i \in Intents, n \in Attempts, o \in Outcomes}

ASSUME HedgeAssumption ==
  /\ Modes \subseteq {"LIVE_ONLY", "SHADOW", "SIM_ONLY"}
  /\ VenueStatuses \subseteq Statuses
  /\ \A i \in Intents : IntentInfo[i].target > 0     \* CHECK (target_qty > 0)
  /\ ExecutionReportSet \subseteq ReportSet
  /\ MaxLost \in Nat
  /\ MaxExecCrashes \in Nat

VARIABLES
  published,    \* intents matching sent
  execInbox,    \* intents venues has not committed
  committed,    \* the group of venues has a committed offset
  execPc,       \* next step of the handler of exec_consume_loop
  execIntent, execMode, execReport,
  attempts,     \* Intents -> how often the loop took the intent
  atVenue,      \* Intents -> orders that reached the venue
  executed,     \* Intents -> quantity the venue executed
  flows,        \* PG hedgeflows, the columns of venues: [filled, status]
  children,     \* PG child_orders: [placed, filled, status]
  simReports,   \* intents simulated on sim.execution.venue
  lost, execCrashes

handler == <<execPc, execIntent, execMode, execReport>>
venue == <<attempts, atVenue, executed>>
rows == <<flows, children>>
venuesVars == <<published, execInbox, committed, handler, venue, rows,
                simReports, lost, execCrashes>>
ledgerVars == <<books, queues, reportInbox, intentInbox, intentConsumer,
                reportConsumer, crashes>>
hedgeVars == <<reportVars, venuesVars>>

NoReport == <<>>
-----------------------------------------------------------------------------
(* ReportStatusToHedgeFlowStatus.                                          *)
FlowStatus(s) ==
  CASE s \in {"FILLED", "OVERFILL_GUARD"} -> "COMPLETED"
    [] s \in {"CANCELLED", "EXPIRED"}     -> "CANCELLED"
    [] s \in {"UNDERFILLED", "REJECTED"}  -> s
    [] OTHER                              -> "OPEN"

FlowTerminal == {"COMPLETED", "UNDERFILLED", "REJECTED", "CANCELLED", "RISK_REJECTED"}

(* ReportStatusToChildOrderStatus.                                         *)
ChildStatus(s) ==
  CASE s \in {"FILLED", "PARTIALLY_FILLED", "REJECTED"} -> s
    [] s \in {"NEW", "UNSPECIFIED"}                     -> "PENDING"
    [] OTHER                                            -> "CANCELLED"

(* CHECK (filled_qty <= target_qty * 1.01).                                *)
WithinTarget(i, q) == 100 * q <= 101 * IntentInfo[i].target

(* The status column: a terminal status stays.                             *)
StickyStatus(i, r) ==
  IF flows[i].status \in FlowTerminal THEN flows[i].status ELSE FlowStatus(r.status)

(* The exec_consume_loop of venues when it starts, with a new consumer     *)
(* group or an old one.                                                    *)
InitVenues ==
  /\ published = {} /\ execInbox = {} /\ simReports = {}
  /\ committed \in BOOLEAN
  /\ execPc = "idle" /\ execIntent = None /\ execMode = "LIVE_ONLY"
  /\ execReport = NoReport
  /\ attempts = [i \in Intents |-> 0]
  /\ atVenue = [i \in Intents |-> 0]
  /\ executed = [i \in Intents |-> 0]
  /\ flows = [i \in Intents |-> [filled |-> 0, status |-> "OPEN"]]
  /\ children = [i \in Intents |-> [placed |-> FALSE, filled |-> 0, status |-> "PENDING"]]
  /\ lost = 0 /\ execCrashes = 0

InitReports == InitLedger({}) /\ intentInbox = {} /\ reportInbox = {}

InitHedge == InitReports /\ InitVenues

PublishIntent(i) ==
  /\ i \notin published
  /\ published' = published \cup {i}
  /\ intentInbox' = intentInbox \cup {i}
  /\ execInbox' = execInbox \cup {i}
  /\ UNCHANGED <<books, queues, hedgeflows, reportInbox, intentConsumer,
                 reportConsumer, pgFaults, crashes, committed, handler, venue,
                 rows, simReports, lost, execCrashes>>

(* Only a SIM_ONLY intent skips the venue.  Mutation: SHADOW skips it too. *)
ShadowIsSim(mode) == IF mode = "LIVE_ONLY" THEN "insert_flow" ELSE "simulate"
Route(mode) == IF mode = "SIM_ONLY" THEN "simulate" ELSE "insert_flow"

(* The message is parsed and the sim router decides.                       *)
TakeIntent(i, mode) ==
  /\ execPc = "idle"
  /\ execIntent' = i
  /\ execMode' = mode
  /\ attempts' = [attempts EXCEPT ![i] = @ + 1]
  /\ execPc' = Route(mode)
  /\ UNCHANGED <<ledgerVars, hedgeflows, pgFaults, published, execInbox, committed,
                 execReport, atVenue, executed, rows, simReports, lost, execCrashes>>

(* A PG statement of the handler that fails is logged and skipped.         *)
Statement(next) ==
  /\ execPc' = next
  /\ UNCHANGED <<ledgerVars, published, execInbox, committed, execIntent, execMode,
                 execReport, venue, simReports, lost, execCrashes>>

StatementFails ==
  /\ pgFaults < MaxPgFaults
  /\ pgFaults' = pgFaults + 1
  /\ UNCHANGED <<hedgeflows, rows>>

(* INSERT INTO hedgeflows ... ON CONFLICT DO NOTHING.                      *)
InsertOpen ==
  /\ execPc = "insert_flow"
  /\ Statement("insert_child")
  /\ \/ /\ hedgeflows' = [hedgeflows EXCEPT ![execIntent].open = TRUE]
        /\ UNCHANGED <<rows, pgFaults>>
     \/ StatementFails

(* INSERT INTO child_orders ... ON CONFLICT DO NOTHING; the foreign key    *)
(* refuses it when there is no hedgeflows row.                             *)
InsertPending ==
  /\ execPc = "insert_child"
  /\ Statement("send")
  /\ \/ /\ children' = [children EXCEPT ![execIntent].placed =
                          @ \/ hedgeflows[execIntent].open]
        /\ UNCHANGED <<hedgeflows, flows, pgFaults>>
     \/ StatementFails

(* What the venue executed by the time it answers with a status.           *)
ExecutedBy(i, o) ==
  CASE o = "FILLED"           -> {IntentInfo[i].target}
    [] o = "PARTIALLY_FILLED" -> 1 .. IntentInfo[i].target - 1
    [] o \in {"CANCELLED", "EXPIRED"} -> 0 .. IntentInfo[i].target - 1
    [] o = "answer_lost"      -> 0 .. IntentInfo[i].target
    [] OTHER                  -> {0}

(* ExecuteOnVenue::Run.  An order that was not answered may or may not     *)
(* rest at the venue.                                                      *)
SendOrder(o, reached, q) ==
  /\ execPc = "send"
  /\ o \in VenueStatuses => reached
  /\ o = "no_contact" => ~reached
  /\ ~reached => q = 0
  /\ execPc' = "execution.venue"
  /\ execReport' = Report(execIntent, attempts[execIntent], o)
  /\ atVenue' = [atVenue EXCEPT ![execIntent] = IF reached THEN @ + 1 ELSE @]
  /\ executed' = [executed EXCEPT ![execIntent] = @ + q]
  /\ UNCHANGED <<ledgerVars, hedgeflows, pgFaults, published, execInbox, committed,
                 execIntent, execMode, attempts, rows, simReports, lost, execCrashes>>

(* ExecutionReportProducer::Publish, one topic at a time.  The result of a *)
(* produce is ignored.                                                     *)
Publish(topic, next) ==
  /\ execPc = topic
  /\ execPc' = next
  /\ \/ /\ reportInbox' = reportInbox \cup {<<topic, execReport>>}
        /\ UNCHANGED lost
     \/ /\ lost < MaxLost
        /\ lost' = lost + 1
        /\ UNCHANGED reportInbox
  /\ UNCHANGED <<books, queues, intentInbox, intentConsumer, reportConsumer, crashes,
                 hedgeflows, pgFaults, published, execInbox, committed, execIntent,
                 execMode, execReport, venue, rows, simReports, execCrashes>>

(* UPDATE child_orders: the last report overwrites.                        *)
ApplyReportToChild ==
  /\ execPc = "apply_child"
  /\ Statement("apply_flow")
  /\ \/ /\ children[execIntent].placed
        /\ children' = [children EXCEPT ![execIntent] =
             [placed |-> TRUE, filled |-> execReport.filled,
              status |-> ChildStatus(execReport.status)]]
        /\ UNCHANGED <<hedgeflows, flows, pgFaults>>
     \/ /\ ~children[execIntent].placed
        /\ UNCHANGED <<hedgeflows, rows, pgFaults>>
     \/ StatementFails

(* UPDATE hedgeflows: the quantity is added, a terminal status stays; the  *)
(* constraint refuses the whole statement.                                 *)
ApplyReportToFlow ==
  LET i == execIntent
      q == flows[i].filled + execReport.filled IN
  /\ execPc = "apply_flow"
  /\ Statement(IF execMode = "SHADOW" THEN "simulate" ELSE "commit")
  /\ \/ /\ hedgeflows[i].open /\ WithinTarget(i, q)
        /\ flows' = [flows EXCEPT ![i] = [filled |-> q, status |-> StickyStatus(i, execReport)]]
        /\ UNCHANGED <<hedgeflows, children, pgFaults>>
     \/ /\ ~(hedgeflows[i].open /\ WithinTarget(i, q))
        /\ UNCHANGED <<hedgeflows, rows, pgFaults>>
     \/ StatementFails

(* PublishSimExecution: only sim.* topics.                                 *)
PublishSimExecution ==
  /\ execPc = "simulate"
  /\ execPc' = "commit"
  /\ simReports' = simReports \cup {execIntent}
  /\ UNCHANGED <<ledgerVars, hedgeflows, pgFaults, published, execInbox, committed,
                 execIntent, execMode, execReport, venue, rows, lost, execCrashes>>

(* Mutation: a message is retried once a PG statement failed.              *)
Uncommitted(i) == IF pgFaults > 0 THEN execInbox ELSE execInbox \ {i}
AfterCommit(i) == execInbox \ {i}

CommitExec ==
  /\ execPc = "commit"
  /\ execPc' = "idle"
  /\ execInbox' = AfterCommit(execIntent)
  /\ committed' = TRUE
  /\ execIntent' = None
  /\ execReport' = NoReport
  /\ UNCHANGED <<ledgerVars, hedgeflows, pgFaults, published, execMode, venue,
                 rows, simReports, lost, execCrashes>>

(* A restart of venues.  With no committed offset the group starts at the  *)
(* end of the topic.                                                       *)
ExecCrash ==
  /\ execCrashes < MaxExecCrashes
  /\ execCrashes' = execCrashes + 1
  /\ execPc' = "idle" /\ execIntent' = None /\ execReport' = NoReport
  /\ execInbox' = IF committed THEN execInbox ELSE {}
  /\ UNCHANGED <<ledgerVars, hedgeflows, pgFaults, published, committed, execMode,
                 venue, rows, simReports, lost>>

ExecThread ==
  \/ \E i \in execInbox, mode \in Modes : TakeIntent(i, mode)
  \/ InsertOpen
  \/ InsertPending
  \/ \E o \in Outcomes, reached \in BOOLEAN :
       execIntent # None /\ \E q \in ExecutedBy(execIntent, o) : SendOrder(o, reached, q)
  \/ Publish("execution.venue", "execution.reports")
  \/ Publish("execution.reports", "apply_child")
  \/ ApplyReportToChild
  \/ ApplyReportToFlow
  \/ PublishSimExecution
  \/ CommitExec

LedgerThreads == (IntentThread \/ ReportThread \/ Crash) /\ UNCHANGED venuesVars

NextHedge ==
  \/ \E i \in Intents : PublishIntent(i)
  \/ ExecThread
  \/ ExecCrash
  \/ LedgerThreads

HedgeSpec == InitHedge /\ [][NextHedge]_hedgeVars
-----------------------------------------------------------------------------
ExecPcs == {"idle", "insert_flow", "insert_child", "send", "execution.venue",
            "execution.reports", "apply_child", "apply_flow", "simulate", "commit"}

(* The handler holds a report from SendOrder to the commit.                *)
Reporting == {"execution.venue", "execution.reports", "apply_child", "apply_flow"}

(* Types; the rows keep to the constraint of the table whatever is         *)
(* delivered twice.                                                        *)
HedgeTypeOK ==
  /\ TypeOK
  /\ published \subseteq Intents
  /\ execInbox \subseteq published
  /\ committed \in BOOLEAN
  /\ execPc \in ExecPcs
  /\ execIntent \in Intents \cup {None}
  /\ execPc = "idle" <=> execIntent = None
  /\ execMode \in Modes \cup {"LIVE_ONLY"}
  /\ execReport \in ReportSet \cup {NoReport}
  /\ execPc \in Reporting => execReport \in ReportSet
  /\ attempts \in [Intents -> Nat]
  /\ atVenue \in [Intents -> Nat]
  /\ executed \in [Intents -> Nat]
  /\ flows \in [Intents -> [filled : Nat, status : FlowTerminal \cup {"OPEN"}]]
  /\ \A i \in Intents : 100 * flows[i].filled <= 101 * IntentInfo[i].target
  /\ children \in [Intents -> [placed : BOOLEAN, filled : Nat,
        status : {"PENDING", "FILLED", "PARTIALLY_FILLED", "CANCELLED", "REJECTED"}]]
  /\ simReports \subseteq Intents
  /\ lost \in 0 .. MaxLost
  /\ execCrashes \in 0 .. MaxExecCrashes

(* Every delivery of an intent may place one more order at the venue, and  *)
(* only a restart of venues delivers it again: the exchange is hedged at   *)
(* most once more than venues was restarted.                               *)
HedgeBounded ==
  \A i \in Intents : /\ atVenue[i] <= 1 + execCrashes
                     /\ executed[i] <= (1 + execCrashes) * IntentInfo[i].target

(* The table's constraint and the bound on orders, whatever is delivered   *)
(* twice.                                                                  *)
HedgeSafety == HedgeTypeOK /\ HedgeBounded

(* All messages are handled.                                               *)
Rest == /\ execPc = "idle" /\ execInbox = {}
        /\ intentInbox = {} /\ reportInbox = {}

(* What the ledger booked for an intent, over all its venue orders.        *)
Fills == [k \in Keys |-> execution_states[k].filled]
FilledOrders(i) == {k \in Keys : k[1] = i /\ execution_states[k].filled # 0}
LedgerFilled(i) == SumFunctionOnSet(Fills, FilledOrders(i))

(* Three books of one hedge, kept by two services, agree when nothing is   *)
(* under way and nothing failed but one produce: hedgeflows and            *)
(* child_orders of venues and the execution states of the ledger, in       *)
(* quantity and in status.                                                 *)
BooksAgree ==
  (Rest /\ lost <= 1 /\ pgFaults = 0 /\ execCrashes = 0 /\ crashes = 0) =>
    \A i \in published :
      /\ flows[i].filled = LedgerFilled(i)
      /\ children[i].filled = LedgerFilled(i)
      /\ \A k \in Keys : (k[1] = i /\ execution_states[k].status # "UNSPECIFIED") =>
           /\ flows[i].status = FlowStatus(execution_states[k].status)
           /\ children[i].status = ChildStatus(execution_states[k].status)

(* Restarts of venues, PG failures and the loss of one copy of a report    *)
(* never leave a fill in hedgeflows that the ledger did not book.          *)
FlowNeverAheadOfLedger ==
  (Rest /\ lost <= 1 /\ crashes = 0) => \A i \in published : flows[i].filled <= LedgerFilled(i)

(* The books of a hedge, kept by two services: at rest hedgeflows,         *)
(* child_orders and the execution states of the ledger agree if nothing    *)
(* failed but a produce, and hedgeflows is never ahead of the ledger if    *)
(* something did.                                                          *)
HedgeBooks == BooksAgree /\ FlowNeverAheadOfLedger

(* filled_qty of a report is what was filled: hedgeflows shows no more     *)
(* than the venue executed by the time of its answers.                     *)
FillsAreReal == \A i \in Intents : flows[i].filled <= executed[i]
=============================================================================

---------------------------- MODULE HedgeProofs ----------------------------
(* Theorems about ExecutionReports (types, the pending queue, and that the *)
(* order in which reports arrive does not matter) and about HedgeExecution *)
(* (types across the two services, how often a hedge can be executed, that *)
(* the guarantee of the pending queue survives the composition, and that   *)
(* the books of venues and of the ledger agree at rest).                   *)
EXTENDS HedgeExecution, InductionLemmas

(* What the assumptions say of one report.                                 *)
LEMMA ReportType ==
  ASSUME NEW r \in ReportSet
  PROVE  /\ r.intent \in Intents
         /\ Key(r) \in Keys
         /\ NormalizeStatus(r) \in Statuses
         /\ r.filled \in Nat /\ r.avg \in Nat
         /\ r.fee \in Nat \cup {NoFee}
         /\ IntentInfo[r.intent].venue \in Venues
         /\ IntentInfo[r.intent].target \in Nat
         /\ IntentInfo[r.intent].limit \in Nat
         /\ SideSign(r.intent) \in Int
         /\ InternalPrice(r) \in Nat
BY ReportsAssumption DEF Key, Keys, NormalizeStatus, Statuses, SideSign, InternalPrice

(* The record that SaveState stores is a state within the plan.            *)
LEMMA SaveStateType ==
  ASSUME TypeOK, NEW r \in ReportSet
  PROVE  /\ SaveState(r) \in [status : Statuses, filled : Nat, avg : Nat, fee : Nat]
         /\ SaveState(r).status = NormalizeStatus(r)
         /\ SaveState(r).filled = r.filled
         /\ State(r).filled \in Nat
         /\ DeltaQty(r) \in Int
         /\ FeeDelta(r) \in Int
         /\ HedgePnl(r) \in Int
<1>1. /\ Key(r) \in Keys /\ NormalizeStatus(r) \in Statuses
      /\ r.filled \in Nat /\ r.avg \in Nat /\ r.fee \in Nat \cup {NoFee}
      /\ SideSign(r.intent) \in Int /\ InternalPrice(r) \in Nat
  BY ReportType
<1>2. /\ State(r) \in [status : Statuses, filled : Nat, avg : Nat, fee : Nat]
  BY <1>1 DEF TypeOK, State
<1>3. State(r).filled \in Nat /\ State(r).fee \in Nat
  BY <1>2
<1>4. DeltaQty(r) \in Int
  BY <1>1, <1>3 DEF DeltaQty
<1>5. FeeDelta(r) \in Int
  BY <1>1, <1>3 DEF FeeDelta, NoFee
<1>6. HedgePnl(r) \in Int
  <2> DEFINE a == SideSign(r.intent)
             b == r.avg - InternalPrice(r)
             c == DeltaQty(r)
  <2>1. a \in Int /\ b \in Int /\ c \in Int
    BY <1>1, <1>4
  <2>2. HedgePnl(r) = -a * b * c
    BY DEF HedgePnl
  <2> HIDE DEF a, b, c
  <2> QED
    BY <2>1, <2>2
<1>7. /\ SaveState(r) \in [status : Statuses, filled : Nat, avg : Nat, fee : Nat]
      /\ SaveState(r).status = NormalizeStatus(r)
      /\ SaveState(r).filled = r.filled
  BY <1>1, <1>3 DEF SaveState, NoFee
<1> QED
  BY <1>3, <1>4, <1>5, <1>6, <1>7

(* Applying one report keeps the types of the books and of the PG row.     *)
LEMMA ApplyType ==
  ASSUME TypeOK, NEW r \in ReportSet, ApplyReportLocked(r)
  PROVE  /\ execution_states' \in [Keys -> [status : Statuses, filled : Nat, avg : Nat, fee : Nat]]
         /\ \A k \in Keys : execution_states'[k].filled <= IntentInfo[k[1]].target
         /\ venue_balances' \in [Venues -> [base : Int, quote : Int]]
         /\ hedge_pnl_summary' \in [Venues -> Int]
         /\ hedgeflows' \in [Intents -> [open : BOOLEAN, pnl : Int, fee : Nat]]
         /\ pgFaults' \in 0 .. MaxPgFaults
<1> USE ReportType, SaveStateType
<1>1. CASE ~Accepted(r)
  BY <1>1 DEF ApplyReportLocked, TypeOK, books
<1>2. CASE Accepted(r)
  <2>1. execution_states' = [execution_states EXCEPT ![Key(r)] = SaveState(r)]
    BY <1>2 DEF ApplyReportLocked
  <2>2. execution_states' \in [Keys -> [status : Statuses, filled : Nat, avg : Nat, fee : Nat]]
    BY <2>1 DEF TypeOK
  <2>3. \A k \in Keys : execution_states'[k].filled <= IntentInfo[k[1]].target
    <3> TAKE k \in Keys
    <3>1. CASE k = Key(r)
      <4>1. r.filled <= IntentInfo[r.intent].target
        BY <1>2 DEF Accepted, ExceedsPlan
      <4>2. k[1] = r.intent
        BY <3>1 DEF Key
      <4>3. execution_states'[k].filled = r.filled
        BY <2>1, <3>1 DEF TypeOK
      <4> QED
        BY <4>1, <4>2, <4>3
    <3>2. CASE k # Key(r)
      BY <2>1, <3>2 DEF TypeOK
    <3> QED
      BY <3>1, <3>2
  <2>4. CASE DeltaQty(r) <= 0
    <3>1. UNCHANGED <<venue_balances, hedge_pnl_summary, hedgeflows, pgFaults>>
      BY <1>2, <2>4 DEF ApplyReportLocked
    <3> QED
      BY <2>2, <2>3, <3>1 DEF TypeOK
  <2>5. CASE DeltaQty(r) > 0
    <3> DEFINE v == IntentInfo[r.intent].venue
               d == SideSign(r.intent) * DeltaQty(r)
               dq == d * r.avg
    <3>1. d \in Int
      BY ReportType, SaveStateType
    <3> HIDE DEF d
    <3>2. dq \in Int
      BY <3>1
    <3>3. /\ venue_balances' = [venue_balances EXCEPT ![v] =
                [base |-> @.base + d, quote |-> @.quote - dq - FeeDelta(r)]]
          /\ hedge_pnl_summary' = [hedge_pnl_summary EXCEPT ![v] = @ + HedgePnl(r)]
          /\ UpdateHedgePnlDelta(r)
      BY <1>2, <2>5 DEF ApplyReportLocked, d
    <3>a. /\ v \in Venues /\ r.intent \in Intents
          /\ FeeDelta(r) \in Int /\ HedgePnl(r) \in Int
          /\ r.fee \in Nat \cup {NoFee}
      BY ReportType, SaveStateType
    <3> HIDE DEF dq, v
    <3> DEFINE fd == FeeDelta(r)
               hp == HedgePnl(r)
               b  == venue_balances[v]
               h  == hedgeflows[r.intent]
               fe == IF r.fee = NoFee THEN 0 ELSE r.fee
    <3>b. fd \in Int /\ hp \in Int /\ fe \in Nat
      BY <3>a DEF NoFee
    <3>c. /\ b \in [base : Int, quote : Int]
          /\ h \in [open : BOOLEAN, pnl : Int, fee : Nat]
      BY <3>a DEF TypeOK
    <3>4. venue_balances' \in [Venues -> [base : Int, quote : Int]]
      <4>1. venue_balances' = [venue_balances EXCEPT ![v] =
                [base |-> b.base + d, quote |-> b.quote - dq - fd]]
        BY <3>3
      <4> HIDE DEF fd, b
      <4>2. [base |-> b.base + d, quote |-> b.quote - dq - fd] \in [base : Int, quote : Int]
        BY <3>1, <3>2, <3>b, <3>c
      <4> QED
        BY <3>a, <4>1, <4>2 DEF TypeOK
    <3>5. hedge_pnl_summary' \in [Venues -> Int]
      <4>1. hedge_pnl_summary' = [hedge_pnl_summary EXCEPT ![v] = hedge_pnl_summary[v] + hp]
        BY <3>3
      <4> HIDE DEF hp
      <4>2. hedge_pnl_summary[v] + hp \in Int
        BY <3>a, <3>b DEF TypeOK
      <4> QED
        BY <3>a, <4>1, <4>2 DEF TypeOK
    <3>6. hedgeflows' \in [Intents -> [open : BOOLEAN, pnl : Int, fee : Nat]] /\ pgFaults' \in 0 .. MaxPgFaults
      <4>1. CASE /\ hedgeflows' = [hedgeflows EXCEPT ![r.intent] =
                      [open |-> TRUE, pnl |-> h.pnl + hp, fee |-> h.fee + fe]]
                 /\ UNCHANGED pgFaults
        <5> HIDE DEF hp, h, fe
        <5>1. [open |-> TRUE, pnl |-> h.pnl + hp, fee |-> h.fee + fe] \in [open : BOOLEAN, pnl : Int, fee : Nat]
          BY <3>b, <3>c
        <5> QED
          BY <3>a, <4>1, <5>1 DEF TypeOK
      <4>2. CASE pgFaults < MaxPgFaults /\ pgFaults' = pgFaults + 1 /\ UNCHANGED hedgeflows
        BY <4>2, ReportsAssumption DEF TypeOK
      <4>3. CASE UNCHANGED <<hedgeflows, pgFaults>>
        BY <4>3 DEF TypeOK
      <4> QED
        BY <3>3, <4>1, <4>2, <4>3 DEF UpdateHedgePnlDelta
    <3> QED
      BY <2>2, <2>3, <3>4, <3>5, <3>6
  <2> QED
    BY <2>4, <2>5
<1> QED
  BY <1>1, <1>2

LEMMA InitType == Init => TypeOK
BY ReportsAssumption
DEF Init, InitLedger, InitBooks, InitQueues, TypeOK, Statuses, Messages, Keys, Key

LEMMA NextType == TypeOK /\ [Next]_reportVars => TypeOK'
<1> SUFFICES ASSUME TypeOK, [Next]_reportVars PROVE TypeOK'
  OBVIOUS
<1>1. ASSUME NEW i \in intentInbox, RememberExecutionIntent(i) PROVE TypeOK'
  BY <1>1 DEF RememberExecutionIntent, ClearPending, TypeOK, books, queues, topics
<1>2. CASE ReplayPending
  <2>1. Head(flushing) \in ReportSet /\ Tail(flushing) \in Seq(ReportSet)
    BY <1>2 DEF ReplayPending, Locked, TypeOK
  <2>2. ApplyReportLocked(Head(flushing))
    BY <1>2 DEF ReplayPending
  <2> QED
    BY <1>2, <2>1, <2>2, ApplyType DEF ReplayPending, TypeOK, topics
<1>3. CASE CommitIntent
  BY <1>3 DEF CommitIntent, TypeOK, books, queues
<1>4. ASSUME NEW m \in reportInbox, ApplyExecutionReport(m) PROVE TypeOK'
  <2> DEFINE r == m[2]
  <2>1. m \in Messages /\ r \in ReportSet
    BY DEF TypeOK, Messages
  <2>2. r.intent \in Intents
    BY <2>1, ReportType
  <2> HIDE DEF r
  <2>3. /\ seen_execution_report_keys' \subseteq {q.id : q \in ReportSet}
        /\ reportConsumer' \in Messages \cup {NoMessage}
    BY <1>4, <2>1 DEF ApplyExecutionReport, TypeOK, r
  <2>4. pending_execution_reports' \in [Intents -> Seq(ReportSet)]
    <3>1. CASE UNCHANGED pending_execution_reports
      BY <3>1 DEF TypeOK
    <3>2. CASE pending_execution_reports' = [pending_execution_reports EXCEPT
                 ![r.intent] = Append(pending_execution_reports[r.intent], r)]
      <4>1. Append(pending_execution_reports[r.intent], r) \in Seq(ReportSet)
        BY <2>1, <2>2 DEF TypeOK
      <4> QED
        BY <2>2, <3>2, <4>1 DEF TypeOK
    <3> QED
      BY <1>4, <3>1, <3>2 DEF ApplyExecutionReport, r
  <2>5. UNCHANGED <<execution_intents, flushing, intentInbox, reportInbox, intentConsumer, crashes>>
    BY <1>4 DEF ApplyExecutionReport
  <2>6. CASE ApplyReportLocked(r)
    BY <2>1, <2>3, <2>4, <2>5, <2>6, ApplyType DEF TypeOK
  <2>7. CASE UNCHANGED <<books, hedgeflows, pgFaults>>
    BY <2>3, <2>4, <2>5, <2>7 DEF TypeOK, books
  <2> QED
    BY <1>4, <2>6, <2>7 DEF ApplyExecutionReport, r
<1>5. CASE CommitReport
  BY <1>5 DEF CommitReport, TypeOK, books, queues
<1>6. CASE Crash
  BY <1>6, ReportsAssumption
  DEF Crash, InitBooks, InitQueues, TypeOK, Statuses, Keys, Key
<1>7. CASE UNCHANGED reportVars
  BY <1>7 DEF reportVars, books, queues, topics, TypeOK
<1> QED
  BY <1>1, <1>2, <1>3, <1>4, <1>5, <1>6, <1>7 DEF Next, IntentThread, ReportThread

(* Every reachable state is well typed, and no venue order is ever booked  *)
(* above the target of its intent (the "exceeds plan" guard of             *)
(* apply_execution_report_locked).                                         *)
THEOREM ReportsTypeCorrect == Spec => []TypeOK
BY InitType, NextType, PTL DEF Spec

-----------------------------------------------------------------------------
(* The pending queue.                                                      *)

LEMMA StrandedStep == TypeOK /\ NoStrandedReports /\ [Next]_reportVars => NoStrandedReports'
<1> SUFFICES ASSUME TypeOK, NoStrandedReports, [Next]_reportVars,
                    NEW i \in Intents, pending_execution_reports'[i] # << >>
             PROVE  i \notin execution_intents'
  BY DEF NoStrandedReports
<1>1. ASSUME NEW j \in intentInbox, RememberExecutionIntent(j) PROVE i \notin execution_intents'
  <2>1. i # j
    BY <1>1 DEF RememberExecutionIntent, ClearPending, TypeOK
  <2> QED
    BY <1>1, <2>1 DEF RememberExecutionIntent, ClearPending, TypeOK, NoStrandedReports
<1>2. CASE UNCHANGED <<execution_intents, pending_execution_reports>>
  BY <1>2 DEF NoStrandedReports
<1>3. ASSUME NEW m \in reportInbox, ApplyExecutionReport(m) PROVE i \notin execution_intents'
  <2> DEFINE r == m[2]
  <2>1. r \in ReportSet /\ r.intent \in Intents
    BY ReportType DEF TypeOK, Messages
  <2> HIDE DEF r
  <2>2. CASE i = r.intent
    <3>1. CASE UNCHANGED pending_execution_reports
      BY <1>3, <3>1 DEF ApplyExecutionReport, NoStrandedReports
    <3>2. CASE UnknownIntent(r.intent)
      BY <1>3, <2>2, <3>2 DEF ApplyExecutionReport, UnknownIntent
    <3> QED
      BY <1>3, <3>1, <3>2 DEF ApplyExecutionReport, r
  <2>3. CASE i # r.intent
    <3>1. pending_execution_reports'[i] = pending_execution_reports[i]
      BY <1>3, <2>1, <2>3 DEF ApplyExecutionReport, TypeOK, r
    <3> QED
      BY <1>3, <3>1 DEF ApplyExecutionReport, NoStrandedReports
  <2> QED
    BY <2>2, <2>3
<1>4. CASE Crash
  BY <1>4 DEF Crash, InitQueues
<1> QED
  BY <1>1, <1>2, <1>3, <1>4
  DEF Next, IntentThread, ReportThread, ReplayPending, CommitIntent, CommitReport,
      queues, reportVars

(* A report never waits for an intent the ledger already knows: the        *)
(* look-up and the queueing of ApplyExecutionReport, and the insertion and *)
(* the flush of RememberExecutionIntent, are atomic to each other.         *)
THEOREM NothingStranded == Spec => []NoStrandedReports
<1>1. Init => NoStrandedReports
  BY DEF Init, InitLedger, InitQueues, NoStrandedReports
<1> QED
  BY <1>1, StrandedStep, ReportsTypeCorrect, PTL DEF Spec

-----------------------------------------------------------------------------
(* The order of arrival does not matter.                                   *)

(* A state is the initial one or what a report that fits the plan left.    *)
FromReports ==
  \A k \in Keys :
    \/ execution_states[k].status = "UNSPECIFIED" /\ execution_states[k].filled = 0
    \/ \E q \in Planned(k) : /\ execution_states[k].status = NormalizeStatus(q)
                             /\ execution_states[k].filled = q.filled

LEMMA FromReportsApply ==
  ASSUME TypeOK, FromReports, NEW r \in ReportSet, ApplyReportLocked(r)
  PROVE  FromReports'
<1>1. CASE UNCHANGED execution_states
  BY <1>1 DEF FromReports, Planned
<1>2. CASE Accepted(r) /\ execution_states' = [execution_states EXCEPT ![Key(r)] = SaveState(r)]
  <2> SUFFICES ASSUME NEW k \in Keys
      PROVE \/ execution_states'[k].status = "UNSPECIFIED" /\ execution_states'[k].filled = 0
            \/ \E q \in Planned(k) : /\ execution_states'[k].status = NormalizeStatus(q)
                                     /\ execution_states'[k].filled = q.filled
    BY DEF FromReports, Planned
  <2>1. CASE k = Key(r)
    <3>1. r \in Planned(k)
      BY <1>2, <2>1 DEF Planned, Accepted
    <3>2. execution_states'[k] = SaveState(r)
      BY <1>2, <2>1 DEF TypeOK
    <3> QED
      BY <3>1, <3>2, SaveStateType
  <2>2. CASE k # Key(r)
    BY <1>2, <2>2 DEF FromReports, TypeOK
  <2> QED
    BY <2>1, <2>2
<1> QED
  BY <1>1, <1>2 DEF ApplyReportLocked, books

(* No step but a restart lowers a quantity, and a planned report of a      *)
(* consistent venue that was applied or refused is not ahead of the state. *)
LEMMA ApplyCovers ==
  ASSUME TypeOK, FromReports, VenueConsistent,
         NEW r \in ReportSet, ApplyReportLocked(r)
  PROVE  /\ \A k \in Keys : execution_states[k].filled <= execution_states'[k].filled
         /\ r \in Planned(Key(r)) => r.filled <= execution_states'[Key(r)].filled
<1>1. /\ Key(r) \in Keys /\ r.filled \in Nat
      /\ SaveState(r).filled = r.filled
      /\ \A k \in Keys : execution_states[k].filled \in Nat
  BY ReportType, SaveStateType DEF TypeOK
<1>2. CASE Accepted(r)
  <2>1. execution_states' = [execution_states EXCEPT ![Key(r)] = SaveState(r)]
    BY <1>2 DEF ApplyReportLocked
  <2>2. execution_states'[Key(r)].filled = r.filled
    BY <1>1, <2>1 DEF TypeOK
  <2>3. execution_states[Key(r)].filled <= r.filled
    BY <1>1, <1>2 DEF Accepted, Regressed, State
  <2>4. \A k \in Keys : k # Key(r) => execution_states'[k] = execution_states[k]
    BY <2>1 DEF TypeOK
  <2> QED
    BY <1>1, <2>2, <2>3, <2>4
<1>3. CASE ~Accepted(r)
  <2>1. UNCHANGED execution_states
    BY <1>3 DEF ApplyReportLocked, books
  <2>2. ASSUME r \in Planned(Key(r)) PROVE r.filled <= execution_states[Key(r)].filled
    <3> SUFFICES ASSUME execution_states[Key(r)].filled < r.filled PROVE FALSE
      BY <1>1
    <3>1. ~AllowedTransition(State(r).status, NormalizeStatus(r))
      BY <1>1, <1>3, <2>2 DEF Accepted, Planned, Regressed, State
    <3>2. State(r).status # "UNSPECIFIED"
      BY <3>1 DEF AllowedTransition
    <3>3. PICK q \in Planned(Key(r)) : /\ State(r).status = NormalizeStatus(q)
                                       /\ State(r).filled = q.filled
      BY <1>1, <3>2 DEF FromReports, State
    <3>4. q.filled < r.filled
      BY <3>3 DEF State
    <3>5. AllowedTransition(NormalizeStatus(q), NormalizeStatus(r))
      BY <1>1, <2>2, <3>4 DEF VenueConsistent
    <3> QED
      BY <3>1, <3>3, <3>5
  <2> QED
    BY <1>1, <2>1, <2>2
<1> QED
  BY <1>2, <1>3

LEMMA FromReportsStep == TypeOK /\ FromReports /\ [Next]_reportVars => FromReports'
<1> SUFFICES ASSUME TypeOK, FromReports, [Next]_reportVars PROVE FromReports'
  OBVIOUS
<1>1. CASE UNCHANGED execution_states
  BY <1>1 DEF FromReports, Planned
<1>2. ASSUME NEW r \in ReportSet, ApplyReportLocked(r) PROVE FromReports'
  BY <1>2, FromReportsApply
<1>3. CASE ReplayPending
  <2>1. Head(flushing) \in ReportSet
    BY <1>3 DEF ReplayPending, Locked, TypeOK
  <2> QED
    BY <1>2, <1>3, <2>1 DEF ReplayPending
<1>4. ASSUME NEW m \in reportInbox, ApplyExecutionReport(m) PROVE FromReports'
  <2>1. m[2] \in ReportSet
    BY DEF TypeOK, Messages
  <2> QED
    BY <1>1, <1>2, <1>4, <2>1 DEF ApplyExecutionReport, books
<1>5. CASE Crash
  BY <1>5 DEF Crash, InitBooks, FromReports
<1> QED
  BY <1>1, <1>3, <1>4, <1>5
  DEF Next, IntentThread, ReportThread, RememberExecutionIntent, CommitIntent,
      CommitReport, books, reportVars

(* With no change to the quantities, a report that is settled after the    *)
(* step must have been settled before it.                                  *)
LEMMA ConvergesKept ==
  ASSUME QuantityConverges, UNCHANGED execution_states,
         \A r \in ReportSet : Settled(r)' => Settled(r)
  PROVE  QuantityConverges'
BY DEF QuantityConverges, VenueConsistent, Planned

LEMMA ConvergesApply ==
  ASSUME TypeOK, FromReports, QuantityConverges, NEW r \in ReportSet, ApplyReportLocked(r),
         \A q \in ReportSet : Settled(q)' => Settled(q) \/ q = r, TypeOK'
  PROVE  QuantityConverges'
<1> SUFFICES ASSUME VenueConsistent, NEW k \in Keys, NEW q \in Planned(k), Settled(q)'
             PROVE  q.filled <= execution_states'[k].filled
  BY DEF QuantityConverges, VenueConsistent, Planned
<1>1. q \in ReportSet /\ Key(q) = k /\ q.filled \in Nat
  BY ReportType DEF Planned
<1>2. /\ execution_states[k].filled \in Nat
      /\ execution_states'[k].filled \in Nat
  BY DEF TypeOK
<1>3. CASE Settled(q)
  <2>1. q.filled <= execution_states[k].filled
    BY <1>3 DEF QuantityConverges
  <2>2. execution_states[k].filled <= execution_states'[k].filled
    BY ApplyCovers
  <2> QED
    BY <1>1, <1>2, <2>1, <2>2
<1>4. CASE q = r
  BY <1>1, <1>4, ApplyCovers
<1> QED
  BY <1>1, <1>3, <1>4

(* A step of the ledger settles at most one report, the one it applies.    *)
SettlesNothing ==
  UNCHANGED execution_states /\ \A r \in ReportSet : Settled(r)' => Settled(r)
Settles(r) ==
  /\ ApplyReportLocked(r)
  /\ \A q \in ReportSet : Settled(q)' => Settled(q) \/ q = r
  /\ \/ flushing # << >> /\ r = Head(flushing)
     \/ \E m \in reportInbox : ApplyExecutionReport(m) /\ r = m[2]

LEMMA SettledStep ==
  ASSUME TypeOK, [Next]_reportVars, ~Crash
  PROVE  SettlesNothing \/ \E r \in ReportSet : Settles(r)
<1> DEFINE Goal == SettlesNothing \/ \E r \in ReportSet : Settles(r)
<1>1. ASSUME NEW i \in intentInbox, RememberExecutionIntent(i) PROVE Goal
  <2>1. ASSUME NEW r \in ReportSet, Waiting(r) PROVE Waiting(r)'
    <3>1. r.intent \in Intents
      BY ReportType
    <3>2. PICK n \in DOMAIN pending_execution_reports[r.intent] :
                 pending_execution_reports[r.intent][n] = r
      BY <1>1, <2>1 DEF Waiting, RememberExecutionIntent, Locked
    <3>3. CASE r.intent = i
      BY <1>1, <3>2, <3>3 DEF Waiting, RememberExecutionIntent
    <3>4. CASE r.intent # i
      <4>1. pending_execution_reports'[r.intent] = pending_execution_reports[r.intent]
        BY <1>1, <3>1, <3>4 DEF RememberExecutionIntent, ClearPending, TypeOK
      <4> QED
        BY <3>2, <4>1 DEF Waiting
    <3> QED
      BY <3>3, <3>4
  <2>2. \A r \in ReportSet : Settled(r)' => Settled(r)
    BY <1>1, <2>1 DEF Settled, RememberExecutionIntent
  <2> QED
    BY <1>1, <2>2 DEF RememberExecutionIntent, books, SettlesNothing
<1>2. CASE ReplayPending
  <2> DEFINE h == Head(flushing)
  <2>1. /\ h \in ReportSet /\ flushing \in Seq(ReportSet) /\ flushing # << >>
        /\ ApplyReportLocked(h) /\ flushing' = Tail(flushing)
        /\ UNCHANGED <<pending_execution_reports, seen_execution_report_keys>>
    BY <1>2 DEF ReplayPending, Locked, TypeOK
  <2>2. ASSUME NEW q \in ReportSet, Waiting(q), q # h PROVE Waiting(q)'
    <3>1. CASE \E n \in DOMAIN flushing : flushing[n] = q
      <4>1. PICK n \in DOMAIN flushing : flushing[n] = q
        BY <3>1
      <4>2. n # 1 /\ n - 1 \in DOMAIN Tail(flushing) /\ Tail(flushing)[n - 1] = q
        BY <2>1, <2>2, <4>1
      <4> QED
        BY <2>1, <4>2 DEF Waiting
    <3>2. CASE ~\E n \in DOMAIN flushing : flushing[n] = q
      BY <2>1, <2>2, <3>2 DEF Waiting
    <3> QED
      BY <3>1, <3>2
  <2>3. \A q \in ReportSet : Settled(q)' => Settled(q) \/ q = h
    BY <2>1, <2>2 DEF Settled
  <2>4. Settles(h)
    BY <2>1, <2>3 DEF Settles
  <2> HIDE DEF h
  <2> QED
    BY <2>1, <2>4
<1>3. ASSUME NEW m \in reportInbox, ApplyExecutionReport(m) PROVE Goal
  <2> DEFINE r == m[2]
  <2>1. r \in ReportSet /\ r.intent \in Intents
    BY ReportType DEF TypeOK, Messages
  <2> HIDE DEF r
  <2>2. /\ seen_execution_report_keys' = seen_execution_report_keys \cup {r.id}
        /\ UNCHANGED flushing
    BY <1>3 DEF ApplyExecutionReport, r
  <2>3. \A q \in ReportSet : q.id \in seen_execution_report_keys'
                               => q.id \in seen_execution_report_keys \/ q = r
    BY <2>1, <2>2, ReportsAssumption
  <2>4. CASE /\ r.id \in seen_execution_report_keys
             /\ UNCHANGED <<pending_execution_reports, books>>
    <3>1. \A q \in ReportSet : Settled(q)' => Settled(q)
      BY <2>2, <2>4 DEF Settled, Waiting
    <3> QED
      BY <2>4, <3>1 DEF books, SettlesNothing
  <2>5. CASE /\ pending_execution_reports' = [pending_execution_reports EXCEPT
                   ![r.intent] = Append(pending_execution_reports[r.intent], r)]
             /\ UNCHANGED books
    <3> DEFINE p == pending_execution_reports[r.intent]
    <3>1. /\ p \in Seq(ReportSet)
          /\ pending_execution_reports'[r.intent] = Append(p, r)
          /\ \A j \in Intents \ {r.intent} :
                pending_execution_reports'[j] = pending_execution_reports[j]
      BY <2>1, <2>5 DEF TypeOK
    <3>2. Waiting(r)'
      <4>1. Len(p) + 1 \in DOMAIN Append(p, r) /\ Append(p, r)[Len(p) + 1] = r
        BY <2>1, <3>1
      <4> HIDE DEF p
      <4> QED
        BY <3>1, <4>1 DEF Waiting
    <3>3. ASSUME NEW q \in ReportSet, Waiting(q) PROVE Waiting(q)'
      <4>1. q.intent \in Intents
        BY ReportType
      <4>2. CASE \E n \in DOMAIN flushing : flushing[n] = q
        BY <2>2, <4>2 DEF Waiting
      <4>3. CASE q.intent # r.intent
        BY <2>2, <3>1, <3>3, <4>1, <4>3 DEF Waiting
      <4>4. CASE q.intent = r.intent /\ ~\E n \in DOMAIN flushing : flushing[n] = q
        <5>1. PICK n \in DOMAIN p : p[n] = q
          BY <3>3, <4>4 DEF Waiting
        <5>2. n \in DOMAIN Append(p, r) /\ Append(p, r)[n] = q
          BY <2>1, <3>1, <5>1
        <5> HIDE DEF p
        <5> QED
          BY <3>1, <4>4, <5>2 DEF Waiting
      <4> QED
        BY <4>2, <4>3, <4>4
    <3>4. \A q \in ReportSet : Settled(q)' => Settled(q)
      BY <2>3, <3>2, <3>3 DEF Settled
    <3> QED
      BY <2>5, <3>4 DEF books, SettlesNothing
  <2>6. CASE ApplyReportLocked(r) /\ UNCHANGED pending_execution_reports
    <3>1. \A q \in ReportSet : Settled(q)' => Settled(q) \/ q = r
      BY <2>2, <2>3, <2>6 DEF Settled, Waiting
    <3>2. Settles(r)
      BY <1>3, <2>6, <3>1 DEF Settles, r
    <3> QED
      BY <2>1, <3>2
  <2> QED
    BY <1>3, <2>4, <2>5, <2>6 DEF ApplyExecutionReport, r
<1>4. CASE UNCHANGED <<books, queues>>
  BY <1>4 DEF books, queues, Settled, Waiting, SettlesNothing
<1> QED
  BY <1>1, <1>2, <1>3, <1>4
  DEF Next, IntentThread, ReportThread, CommitIntent, CommitReport, reportVars

LEMMA ConvergesStep ==
  TypeOK /\ TypeOK' /\ FromReports /\ QuantityConverges /\ [Next]_reportVars
    => QuantityConverges'
<1> SUFFICES ASSUME TypeOK, TypeOK', FromReports, QuantityConverges, [Next]_reportVars
             PROVE  QuantityConverges'
  OBVIOUS
<1>1. CASE Crash
  <2>1. \A r \in ReportSet : ~Settled(r)'
    BY <1>1 DEF Crash, InitQueues, Settled
  <2> QED
    BY <2>1 DEF QuantityConverges, Planned
<1>2. CASE SettlesNothing
  BY <1>2, ConvergesKept DEF SettlesNothing
<1>3. ASSUME NEW r \in ReportSet, Settles(r) PROVE QuantityConverges'
  BY <1>3, ConvergesApply DEF Settles
<1> QED
  BY <1>1, <1>2, <1>3, SettledStep

(* Whatever the order in which the two topics deliver the reports of a     *)
(* consistent venue, before or after the intent, twice, or across a        *)
(* restart: a report that is settled is never ahead of the ledger.         *)
THEOREM OrderDoesNotMatter == Spec => []QuantityConverges
<1>1. Init => FromReports
  BY DEF Init, InitLedger, InitBooks, FromReports
<1>2. Init => QuantityConverges
  BY DEF Init, InitLedger, InitQueues, QuantityConverges, Settled, Planned
<1>3. Spec => []FromReports
  BY <1>1, FromReportsStep, ReportsTypeCorrect, PTL DEF Spec
<1> QED
  BY <1>2, <1>3, ConvergesStep, ReportsTypeCorrect, PTL DEF Spec

-----------------------------------------------------------------------------
(* The base balances.                                                      *)

(* Every report is about a key, so only finitely many orders have filled.  *)
BaseInv == (\A v \in Venues : IsFiniteSet(Booked(v))) /\ BaseMatchesStates

LEMMA SignedFillsType ==
  ASSUME TypeOK, NEW k \in Keys
  PROVE  SignedFills[k] = SideSign(k[1]) * execution_states[k].filled /\ SignedFills[k] \in Int
<1>1. execution_states[k].filled \in Nat
  BY DEF TypeOK
<1>2. SideSign(k[1]) \in {1, -1}
  BY DEF SideSign
<1> QED
  BY <1>1, <1>2 DEF SignedFills

(* With the same states and balances there is nothing to show; an accepted *)
(* report moves the sum and the balance of its venue by the same amount.   *)
LEMMA BaseKept ==
  ASSUME TypeOK, TypeOK', BaseInv, NEW v \in Venues,
         \A k \in Keys : IntentInfo[k[1]].venue = v =>
                            execution_states'[k].filled = execution_states[k].filled
  PROVE  /\ Booked(v)' = Booked(v)
         /\ SumFunctionOnSet(SignedFills, Booked(v))' = SumFunctionOnSet(SignedFills, Booked(v))
<1>1. Booked(v)' = Booked(v)
  BY DEF Booked
<1>2. \A k \in Booked(v) : SignedFills[k] \in Int /\ SignedFills[k] = SignedFills'[k]
  <2> TAKE k \in Booked(v)
  <2>1. k \in Keys /\ execution_states'[k].filled = execution_states[k].filled
    BY DEF Booked
  <2>2. SignedFills'[k] = SideSign(k[1]) * execution_states'[k].filled
    BY <2>1 DEF SignedFills
  <2> QED
    BY <2>1, <2>2, SignedFillsType
<1>3. IsFiniteSet(Booked(v))
  BY DEF BaseInv
<1>4. SumFunctionOnSet(SignedFills, Booked(v)) = SumFunctionOnSet(SignedFills', Booked(v))
  BY <1>2, <1>3, SumSame
<1> QED
  BY <1>1, <1>4

LEMMA BaseApply ==
  ASSUME TypeOK, TypeOK', BaseInv, NEW r \in ReportSet, ApplyReportLocked(r)
  PROVE  BaseInv'
<1> DEFINE k == Key(r)
           u == IntentInfo[r.intent].venue
           sg == SideSign(r.intent)
           old == execution_states[k].filled
<1>1. /\ k \in Keys /\ k[1] = r.intent /\ r.filled \in Nat /\ u \in Venues
      /\ SaveState(r).filled = r.filled /\ old \in Nat /\ sg \in {1, -1}
      /\ DeltaQty(r) = r.filled - old
  BY ReportType, SaveStateType DEF Key, SideSign, DeltaQty, State
<1>2. CASE UNCHANGED <<execution_states, venue_balances>>
  BY <1>2 DEF BaseInv, BaseMatchesStates, Booked, SignedFills
<1>3. CASE /\ Accepted(r)
           /\ execution_states' = [execution_states EXCEPT ![k] = SaveState(r)]
           /\ DeltaQty(r) <= 0 /\ UNCHANGED venue_balances
  <2>1. r.filled = old
    BY <1>1, <1>3 DEF Accepted, Regressed, State
  <2>2. \A j \in Keys : execution_states'[j].filled = execution_states[j].filled
    BY <1>1, <1>3, <2>1 DEF TypeOK
  <2>3. ASSUME NEW v \in Venues
        PROVE  /\ Booked(v)' = Booked(v)
               /\ SumFunctionOnSet(SignedFills, Booked(v))' = SumFunctionOnSet(SignedFills, Booked(v))
    BY <2>2, BaseKept
  <2> QED
    BY <1>3, <2>3 DEF BaseInv, BaseMatchesStates
<1>4. CASE /\ Accepted(r)
           /\ execution_states' = [execution_states EXCEPT ![k] = SaveState(r)]
           /\ DeltaQty(r) > 0
           /\ venue_balances' = [venue_balances EXCEPT ![u] =
                [base |-> venue_balances[u].base + sg * DeltaQty(r),
                 quote |-> venue_balances[u].quote - sg * DeltaQty(r) * r.avg - FeeDelta(r)]]
  <2>1. /\ execution_states'[k].filled = r.filled /\ r.filled > old /\ r.filled # 0
        /\ \A j \in Keys \ {k} : execution_states'[j] = execution_states[j]
    <3>1. execution_states' = [execution_states EXCEPT ![k] = SaveState(r)] /\ DeltaQty(r) > 0
      BY <1>4
    <3>2. r.filled > old /\ r.filled # 0
      BY <1>1, <3>1
    <3> HIDE DEF k
    <3> QED
      BY <1>1, <3>1, <3>2 DEF TypeOK
  <2>2. /\ venue_balances'[u].base = venue_balances[u].base + sg * (r.filled - old)
        /\ \A v \in Venues \ {u} : venue_balances'[v] = venue_balances[v]
    BY <1>1, <1>4 DEF TypeOK
  <2> DEFINE rest == Booked(u) \ {k}
  <2>3. /\ Booked(u)' = rest \cup {k} /\ k \in Booked(u)' /\ Booked(u)' \ {k} = rest
        /\ (k \in Booked(u) <=> old # 0) /\ rest \in SUBSET Keys
    BY <1>1, <2>1 DEF Booked
  <2>4. IsFiniteSet(Booked(u)) /\ IsFiniteSet(rest) /\ IsFiniteSet(Booked(u)')
    <3>1. IsFiniteSet(Booked(u))
      BY <1>1 DEF BaseInv
    <3>2. IsFiniteSet(rest)
      BY <3>1, FS_Subset
    <3> QED
      BY <2>3, <3>1, <3>2, FS_AddElement
  <2>5. /\ \A j \in Keys : SignedFills[j] \in Int
        /\ \A j \in Keys : SignedFills'[j] = SideSign(j[1]) * execution_states'[j].filled
        /\ \A j \in Keys : SignedFills'[j] \in Int
    <3>1. ASSUME NEW j \in Keys PROVE SignedFills'[j] = SideSign(j[1]) * execution_states'[j].filled
      BY DEF SignedFills
    <3>2. ASSUME NEW j \in Keys PROVE SignedFills'[j] \in Int
      <4>1. execution_states'[j].filled \in Nat /\ SideSign(j[1]) \in {1, -1}
        BY DEF TypeOK, SideSign
      <4> QED
        BY <3>1, <4>1
    <3> QED
      BY <3>1, <3>2, SignedFillsType
  <2>6. SumFunctionOnSet(SignedFills, rest) = SumFunctionOnSet(SignedFills', rest)
    <3>1. \A j \in rest : SignedFills[j] \in Int /\ SignedFills[j] = SignedFills'[j]
      BY <2>1, <2>3, <2>5, SignedFillsType
    <3> HIDE DEF rest
    <3> QED
      BY <2>4, <3>1, SumSame
  <2> DEFINE R == SumFunctionOnSet(SignedFills, rest)
             new == SumFunctionOnSet(SignedFills', Booked(u)')
  <2>7. R \in Int /\ new = SignedFills'[k] + R
    <3>1. \A j \in Booked(u)' : SignedFills'[j] \in Int
      BY <1>1, <2>3, <2>5
    <3>2. /\ SumFunctionOnSet(SignedFills', Booked(u)' \ {k}) \in Int
          /\ new = SignedFills'[k] + SumFunctionOnSet(SignedFills', Booked(u)' \ {k})
      BY <2>3, <2>4, <3>1, SumSplit
    <3> QED
      BY <2>3, <2>6, <3>2
  <2>8. SumFunctionOnSet(SignedFills, Booked(u)) = SignedFills[k] + R
    <3>1. CASE k \in Booked(u)
      <4>1. \A j \in Booked(u) : SignedFills[j] \in Int
        BY <2>5 DEF Booked
      <4> QED
        BY <2>4, <3>1, <4>1, SumSplit
    <3>2. CASE k \notin Booked(u)
      <4>1. rest = Booked(u)
        BY <3>2
      <4>2. SignedFills[k] = 0
        BY <1>1, <2>3, <3>2, SignedFillsType
      <4> HIDE DEF rest
      <4> QED
        BY <2>7, <4>1, <4>2
    <3> QED
      BY <3>1, <3>2
  <2>9. venue_balances'[u].base = new
    <3>1. venue_balances[u].base = SignedFills[k] + R
      BY <1>1, <2>8 DEF BaseInv, BaseMatchesStates
    <3>2. SignedFills[k] = sg * old /\ SignedFills'[k] = sg * r.filled
      BY <1>1, <2>1, <2>5, SignedFillsType
    <3> HIDE DEF R, new, sg, old
    <3>3. CASE sg = 1
      BY <1>1, <2>2, <2>7, <3>1, <3>2, <3>3
    <3>4. CASE sg = -1
      BY <1>1, <2>2, <2>7, <3>1, <3>2, <3>4
    <3> QED
      BY <1>1, <3>3, <3>4
  <2>10. ASSUME NEW v \in Venues, v # u
         PROVE  IsFiniteSet(Booked(v)') /\ venue_balances'[v].base = SumFunctionOnSet(SignedFills, Booked(v))'
    <3>1. \A j \in Keys : IntentInfo[j[1]].venue = v =>
                            execution_states'[j].filled = execution_states[j].filled
      BY <1>1, <2>1, <2>10
    <3>2. /\ Booked(v)' = Booked(v)
          /\ SumFunctionOnSet(SignedFills, Booked(v))' = SumFunctionOnSet(SignedFills, Booked(v))
      BY <3>1, BaseKept
    <3> QED
      BY <2>2, <2>10, <3>2 DEF BaseInv, BaseMatchesStates
  <2> QED
    BY <2>4, <2>9, <2>10 DEF BaseInv, BaseMatchesStates
<1> QED
  BY <1>2, <1>3, <1>4 DEF ApplyReportLocked, books

(* Empty books have no orders and no balances.                             *)
LEMMA BaseStart ==
  ASSUME InitBooks(execution_states, venue_balances, hedge_pnl_summary) PROVE BaseInv
<1>1. ASSUME NEW v \in Venues PROVE Booked(v) = {} /\ venue_balances[v].base = 0
  BY DEF InitBooks, Booked
<1>2. ASSUME NEW v \in Venues
      PROVE  IsFiniteSet(Booked(v)) /\ venue_balances[v].base = SumFunctionOnSet(SignedFills, Booked(v))
  BY <1>1, FS_EmptySet, SumEmpty
<1> QED
  BY <1>2 DEF BaseInv, BaseMatchesStates

LEMMA BaseRestart == ASSUME Crash PROVE BaseInv'
<1>1. ASSUME NEW v \in Venues PROVE Booked(v)' = {} /\ venue_balances'[v].base = 0
  BY DEF Crash, InitBooks, Booked
<1>2. ASSUME NEW v \in Venues
      PROVE  IsFiniteSet(Booked(v)') /\ venue_balances'[v].base = SumFunctionOnSet(SignedFills', Booked(v)')
  BY <1>1, FS_EmptySet, SumEmpty
<1> QED
  BY <1>2 DEF BaseInv, BaseMatchesStates

LEMMA BaseStep == TypeOK /\ TypeOK' /\ BaseInv /\ [Next]_reportVars => BaseInv'
<1> SUFFICES ASSUME TypeOK, TypeOK', BaseInv, [Next]_reportVars PROVE BaseInv'
  OBVIOUS
<1>1. CASE UNCHANGED books
  BY <1>1 DEF books, BaseInv, BaseMatchesStates, Booked, SignedFills
<1>2. ASSUME NEW r \in ReportSet, ApplyReportLocked(r) PROVE BaseInv'
  BY <1>2, BaseApply
<1>3. CASE ReplayPending
  <2>1. Head(flushing) \in ReportSet
    BY <1>3 DEF ReplayPending, Locked, TypeOK
  <2> QED
    BY <1>2, <1>3, <2>1 DEF ReplayPending
<1>4. ASSUME NEW m \in reportInbox, ApplyExecutionReport(m) PROVE BaseInv'
  <2>1. m[2] \in ReportSet
    BY DEF TypeOK, Messages
  <2> QED
    BY <1>1, <1>2, <1>4, <2>1 DEF ApplyExecutionReport
<1>5. CASE Crash
  BY <1>5, BaseRestart
<1> QED
  BY <1>1, <1>3, <1>4, <1>5
  DEF Next, IntentThread, ReportThread, RememberExecutionIntent, CommitIntent,
      CommitReport, reportVars

(* The base balance of a venue is at any time the sum of what its orders   *)
(* filled: apply_execution_report_locked moves both by the same delta, and *)
(* no repeated, reordered or refused report moves one of them alone.       *)
THEOREM BalancesAddUp == Spec => []BaseMatchesStates
<1>1. Init => BaseInv
  BY BaseStart DEF Init, InitLedger
<1>2. BaseInv => BaseMatchesStates
  BY DEF BaseInv
<1> QED
  BY <1>1, <1>2, BaseStep, ReportsTypeCorrect, PTL DEF Spec

(* All guarantees of the ledger's consumers together: for any intents and  *)
(* reports, no report waits for a known intent, no settled report is ahead *)
(* of execution_states, and the balances are the sums of these.            *)
THEOREM ReportsAreSafe == Spec => []ReportsSafety
BY NothingStranded, OrderDoesNotMatter, BalancesAddUp, PTL DEF ReportsSafety
-----------------------------------------------------------------------------
(* HedgeExecution: the venues service feeds the topics of the ledger.      *)
(* Before the order of an attempt is sent.                                 *)
Unsent == {"insert_flow", "insert_child", "send"}

(* Attempts are paid for by restarts: an intent that waits was taken at    *)
(* most once per restart, an attempt sends at most one order.              *)
AttemptsPaid ==
  \A i \in Intents :
    /\ i \notin published => attempts[i] = 0
    /\ attempts[i] <= 1 + execCrashes
    /\ (i \in execInbox /\ execIntent # i) => attempts[i] <= execCrashes
    /\ execIntent = i => i \in published /\ attempts[i] > 0
    /\ atVenue[i] <= attempts[i]
    /\ (execIntent = i /\ execPc \in Unsent) => atVenue[i] < attempts[i]
    /\ executed[i] <= atVenue[i] * IntentInfo[i].target

HedgeInv == HedgeTypeOK /\ AttemptsPaid

(* Every report of the handler is one the ledger may be sent.              *)
LEMMA ReportInSet ==
  ASSUME NEW i \in Intents, NEW n \in Attempts, NEW o \in Outcomes
  PROVE  Report(i, n, o) \in ReportSet
BY HedgeAssumption DEF ExecutionReportSet

LEMMA StatusTypes ==
  ASSUME NEW s \in Statuses
  PROVE  /\ FlowStatus(s) \in FlowTerminal \cup {"OPEN"}
         /\ ChildStatus(s) \in {"PENDING", "FILLED", "PARTIALLY_FILLED", "CANCELLED", "REJECTED"}
BY DEF FlowStatus, ChildStatus, FlowTerminal, Statuses

(* A step of venues touches the ledger only through its topics, the        *)
(* hedgeflows row and the count of PG failures.                            *)
LEMMA LedgerKept ==
  ASSUME TypeOK, UNCHANGED <<books, queues, intentConsumer, reportConsumer, crashes>>,
         intentInbox' \subseteq Intents, reportInbox' \subseteq Messages,
         hedgeflows' \in [Intents -> [open : BOOLEAN, pnl : Int, fee : Nat]],
         pgFaults' \in 0 .. MaxPgFaults
  PROVE  TypeOK'
BY DEF TypeOK, books, queues

LEMMA FaultType ==
  ASSUME TypeOK, StatementFails
  PROVE  /\ pgFaults' \in 0 .. MaxPgFaults
         /\ UNCHANGED <<hedgeflows, flows, children>>
BY ReportsAssumption DEF TypeOK, StatementFails, rows

LEMMA HedgeInit == InitHedge => HedgeInv
<1> SUFFICES ASSUME InitHedge PROVE HedgeInv
  OBVIOUS
<1>1. TypeOK
  BY ReportsAssumption
  DEF InitHedge, InitReports, InitVenues, InitLedger, InitBooks, InitQueues, TypeOK, Statuses, Messages, Keys, Key
<1>2. \A i \in Intents : IntentInfo[i].target \in Nat
  BY ReportsAssumption
<1>3. HedgeTypeOK
  BY <1>1, <1>2, HedgeAssumption DEF InitHedge, InitReports, InitVenues, HedgeTypeOK, ExecPcs, Reporting, FlowTerminal
<1>4. AttemptsPaid
  BY <1>2, ReportsAssumption DEF InitHedge, InitReports, InitVenues, AttemptsPaid, Unsent
<1> QED
  BY <1>3, <1>4 DEF HedgeInv

-----------------------------------------------------------------------------
(* The type invariant, one action at a time.                               *)

LEMMA PublishIntentType ==
  ASSUME HedgeInv, NEW i \in Intents, PublishIntent(i)
  PROVE  HedgeTypeOK'
<1>1. TypeOK'
  BY LedgerKept DEF HedgeInv, HedgeTypeOK, TypeOK, PublishIntent
<1> QED
  BY <1>1 DEF HedgeInv, HedgeTypeOK, PublishIntent, handler, venue, rows

LEMMA TakeIntentType ==
  ASSUME HedgeInv, NEW i \in execInbox, NEW mode \in Modes, TakeIntent(i, mode)
  PROVE  HedgeTypeOK'
<1>1. TypeOK'
  BY LedgerKept DEF HedgeInv, HedgeTypeOK, TypeOK, TakeIntent, ledgerVars
<1>2. i \in Intents /\ i # None
  BY ReportsAssumption DEF HedgeInv, HedgeTypeOK
<1>3. attempts' \in [Intents -> Nat]
  BY <1>2 DEF HedgeInv, HedgeTypeOK, TakeIntent
<1> QED
  BY <1>1, <1>2, <1>3
  DEF HedgeInv, HedgeTypeOK, TakeIntent, Route, rows, ExecPcs, Reporting

LEMMA InsertOpenType == ASSUME HedgeInv, InsertOpen PROVE HedgeTypeOK'
<1>1. execIntent \in Intents
  BY DEF HedgeInv, HedgeTypeOK, InsertOpen
<1>2. /\ hedgeflows' \in [Intents -> [open : BOOLEAN, pnl : Int, fee : Nat]]
      /\ pgFaults' \in 0 .. MaxPgFaults
      /\ UNCHANGED <<flows, children>>
  <2>1. /\ hedgeflows \in [Intents -> [open : BOOLEAN, pnl : Int, fee : Nat]]
        /\ pgFaults \in 0 .. MaxPgFaults
    BY DEF HedgeInv, HedgeTypeOK, TypeOK
  <2>2. CASE StatementFails
    BY <2>1, <2>2, FaultType DEF HedgeInv, HedgeTypeOK
  <2>3. CASE /\ hedgeflows' = [hedgeflows EXCEPT ![execIntent].open = TRUE]
             /\ UNCHANGED <<rows, pgFaults>>
    <3>1. hedgeflows' \in [Intents -> [open : BOOLEAN, pnl : Int, fee : Nat]]
      BY <1>1, <2>1, <2>3
    <3> QED
      BY <2>1, <2>3, <3>1 DEF rows
  <2> QED
    BY <2>2, <2>3 DEF InsertOpen
<1>3. TypeOK'
  BY <1>2, LedgerKept DEF HedgeInv, HedgeTypeOK, TypeOK, InsertOpen, Statement, ledgerVars
<1>4. /\ execPc' = "insert_child" /\ execIntent # None
      /\ UNCHANGED <<published, execInbox, committed, execIntent, execMode,
                     execReport, attempts, atVenue, executed, simReports, lost, execCrashes>>
  BY <1>1, ReportsAssumption DEF InsertOpen, Statement, venue
<1> QED
  BY <1>2, <1>3, <1>4 DEF HedgeInv, HedgeTypeOK, ExecPcs, Reporting

LEMMA InsertPendingType == ASSUME HedgeInv, InsertPending PROVE HedgeTypeOK'
<1>1. execIntent \in Intents /\ hedgeflows[execIntent].open \in BOOLEAN
  BY DEF HedgeInv, HedgeTypeOK, TypeOK, InsertPending
<1>2. /\ hedgeflows' = hedgeflows /\ pgFaults' \in 0 .. MaxPgFaults
      /\ flows' = flows
      /\ children' \in [Intents -> [placed : BOOLEAN, filled : Nat,
            status : {"PENDING", "FILLED", "PARTIALLY_FILLED", "CANCELLED", "REJECTED"}]]
  <2>1. CASE StatementFails
    BY <2>1, FaultType DEF HedgeInv, HedgeTypeOK
  <2>2. CASE /\ children' = [children EXCEPT ![execIntent].placed =
                               @ \/ hedgeflows[execIntent].open]
             /\ UNCHANGED <<hedgeflows, flows, pgFaults>>
    <3>1. /\ pgFaults \in 0 .. MaxPgFaults
          /\ children \in [Intents -> [placed : BOOLEAN, filled : Nat,
               status : {"PENDING", "FILLED", "PARTIALLY_FILLED", "CANCELLED", "REJECTED"}]]
      BY DEF HedgeInv, HedgeTypeOK, TypeOK
    <3> QED
      BY <1>1, <2>2, <3>1
  <2> QED
    BY <2>1, <2>2 DEF InsertPending
<1>3. TypeOK'
  BY <1>2, LedgerKept DEF HedgeInv, HedgeTypeOK, TypeOK, InsertPending, Statement, ledgerVars
<1> QED
  BY <1>1, <1>2, <1>3, ReportsAssumption
  DEF HedgeInv, HedgeTypeOK, InsertPending, Statement, venue, ExecPcs, Reporting

(* What the venue executes is at most the target.                          *)
LEMMA ExecutedByType ==
  ASSUME NEW i \in Intents, NEW o \in Outcomes, NEW q \in ExecutedBy(i, o)
  PROVE  q \in Nat /\ q <= IntentInfo[i].target
<1>1. IntentInfo[i].target \in Nat
  BY ReportsAssumption
<1> QED
  BY <1>1 DEF ExecutedBy

LEMMA SendOrderType ==
  ASSUME HedgeInv, execIntent # None, NEW o \in Outcomes, NEW reached \in BOOLEAN,
         NEW q \in ExecutedBy(execIntent, o), SendOrder(o, reached, q)
  PROVE  HedgeTypeOK'
<1>1. execIntent \in Intents
  BY DEF HedgeInv, HedgeTypeOK
<1>2. TypeOK'
  BY LedgerKept DEF HedgeInv, HedgeTypeOK, TypeOK, SendOrder, ledgerVars
<1>3. attempts[execIntent] \in Attempts
  BY <1>1, HedgeAssumption DEF HedgeInv, HedgeTypeOK, AttemptsPaid, Attempts
<1>4. execReport' \in ReportSet
  BY <1>1, <1>3, ReportInSet DEF SendOrder
<1>5. q \in Nat
  BY <1>1, ExecutedByType
<1>6. atVenue' \in [Intents -> Nat] /\ executed' \in [Intents -> Nat]
  BY <1>1, <1>5 DEF HedgeInv, HedgeTypeOK, SendOrder
<1>7. /\ execPc' = "execution.venue" /\ execIntent # None
      /\ UNCHANGED <<published, execInbox, committed, execIntent, execMode,
                     attempts, flows, children, simReports, lost, execCrashes>>
  BY DEF SendOrder, rows
<1> QED
  BY <1>2, <1>4, <1>6, <1>7 DEF HedgeInv, HedgeTypeOK, ExecPcs, Reporting

LEMMA PublishType ==
  ASSUME HedgeInv, NEW topic \in Topics, NEW next \in {"execution.reports", "apply_child"},
         Publish(topic, next)
  PROVE  HedgeTypeOK'
<1>1. execReport \in ReportSet /\ execIntent \in Intents
  BY DEF HedgeInv, HedgeTypeOK, Publish, Reporting, Topics
<1>2. reportInbox' \subseteq Messages /\ lost' \in 0 .. MaxLost
  <2>1. <<topic, execReport>> \in Messages
    BY <1>1 DEF Messages
  <2>2. reportInbox \subseteq Messages /\ lost \in 0 .. MaxLost
    BY DEF HedgeInv, HedgeTypeOK, TypeOK
  <2>3. CASE reportInbox' = reportInbox \cup {<<topic, execReport>>} /\ UNCHANGED lost
    BY <2>1, <2>2, <2>3
  <2>4. CASE lost < MaxLost /\ lost' = lost + 1 /\ UNCHANGED reportInbox
    BY <2>2, <2>4, HedgeAssumption
  <2> QED
    BY <2>3, <2>4 DEF Publish
<1>3. TypeOK'
  BY <1>2, LedgerKept DEF HedgeInv, HedgeTypeOK, TypeOK, Publish
<1> QED
  BY <1>1, <1>2, <1>3, ReportsAssumption
  DEF HedgeInv, HedgeTypeOK, Publish, venue, rows, ExecPcs, Reporting

LEMMA ApplyChildType == ASSUME HedgeInv, ApplyReportToChild PROVE HedgeTypeOK'
<1>1. execReport \in ReportSet /\ execIntent \in Intents
  BY DEF HedgeInv, HedgeTypeOK, ApplyReportToChild, Reporting
<1>2. execReport.filled \in Nat /\ execReport.status \in Statuses
  BY <1>1, ReportsAssumption
<1>3. /\ hedgeflows' = hedgeflows /\ pgFaults' \in 0 .. MaxPgFaults
      /\ flows' = flows
      /\ children' \in [Intents -> [placed : BOOLEAN, filled : Nat,
            status : {"PENDING", "FILLED", "PARTIALLY_FILLED", "CANCELLED", "REJECTED"}]]
  <2>1. CASE StatementFails
    BY <2>1, FaultType DEF HedgeInv, HedgeTypeOK
  <2>2. CASE /\ children' = [children EXCEPT ![execIntent] =
                  [placed |-> TRUE, filled |-> execReport.filled,
                   status |-> ChildStatus(execReport.status)]]
             /\ UNCHANGED <<hedgeflows, flows, pgFaults>>
    <3> DEFINE c == [placed |-> TRUE, filled |-> execReport.filled,
                     status |-> ChildStatus(execReport.status)]
    <3>1. c \in [placed : BOOLEAN, filled : Nat,
            status : {"PENDING", "FILLED", "PARTIALLY_FILLED", "CANCELLED", "REJECTED"}]
      BY <1>2, StatusTypes
    <3> HIDE DEF c
    <3> QED
      BY <1>1, <2>2, <3>1 DEF HedgeInv, HedgeTypeOK, TypeOK, c
  <2>3. CASE UNCHANGED <<hedgeflows, rows, pgFaults>>
    BY <2>3 DEF HedgeInv, HedgeTypeOK, TypeOK, rows
  <2> QED
    BY <2>1, <2>2, <2>3 DEF ApplyReportToChild
<1>4. TypeOK'
  BY <1>3, LedgerKept DEF HedgeInv, HedgeTypeOK, TypeOK, ApplyReportToChild, Statement, ledgerVars
<1> QED
  BY <1>1, <1>3, <1>4, ReportsAssumption
  DEF HedgeInv, HedgeTypeOK, ApplyReportToChild, Statement, venue, ExecPcs, Reporting

LEMMA ApplyFlowType == ASSUME HedgeInv, ApplyReportToFlow PROVE HedgeTypeOK'
<1>1. execReport \in ReportSet /\ execIntent \in Intents
  BY DEF HedgeInv, HedgeTypeOK, ApplyReportToFlow, Reporting
<1>2. /\ execReport.filled \in Nat /\ execReport.status \in Statuses
      /\ flows[execIntent].filled \in Nat
      /\ flows[execIntent].status \in FlowTerminal \cup {"OPEN"}
  BY <1>1, ReportsAssumption DEF HedgeInv, HedgeTypeOK
<1> DEFINE q == flows[execIntent].filled + execReport.filled
           row == [filled |-> q, status |-> StickyStatus(execIntent, execReport)]
<1>3. /\ hedgeflows' = hedgeflows /\ pgFaults' \in 0 .. MaxPgFaults
      /\ children' = children
      /\ flows' \in [Intents -> [filled : Nat, status : FlowTerminal \cup {"OPEN"}]]
      /\ \A i \in Intents : 100 * flows'[i].filled <= 101 * IntentInfo[i].target
  <2>1. CASE StatementFails
    BY <2>1, FaultType DEF HedgeInv, HedgeTypeOK
  <2>2. CASE /\ WithinTarget(execIntent, q)
             /\ flows' = [flows EXCEPT ![execIntent] = row]
             /\ UNCHANGED <<hedgeflows, children, pgFaults>>
    <3>1. StickyStatus(execIntent, execReport) \in FlowTerminal \cup {"OPEN"}
      BY <1>2, StatusTypes DEF StickyStatus
    <3>2. row \in [filled : Nat, status : FlowTerminal \cup {"OPEN"}] /\ row.filled = q
      BY <1>2, <3>1
    <3>3. 100 * q <= 101 * IntentInfo[execIntent].target
      BY <2>2 DEF WithinTarget
    <3> HIDE DEF row, q
    <3> QED
      BY <1>1, <2>2, <3>2, <3>3 DEF HedgeInv, HedgeTypeOK, TypeOK
  <2>3. CASE UNCHANGED <<hedgeflows, rows, pgFaults>>
    BY <2>3 DEF HedgeInv, HedgeTypeOK, TypeOK, rows
  <2> QED
    BY <2>1, <2>2, <2>3 DEF ApplyReportToFlow
<1>4. TypeOK'
  BY <1>3, LedgerKept DEF HedgeInv, HedgeTypeOK, TypeOK, ApplyReportToFlow, Statement, ledgerVars
<1> QED
  BY <1>1, <1>3, <1>4, ReportsAssumption
  DEF HedgeInv, HedgeTypeOK, ApplyReportToFlow, Statement, venue, ExecPcs, Reporting

LEMMA EndType ==
  ASSUME HedgeInv, PublishSimExecution \/ CommitExec \/ ExecCrash
  PROVE  HedgeTypeOK'
<1>1. UNCHANGED <<ledgerVars, hedgeflows, pgFaults>>
  BY DEF PublishSimExecution, CommitExec, ExecCrash
<1>2. TypeOK'
  BY <1>1, LedgerKept DEF HedgeInv, HedgeTypeOK, TypeOK, ledgerVars
<1>3. CASE PublishSimExecution
  BY <1>2, <1>3, ReportsAssumption
  DEF PublishSimExecution, HedgeInv, HedgeTypeOK, venue, rows, ExecPcs, Reporting
<1>4. CASE CommitExec
  BY <1>2, <1>4
  DEF CommitExec, AfterCommit, HedgeInv, HedgeTypeOK, venue, rows, ExecPcs, Reporting
<1>5. CASE ExecCrash
  BY <1>2, <1>5, HedgeAssumption
  DEF ExecCrash, HedgeInv, HedgeTypeOK, venue, rows, ExecPcs, Reporting
<1> QED
  BY <1>3, <1>4, <1>5

LEMMA LedgerThreadsType == ASSUME HedgeInv, LedgerThreads PROVE HedgeTypeOK'
<1>1. TypeOK'
  BY NextType DEF HedgeInv, HedgeTypeOK, LedgerThreads, Next
<1> QED
  BY <1>1
  DEF HedgeInv, HedgeTypeOK, LedgerThreads, venuesVars, handler, venue, rows

-----------------------------------------------------------------------------
(* Attempts are paid for by restarts.                                      *)

LEMMA SendPaid ==
  ASSUME HedgeInv, execIntent # None, NEW o \in Outcomes, NEW reached \in BOOLEAN,
         NEW q \in ExecutedBy(execIntent, o), SendOrder(o, reached, q)
  PROVE  AttemptsPaid'
<1> DEFINE e == execIntent
<1>1. e \in Intents
  BY DEF HedgeInv, HedgeTypeOK
<1>2. /\ q \in Nat /\ q <= IntentInfo[e].target
      /\ \A i \in Intents : IntentInfo[i].target \in Nat
  BY <1>1, ExecutedByType, ReportsAssumption
<1>3. UNCHANGED <<published, attempts, execCrashes, execInbox, execIntent>> /\ execPc = "send"
      /\ execPc' = "execution.venue"
  BY DEF SendOrder
<1> SUFFICES ASSUME NEW i \in Intents
    PROVE /\ atVenue'[i] <= attempts[i]
          /\ executed'[i] <= atVenue'[i] * IntentInfo[i].target
  BY <1>3 DEF HedgeInv, AttemptsPaid, Unsent
<1>4. /\ atVenue[i] \in Nat /\ executed[i] \in Nat /\ attempts[i] \in Nat
      /\ atVenue[i] <= attempts[i]
      /\ executed[i] <= atVenue[i] * IntentInfo[i].target
      /\ i = e => atVenue[i] < attempts[i]
  BY <1>3 DEF HedgeInv, HedgeTypeOK, AttemptsPaid, Unsent
<1>5. CASE i # e
  <2>1. atVenue'[i] = atVenue[i] /\ executed'[i] = executed[i]
    BY <1>1, <1>5 DEF SendOrder, HedgeInv, HedgeTypeOK
  <2> QED
    BY <1>4, <2>1
<1>6. CASE i = e /\ reached
  <2>1. atVenue'[i] = atVenue[i] + 1 /\ executed'[i] = executed[i] + q
    BY <1>1, <1>6 DEF SendOrder, HedgeInv, HedgeTypeOK
  <2> DEFINE a == atVenue[i]
             t == IntentInfo[i].target
             x == executed[i]
  <2>2. a \in Nat /\ t \in Nat /\ x \in Nat /\ x <= a * t /\ q <= t
    BY <1>2, <1>4, <1>6
  <2> HIDE DEF a, t, x
  <2>3. x + q <= (a + 1) * t
    BY <1>2, <2>2
  <2> QED
    BY <1>4, <1>6, <2>1, <2>3 DEF a, t, x
<1>7. CASE i = e /\ ~reached
  <2>1. atVenue'[i] = atVenue[i] /\ executed'[i] = executed[i]
    BY <1>1, <1>4, <1>7 DEF SendOrder, HedgeInv, HedgeTypeOK
  <2> QED
    BY <1>4, <2>1
<1> QED
  BY <1>5, <1>6, <1>7

LEMMA TakePaid ==
  ASSUME HedgeInv, NEW j \in execInbox, NEW mode \in Modes, TakeIntent(j, mode)
  PROVE  AttemptsPaid'
<1>1. /\ j \in Intents /\ j \in published /\ execIntent = None
      /\ execIntent' = j
      /\ UNCHANGED <<published, execCrashes, execInbox, atVenue, executed>>
      /\ attempts' = [attempts EXCEPT ![j] = @ + 1]
  BY DEF HedgeInv, HedgeTypeOK, TakeIntent
<1> SUFFICES ASSUME NEW i \in Intents
    PROVE /\ i \notin published => attempts'[i] = 0
          /\ attempts'[i] <= 1 + execCrashes
          /\ (i \in execInbox /\ j # i) => attempts'[i] <= execCrashes
          /\ j = i => i \in published /\ attempts'[i] > 0
          /\ atVenue[i] <= attempts'[i]
          /\ j = i => atVenue[i] < attempts'[i]
          /\ executed[i] <= atVenue[i] * IntentInfo[i].target
  BY <1>1 DEF AttemptsPaid
<1>2. /\ attempts[i] \in Nat /\ atVenue[i] \in Nat /\ execCrashes \in Nat
      /\ i \notin published => attempts[i] = 0
      /\ attempts[i] <= 1 + execCrashes
      /\ i \in execInbox => attempts[i] <= execCrashes
      /\ atVenue[i] <= attempts[i]
      /\ executed[i] <= atVenue[i] * IntentInfo[i].target
  BY <1>1, ReportsAssumption DEF HedgeInv, HedgeTypeOK, AttemptsPaid
<1>3. attempts'[i] = IF i = j THEN attempts[i] + 1 ELSE attempts[i]
  BY <1>1 DEF HedgeInv, HedgeTypeOK
<1> QED
  BY <1>1, <1>2, <1>3

LEMMA PublishPaid ==
  ASSUME HedgeInv, NEW j \in Intents, PublishIntent(j)
  PROVE  AttemptsPaid'
BY DEF HedgeInv, HedgeTypeOK, AttemptsPaid, PublishIntent, handler, venue

(* The steps of the handler that place no order.                           *)
LEMMA StepPaid ==
  ASSUME HedgeInv, UNCHANGED <<published, execInbox, execIntent, venue, execCrashes>>,
         execPc' \in Unsent => execPc \in Unsent
  PROVE  AttemptsPaid'
BY DEF HedgeInv, AttemptsPaid, venue

LEMMA EndPaid == ASSUME HedgeInv, CommitExec \/ ExecCrash PROVE AttemptsPaid'
<1>1. CASE CommitExec
  BY <1>1, ReportsAssumption
  DEF CommitExec, AfterCommit, HedgeInv, HedgeTypeOK, AttemptsPaid, venue
<1>2. CASE ExecCrash
  BY <1>2, ReportsAssumption
  DEF ExecCrash, HedgeInv, HedgeTypeOK, AttemptsPaid, venue
<1> QED
  BY <1>1, <1>2

LEMMA HedgeStep == HedgeInv /\ [NextHedge]_hedgeVars => HedgeInv'
<1> SUFFICES ASSUME HedgeInv, [NextHedge]_hedgeVars PROVE HedgeInv'
  OBVIOUS
<1>1. ASSUME NEW i \in Intents, PublishIntent(i) PROVE HedgeInv'
  BY <1>1, PublishIntentType, PublishPaid DEF HedgeInv
<1>2. ASSUME NEW i \in execInbox, NEW mode \in Modes, TakeIntent(i, mode) PROVE HedgeInv'
  BY <1>2, TakeIntentType, TakePaid DEF HedgeInv
<1>3. CASE InsertOpen
  <2>1. AttemptsPaid'
    BY <1>3, StepPaid DEF InsertOpen, Statement, Unsent
  <2> QED
    BY <1>3, <2>1, InsertOpenType DEF HedgeInv
<1>4. CASE InsertPending
  <2>1. AttemptsPaid'
    BY <1>4, StepPaid DEF InsertPending, Statement, Unsent
  <2> QED
    BY <1>4, <2>1, InsertPendingType DEF HedgeInv
<1>5. ASSUME execIntent # None, NEW o \in Outcomes, NEW reached \in BOOLEAN,
             NEW q \in ExecutedBy(execIntent, o), SendOrder(o, reached, q)
      PROVE  HedgeInv'
  BY <1>5, SendOrderType, SendPaid DEF HedgeInv
<1>6. ASSUME NEW topic \in Topics, NEW next \in {"execution.reports", "apply_child"},
             Publish(topic, next)
      PROVE  HedgeInv'
  <2>1. AttemptsPaid'
    BY <1>6, StepPaid DEF Publish, Unsent
  <2> QED
    BY <1>6, <2>1, PublishType DEF HedgeInv
<1>7. CASE ApplyReportToChild
  <2>1. AttemptsPaid'
    BY <1>7, StepPaid DEF ApplyReportToChild, Statement, Unsent
  <2> QED
    BY <1>7, <2>1, ApplyChildType DEF HedgeInv
<1>8. CASE ApplyReportToFlow
  <2>1. AttemptsPaid'
    BY <1>8, StepPaid DEF ApplyReportToFlow, Statement, Unsent
  <2> QED
    BY <1>8, <2>1, ApplyFlowType DEF HedgeInv
<1>9. CASE PublishSimExecution
  <2>1. AttemptsPaid'
    BY <1>9, StepPaid DEF PublishSimExecution, Unsent
  <2> QED
    BY <1>9, <2>1, EndType DEF HedgeInv
<1>10. CASE CommitExec \/ ExecCrash
  BY <1>10, EndType, EndPaid DEF HedgeInv
<1>11. CASE LedgerThreads
  <2>1. AttemptsPaid'
    BY <1>11, StepPaid DEF LedgerThreads, venuesVars, handler
  <2> QED
    BY <1>11, <2>1, LedgerThreadsType DEF HedgeInv
<1>12. CASE UNCHANGED hedgeVars
  <2>1. TypeOK'
    BY <1>12, NextType DEF hedgeVars, HedgeInv, HedgeTypeOK
  <2> QED
    BY <1>12, <2>1
    DEF hedgeVars, venuesVars, handler, venue, rows, HedgeInv, HedgeTypeOK, AttemptsPaid
<1> QED
  BY <1>1, <1>2, <1>3, <1>4, <1>5, <1>6, <1>7, <1>8, <1>9, <1>10, <1>11, <1>12
  DEF NextHedge, ExecThread, Topics

LEMMA HedgeInvariant == HedgeSpec => []HedgeInv
BY HedgeInit, HedgeStep, PTL DEF HedgeSpec

(* Types of both services, and the rows of hedgeflows never exceed their   *)
(* target by more than the constraint allows, however often an intent is   *)
(* delivered.                                                              *)
THEOREM HedgeTypeCorrect == HedgeSpec => []HedgeTypeOK
<1>1. HedgeInv => HedgeTypeOK
  BY DEF HedgeInv
<1> QED
  BY <1>1, HedgeInvariant, PTL

(* An intent is executed at most once more than venues was restarted: the  *)
(* offset is committed after the handler, so only a restart delivers an    *)
(* intent again.                                                           *)
THEOREM OverHedgeBounded == HedgeSpec => []HedgeBounded
<1>1. HedgeInv => HedgeBounded
  <2> SUFFICES ASSUME HedgeInv, NEW i \in Intents
      PROVE atVenue[i] <= 1 + execCrashes /\ executed[i] <= (1 + execCrashes) * IntentInfo[i].target
    BY DEF HedgeBounded
  <2> DEFINE a == atVenue[i]
             c == 1 + execCrashes
             t == IntentInfo[i].target
  <2>1. /\ a \in Nat /\ c \in Nat /\ t \in Nat /\ executed[i] \in Nat
        /\ a <= c /\ executed[i] <= a * t
    BY HedgeAssumption, ReportsAssumption DEF HedgeInv, HedgeTypeOK, AttemptsPaid
  <2> HIDE DEF a, c, t
  <2>2. a * t <= c * t
    BY <2>1
  <2>3. a * t \in Nat /\ c * t \in Nat
    BY <2>1
  <2> QED
    BY <2>1, <2>2, <2>3 DEF a, c, t
<1> QED
  BY <1>1, HedgeInvariant, PTL

(* The guarantee of the pending queue holds in the composed system: a      *)
(* report of venues never waits for an intent the ledger already knows,    *)
(* whichever service reads execution.intents first.                        *)
THEOREM HedgeNothingStranded == HedgeSpec => []NoStrandedReports
<1>1. InitHedge => NoStrandedReports
  BY DEF InitHedge, InitReports, InitVenues, InitLedger, InitQueues, NoStrandedReports
<1>2. HedgeInv /\ NoStrandedReports /\ [NextHedge]_hedgeVars => NoStrandedReports'
  <2> SUFFICES ASSUME HedgeInv, NoStrandedReports, [NextHedge]_hedgeVars
               PROVE  NoStrandedReports'
    OBVIOUS
  <2>1. CASE LedgerThreads
    BY <2>1, StrandedStep DEF LedgerThreads, HedgeInv, HedgeTypeOK, Next
  <2>2. CASE UNCHANGED queues
    BY <2>2 DEF queues, NoStrandedReports
  <2> QED
    BY <2>1, <2>2
    DEF NextHedge, ExecThread, PublishIntent, TakeIntent, InsertOpen, InsertPending,
        SendOrder, Publish, ApplyReportToChild, ApplyReportToFlow, PublishSimExecution,
        CommitExec, ExecCrash, Statement, ledgerVars, hedgeVars, reportVars
<1> QED
  BY <1>1, <1>2, HedgeInvariant, PTL DEF HedgeSpec

(* The guarantees of the ledger's consumers hold when the reports come     *)
(* from venues as it really runs: lost copies, repeated executions after a *)
(* restart, failed statements.                                             *)
THEOREM HedgeReportsSafe == HedgeSpec => []ReportsSafety
<1> DEFINE Inv == FromReports /\ QuantityConverges /\ BaseInv
<1>1. InitHedge => Inv
  <2> SUFFICES ASSUME InitHedge PROVE Inv
    OBVIOUS
  <2>1. InitBooks(execution_states, venue_balances, hedge_pnl_summary)
    BY DEF InitHedge, InitReports, InitLedger
  <2>2. FromReports
    BY <2>1 DEF InitBooks, FromReports
  <2>3. seen_execution_report_keys = {}
    BY DEF InitHedge, InitReports, InitLedger, InitQueues
  <2>4. QuantityConverges
    BY <2>3 DEF QuantityConverges, Settled, Planned
  <2> QED
    BY <2>1, <2>2, <2>4, BaseStart
<1>2. HedgeInv /\ HedgeInv' /\ Inv /\ [NextHedge]_hedgeVars => Inv'
  <2> SUFFICES ASSUME HedgeInv, HedgeInv', Inv, [NextHedge]_hedgeVars PROVE Inv'
    OBVIOUS
  <2>0. TypeOK /\ TypeOK'
    BY DEF HedgeInv, HedgeTypeOK
  <2>1. CASE LedgerThreads
    <3>1. [Next]_reportVars
      BY <2>1 DEF LedgerThreads, Next
    <3> QED
      BY <2>0, <3>1, FromReportsStep, ConvergesStep, BaseStep
  <2>2. CASE UNCHANGED <<books, queues>>
    <3>1. FromReports'
      BY <2>2 DEF FromReports, Planned, books
    <3>2. QuantityConverges'
      BY <2>2, ConvergesKept DEF books, queues, Settled, Waiting
    <3>3. BaseInv'
      BY <2>2 DEF books, BaseInv, BaseMatchesStates, Booked, SignedFills
    <3> QED
      BY <3>1, <3>2, <3>3
  <2> QED
    BY <2>1, <2>2
    DEF NextHedge, ExecThread, PublishIntent, TakeIntent, InsertOpen, InsertPending,
        SendOrder, Publish, ApplyReportToChild, ApplyReportToFlow, PublishSimExecution,
        CommitExec, ExecCrash, Statement, ledgerVars, hedgeVars, reportVars
<1>3. NoStrandedReports /\ Inv => ReportsSafety
  BY DEF ReportsSafety, BaseInv
<1> HIDE DEF Inv
<1> QED
  BY <1>1, <1>2, <1>3, HedgeInvariant, HedgeNothingStranded, PTL DEF HedgeSpec

(* The books are typed, with the CHECK of hedgeflows, and orders at the    *)
(* venue are bounded by restarts, for any intents and faults.              *)
THEOREM HedgesAreSafe == HedgeSpec => []HedgeSafety
BY HedgeTypeCorrect, OverHedgeBounded, PTL DEF HedgeSafety
-----------------------------------------------------------------------------
(* The books of venues and of the ledger.                                  *)

(* A report that was published and reached its topic, handled or not.      *)
Present(r) ==
  \/ \E t \in Topics : <<t, r>> \in reportInbox
  \/ r.id \in seen_execution_report_keys

(* The ledger is sent nothing but reports of venues.                       *)
Handled(r) == r \in ExecutionReportSet /\ r.id \in seen_execution_report_keys
OnlySent ==
  /\ \A m \in reportInbox : m[2] \in ExecutionReportSet
  /\ \A i \in Intents : \A n \in DOMAIN pending_execution_reports[i] :
       Handled(pending_execution_reports[i][n])
  /\ \A n \in DOMAIN flushing : Handled(flushing[n])

(* What is in the execution states is what a handled report says, and a    *)
(* report that is settled is in them.                                      *)
Says(k, q) ==
  /\ Key(q) = k /\ q.id \in seen_execution_report_keys
  /\ execution_states[k].status = q.status /\ execution_states[k].filled = q.filled
FromSent ==
  \A k \in Keys :
    \/ execution_states[k].status = "UNSPECIFIED" /\ execution_states[k].filled = 0
    \/ \E q \in ExecutionReportSet : Says(k, q)
SettledBooked ==
  \A r \in ExecutionReportSet : Settled(r) => execution_states[Key(r)].status # "UNSPECIFIED"

ConsumersInOrder ==
  /\ reportConsumer # NoMessage => reportConsumer[2].id \in seen_execution_report_keys
  /\ flushing # << >> => intentConsumer # None
  /\ intentConsumer # None => intentConsumer \in intentInbox \cap execution_intents
IntentsArrive == crashes = 0 => published \subseteq execution_intents \cup intentInbox

LedgerSide == OnlySent /\ FromSent /\ SettledBooked /\ ConsumersInOrder

(* The report in the hands of venues; one of its two copies may be lost.   *)
ReportHeld ==
  /\ execPc \in Reporting => execReport \in ExecutionReportSet /\ execReport.intent = execIntent
  /\ crashes = 0 /\ execPc = "execution.reports" => Present(execReport) \/ lost >= 1
  /\ crashes = 0 /\ lost <= 1 /\ execPc \in {"apply_child", "apply_flow"} => Present(execReport)

(* A fill in hedgeflows is that of a report that was published.            *)
Backed(i) == \E r \in ExecutionReportSet :
               r.intent = i /\ r.filled = IntentInfo[i].target /\ Present(r)
FlowsBacked ==
  \A i \in Intents : flows[i].filled # 0 =>
    /\ flows[i].filled = IntentInfo[i].target
    /\ crashes = 0 /\ lost <= 1 => Backed(i)

(* Without failures of PG and restarts of venues an intent has at most one *)
(* report, and its rows say what the report says once it is applied.       *)
NewFlow(i)  == flows[i].filled = 0 /\ flows[i].status = "OPEN"
NewChild(i) == children[i].filled = 0 /\ children[i].status = "PENDING"
OnlyReport(i, r) == \A q \in ExecutionReportSet : q.intent = i /\ Present(q) => q = r
NoReports(i) == \A q \in ExecutionReportSet : q.intent = i => ~Present(q)
Untouched(i) == NewFlow(i) /\ NewChild(i) /\ NoReports(i)
ChildSays(i, r) == children[i].filled = r.filled /\ children[i].status = ChildStatus(r.status)
FlowSays(i, r)  == flows[i].filled = r.filled /\ flows[i].status = FlowStatus(r.status)
Applied(i, r) ==
  /\ r.intent = i /\ OnlyReport(i, r) /\ ChildSays(i, r) /\ FlowSays(i, r)
  /\ crashes = 0 /\ lost <= 1 => Present(r)

(* The steps of the handler before the report is published, before it is   *)
(* in child_orders, before it is in hedgeflows, and all others.            *)
Preparing(i) ==
  /\ execIntent = i /\ execPc \in {"insert_flow", "insert_child", "send", "execution.venue"}
  /\ Untouched(i)
  /\ execPc # "insert_flow" => hedgeflows[i].open
  /\ execPc \in {"send", "execution.venue"} => children[i].placed
Reported(i) ==
  /\ execIntent = i /\ execPc \in {"execution.reports", "apply_child"}
  /\ NewFlow(i) /\ NewChild(i) /\ OnlyReport(i, execReport)
  /\ hedgeflows[i].open /\ children[i].placed
ChildApplied(i) ==
  /\ execIntent = i /\ execPc = "apply_flow"
  /\ NewFlow(i) /\ ChildSays(i, execReport) /\ OnlyReport(i, execReport)
  /\ hedgeflows[i].open
InAgreement(i) ==
  /\ execIntent = i => execPc \in {"simulate", "commit"}
  /\ Untouched(i) \/ \E r \in ExecutionReportSet : Applied(i, r)
CalmRows(i) ==
  /\ attempts[i] = 0 => Untouched(i)
  /\ Preparing(i) \/ Reported(i) \/ ChildApplied(i) \/ InAgreement(i)
CalmInv == pgFaults = 0 /\ execCrashes = 0 => \A i \in Intents : CalmRows(i)

VenueSide == ReportHeld /\ FlowsBacked /\ CalmInv
SidesAgree == LedgerSide /\ IntentsArrive /\ VenueSide
-----------------------------------------------------------------------------
(* A report of venues fits its plan, is of a status that is final or       *)
(* partial, and fills all or nothing.                                      *)
LEMMA ReportForm ==
  ASSUME NEW r \in ExecutionReportSet
  PROVE  /\ r \in ReportSet /\ r.intent \in Intents /\ Key(r) \in Keys /\ Key(r)[1] = r.intent
         /\ ~Mismatch(r) /\ ~ExceedsPlan(r)
         /\ NormalizeStatus(r) = r.status /\ r.status # "UNSPECIFIED"
         /\ r.filled \in {0, IntentInfo[r.intent].target}
         /\ IntentInfo[r.intent].target \in Nat /\ IntentInfo[r.intent].target > 0
<1>1. PICK i \in Intents, n \in Attempts, o \in Outcomes : r = Report(i, n, o)
  BY DEF ExecutionReportSet
<1> DEFINE t == IntentInfo[i].target
           m == MakeExecutionReport(i, n, o)
<1>2. t \in Nat /\ t > 0
  BY HedgeAssumption, ReportsAssumption
<1>3. /\ m.intent = i /\ m.plan = IntentInfo[i].plan
      /\ m.filled \in {0, t}
      /\ m.remaining = 0
      /\ m.error \in BOOLEAN
      /\ m.error => m.status = "REJECTED"
      /\ ~m.error => m.filled = t
  BY DEF MakeExecutionReport
<1>4. r = [m EXCEPT !.status = Normalize(m)]
  BY <1>1 DEF Report
<1>5. /\ r.intent = i /\ r.plan = m.plan /\ r.filled = m.filled /\ r.status = Normalize(m)
  BY <1>4 DEF MakeExecutionReport
<1>6. r.status \notin {"NEW", "UNSPECIFIED"}
  <2> HIDE DEF m, t
  <2> QED
    BY <1>2, <1>3, <1>5 DEF Normalize
<1>7. NormalizeStatus(r) = r.status /\ r.status # "UNSPECIFIED"
  BY <1>6 DEF NormalizeStatus
<1>8. ~Mismatch(r) /\ ~ExceedsPlan(r)
  <2> HIDE DEF m
  <2> QED
    BY <1>2, <1>3, <1>5 DEF Mismatch, ExceedsPlan
<1>9. r \in ReportSet
  BY HedgeAssumption
<1> HIDE DEF m
<1> QED
  BY <1>2, <1>3, <1>5, <1>7, <1>8, <1>9 DEF Key, Keys

LEMMA SameKey ==
  ASSUME NEW r \in ExecutionReportSet, NEW q \in ExecutionReportSet, Key(r) = Key(q)
  PROVE  r.intent = q.intent /\ r.filled = q.filled
<1>1. PICK i \in Intents, n \in Attempts, o \in Outcomes : r = Report(i, n, o)
  BY DEF ExecutionReportSet
<1>2. PICK j \in Intents, l \in Attempts, p \in Outcomes : q = Report(j, l, p)
  BY DEF ExecutionReportSet
<1>3. /\ r.intent = i /\ q.intent = j
      /\ r.order = <<i, IF o \in VenueStatuses THEN n ELSE 0>>
      /\ q.order = <<j, IF p \in VenueStatuses THEN l ELSE 0>>
      /\ r.filled = IF o \in VenueStatuses THEN IntentInfo[i].target ELSE 0
      /\ q.filled = IF p \in VenueStatuses THEN IntentInfo[j].target ELSE 0
  BY <1>1, <1>2 DEF Report, MakeExecutionReport
<1>4. i = j /\ r.order = q.order
  BY <1>3 DEF Key
<1>5. n \in Nat /\ n > 0 /\ l \in Nat /\ l > 0
  BY HedgeAssumption DEF Attempts
<1>6. o \in VenueStatuses <=> p \in VenueStatuses
  BY <1>3, <1>4, <1>5
<1> QED
  BY <1>3, <1>4, <1>6

-----------------------------------------------------------------------------
(* The steps of the ledger.                                                *)

(* They publish nothing, and only a restart forgets what was handled.      *)
LEMMA PresentKept ==
  ASSUME TypeOK, ConsumersInOrder, [Next]_reportVars, NEW r \in ReportSet
  PROVE  /\ Present(r)' => Present(r)
         /\ crashes' = 0 => (Present(r) => Present(r)')
<1>1. CASE UNCHANGED <<reportInbox, seen_execution_report_keys>>
  BY <1>1 DEF Present
<1>2. CASE CommitReport
  <2>1. /\ reportConsumer # NoMessage /\ reportConsumer[2].id \in seen_execution_report_keys
        /\ reportInbox' = reportInbox \ {reportConsumer}
        /\ seen_execution_report_keys' = seen_execution_report_keys
    BY <1>2 DEF CommitReport, queues, ConsumersInOrder
  <2>2. ASSUME NEW t \in Topics, <<t, r>> = reportConsumer PROVE r.id \in seen_execution_report_keys
    <3>1. reportConsumer[2] = r
      BY <2>2
    <3> QED
      BY <2>1, <3>1
  <2> QED
    BY <2>1, <2>2 DEF Present
<1>3. ASSUME NEW m \in reportInbox, ApplyExecutionReport(m) PROVE Present(r) <=> Present(r)'
  <2>1. /\ m[1] \in Topics /\ m[2] \in ReportSet /\ m = <<m[1], m[2]>>
    BY DEF TypeOK, Messages
  <2>2. r.id = m[2].id => r = m[2]
    BY <2>1, ReportsAssumption
  <2>3. /\ reportInbox' = reportInbox
        /\ seen_execution_report_keys' = seen_execution_report_keys \cup {m[2].id}
    BY <1>3 DEF ApplyExecutionReport
  <2> QED
    BY <2>1, <2>2, <2>3 DEF Present
<1>4. CASE Crash
  <2>1. crashes' = crashes + 1 /\ reportInbox' = reportInbox /\ seen_execution_report_keys' = {}
    BY <1>4 DEF Crash, InitQueues
  <2>2. crashes' # 0
    BY <2>1, ReportsAssumption DEF TypeOK
  <2> QED
    BY <2>1, <2>2 DEF Present
<1> QED
  BY <1>1, <1>2, <1>3, <1>4
  DEF Next, IntentThread, ReportThread, RememberExecutionIntent, ReplayPending,
      CommitIntent, queues, topics, reportVars

LEMMA OnlySentStep ==
  ASSUME TypeOK, OnlySent, [Next]_reportVars
  PROVE  OnlySent'
<1>1. CASE UNCHANGED queues /\ reportInbox' \subseteq reportInbox
  BY <1>1 DEF OnlySent, Handled, queues
<1>2. ASSUME NEW i \in intentInbox, RememberExecutionIntent(i) PROVE OnlySent'
  <2>0. i \in Intents
    BY DEF TypeOK
  <2>1. /\ pending_execution_reports' = [pending_execution_reports EXCEPT ![i] = << >>]
        /\ flushing' = pending_execution_reports[i]
        /\ UNCHANGED <<reportInbox, seen_execution_report_keys>>
    BY <1>2 DEF RememberExecutionIntent, ClearPending
  <2>2. \A j \in Intents : pending_execution_reports'[j] =
            IF j = i THEN << >> ELSE pending_execution_reports[j]
    BY <2>0, <2>1 DEF TypeOK
  <2>3. DOMAIN << >> = {}
    OBVIOUS
  <2>4. \A j \in Intents : \A n \in DOMAIN pending_execution_reports'[j] :
            Handled(pending_execution_reports'[j][n])
    BY <2>2, <2>3 DEF OnlySent
  <2> QED
    BY <2>0, <2>1, <2>4 DEF OnlySent, Handled
<1>3. CASE ReplayPending
  <2>1. /\ flushing' = Tail(flushing) /\ flushing # << >> /\ flushing \in Seq(ReportSet)
        /\ UNCHANGED <<pending_execution_reports, seen_execution_report_keys, reportInbox>>
    BY <1>3 DEF ReplayPending, Locked, topics, TypeOK
  <2>2. ASSUME NEW n \in DOMAIN flushing' PROVE Handled(flushing'[n])
    <3>1. n + 1 \in DOMAIN flushing /\ flushing'[n] = flushing[n + 1]
      BY <2>1
    <3> QED
      BY <3>1 DEF OnlySent
  <2> QED
    BY <2>1, <2>2 DEF OnlySent, Handled
<1>4. ASSUME NEW m \in reportInbox, ApplyExecutionReport(m) PROVE OnlySent'
  <2> DEFINE r == m[2]
  <2>1. r \in ExecutionReportSet /\ r.intent \in Intents
    BY ReportForm DEF OnlySent
  <2>2. /\ seen_execution_report_keys' = seen_execution_report_keys \cup {r.id}
        /\ UNCHANGED <<flushing, reportInbox>>
    BY <1>4 DEF ApplyExecutionReport
  <2> DEFINE seen == seen_execution_report_keys'
  <2>3. r \in ExecutionReportSet /\ r.id \in seen
    BY <2>1, <2>2
  <2>4. ASSUME NEW j \in Intents, NEW n \in DOMAIN pending_execution_reports'[j]
        PROVE  /\ pending_execution_reports'[j][n] \in ExecutionReportSet
               /\ pending_execution_reports'[j][n].id \in seen
    <3> DEFINE p == pending_execution_reports[j]
    <3>1. p \in Seq(ReportSet)
      BY DEF TypeOK
    <3>2. \A l \in DOMAIN p : p[l] \in ExecutionReportSet /\ p[l].id \in seen
      BY <2>2 DEF OnlySent, Handled
    <3>3. pending_execution_reports'[j] = p \/ pending_execution_reports'[j] = Append(p, r)
      <4>1. CASE pending_execution_reports' = pending_execution_reports
        BY <4>1
      <4>2. CASE pending_execution_reports' =
                   [pending_execution_reports EXCEPT ![r.intent] = Append(@, r)]
        BY <2>1, <4>2 DEF TypeOK
      <4> QED
        BY <1>4, <4>1, <4>2 DEF ApplyExecutionReport
    <3> HIDE DEF p, r, seen
    <3>4. CASE pending_execution_reports'[j] = p
      BY <3>2, <3>4
    <3>5. CASE pending_execution_reports'[j] = Append(p, r)
      <4>1. Append(p, r)[n] = r \/ (n \in DOMAIN p /\ Append(p, r)[n] = p[n])
        BY <2>1, <3>1, <3>5
      <4> QED
        BY <2>3, <3>2, <3>5, <4>1
    <3> QED
      BY <3>3, <3>4, <3>5
  <2>5. \A n \in DOMAIN flushing : flushing[n] \in ExecutionReportSet /\ flushing[n].id \in seen
    BY <2>2 DEF OnlySent, Handled
  <2> QED
    BY <2>2, <2>4, <2>5 DEF OnlySent, Handled
<1>5. CASE Crash
  <2>1. DOMAIN << >> = {}
    OBVIOUS
  <2>2. /\ pending_execution_reports' = [x \in Intents |-> << >>] /\ flushing' = << >>
        /\ UNCHANGED reportInbox
    BY <1>5 DEF Crash, InitQueues
  <2> QED
    BY <2>1, <2>2 DEF OnlySent
<1> QED
  BY <1>1, <1>2, <1>3, <1>4, <1>5
  DEF Next, IntentThread, ReportThread, CommitIntent, CommitReport, queues, reportVars, topics

(* What a restart leaves of the execution states.                          *)
LEMMA BooksRestart ==
  ASSUME Crash PROVE FromSent' /\ SettledBooked'
<1>1. \A k \in Keys : execution_states'[k].status = "UNSPECIFIED" /\ execution_states'[k].filled = 0
  BY DEF Crash, InitBooks
<1>2. seen_execution_report_keys' = {}
  BY DEF Crash, InitQueues
<1> QED
  BY <1>1, <1>2 DEF FromSent, SettledBooked, Settled

LEMMA FromSentStep ==
  ASSUME TypeOK, OnlySent, FromSent, [Next]_reportVars, ~Crash
  PROVE  FromSent'
<1>1. seen_execution_report_keys \subseteq seen_execution_report_keys'
  BY DEF Next, IntentThread, ReportThread, RememberExecutionIntent, ReplayPending,
         CommitIntent, ApplyExecutionReport, CommitReport, queues, reportVars
<1>2. CASE UNCHANGED execution_states
  <2> SUFFICES ASSUME NEW k \in Keys
      PROVE \/ execution_states'[k].status = "UNSPECIFIED" /\ execution_states'[k].filled = 0
            \/ \E q \in ExecutionReportSet : Says(k, q)'
    BY DEF FromSent
  <2> QED
    BY <1>1, <1>2 DEF FromSent, Says
<1>3. ASSUME NEW r \in ReportSet, Settles(r) PROVE FromSent'
  <2>1. r \in ExecutionReportSet /\ r.id \in seen_execution_report_keys'
    <3>1. CASE flushing # << >> /\ r = Head(flushing)
      <4>1. flushing \in Seq(ReportSet)
        BY DEF TypeOK
      <4>2. 1 \in DOMAIN flushing /\ r = flushing[1]
        BY <3>1, <4>1
      <4> QED
        BY <1>1, <4>2 DEF OnlySent, Handled
    <3>2. ASSUME NEW m \in reportInbox, ApplyExecutionReport(m), r = m[2]
          PROVE  r \in ExecutionReportSet /\ r.id \in seen_execution_report_keys'
      BY <3>2 DEF OnlySent, ApplyExecutionReport
    <3> QED
      BY <1>3, <3>1, <3>2 DEF Settles
  <2>2. CASE Accepted(r) /\ execution_states' = [execution_states EXCEPT ![Key(r)] = SaveState(r)]
    <3> SUFFICES ASSUME NEW k \in Keys
        PROVE \/ execution_states'[k].status = "UNSPECIFIED" /\ execution_states'[k].filled = 0
              \/ \E q \in ExecutionReportSet : Says(k, q)'
      BY DEF FromSent
    <3>1. CASE k = Key(r)
      <4>1. execution_states'[k] = SaveState(r)
        BY <2>2, <3>1 DEF TypeOK
      <4>2. SaveState(r).status = r.status /\ SaveState(r).filled = r.filled
        BY <2>1, SaveStateType, ReportForm
      <4> QED
        BY <2>1, <3>1, <4>1, <4>2 DEF Says
    <3>2. CASE k # Key(r)
      <4>1. execution_states'[k] = execution_states[k]
        BY <2>2, <3>2 DEF TypeOK
      <4> QED
        BY <1>1, <4>1 DEF FromSent, Says
    <3> QED
      BY <3>1, <3>2
  <2> QED
    BY <1>2, <1>3, <2>2 DEF Settles, ApplyReportLocked, books
<1> QED
  BY <1>2, <1>3, SettledStep DEF SettlesNothing

(* A report that is refused finds its order in the execution states.       *)
LEMMA SettledBookedStep ==
  ASSUME TypeOK, OnlySent, FromSent, SettledBooked, [Next]_reportVars, ~Crash
  PROVE  SettledBooked'
<1>1. CASE SettlesNothing
  <2> SUFFICES ASSUME NEW q \in ExecutionReportSet, Settled(q)'
               PROVE  execution_states'[Key(q)].status # "UNSPECIFIED"
    BY DEF SettledBooked
  <2>1. Settled(q)
    BY <1>1, ReportForm DEF SettlesNothing
  <2> QED
    BY <1>1, <2>1 DEF SettlesNothing, SettledBooked
<1>2. ASSUME NEW r \in ReportSet, Settles(r) PROVE SettledBooked'
  <2> SUFFICES ASSUME NEW q \in ExecutionReportSet, Settled(q)'
               PROVE  execution_states'[Key(q)].status # "UNSPECIFIED"
    BY DEF SettledBooked
  <2> DEFINE k == Key(q)
  <2>1. /\ q \in ReportSet /\ k \in Keys /\ ~Mismatch(q) /\ ~ExceedsPlan(q)
        /\ NormalizeStatus(q) = q.status /\ q.status # "UNSPECIFIED" /\ q.filled \in Nat
    BY ReportForm, ReportType
  <2>2. Settled(q) \/ q = r
    BY <1>2, <2>1 DEF Settles
  <2>3. CASE UNCHANGED execution_states /\ (q = r => ~Accepted(r))
    <3>1. CASE Settled(q)
      BY <2>3, <3>1 DEF SettledBooked
    <3>2. CASE q = r
      <4>1. Regressed(q) \/ ~AllowedTransition(State(q).status, q.status)
        BY <2>1, <2>3, <3>2 DEF Accepted
      <4>2. CASE Regressed(q)
        <5>1. State(q).filled # 0
          BY <2>1, <4>2 DEF Regressed, State, TypeOK
        <5>2. PICK p \in ExecutionReportSet : Says(k, p)
          BY <2>1, <5>1 DEF FromSent, State
        <5> QED
          BY <2>3, <5>2, ReportForm DEF Says
      <4>3. CASE ~AllowedTransition(State(q).status, q.status)
        BY <2>3, <4>3 DEF AllowedTransition, State
      <4> QED
        BY <4>1, <4>2, <4>3
    <3> QED
      BY <2>2, <3>1, <3>2
  <2>4. CASE Accepted(r) /\ execution_states' = [execution_states EXCEPT ![Key(r)] = SaveState(r)]
    <3>1. CASE Key(r) = k
      <4>1. execution_states'[k] = SaveState(r)
        BY <2>1, <2>4, <3>1 DEF TypeOK
      <4>2. r \in ExecutionReportSet
        <5>1. flushing \in Seq(ReportSet)
          BY DEF TypeOK
        <5>2. flushing # << >> => 1 \in DOMAIN flushing /\ Head(flushing) = flushing[1]
          BY <5>1
        <5> QED
          BY <1>2, <5>2 DEF Settles, OnlySent, Handled
      <4> QED
        BY <4>1, <4>2, SaveStateType, ReportForm
    <3>2. CASE Key(r) # k
      <4>1. q # r
        BY <3>2
      <4>2. execution_states'[k] = execution_states[k]
        BY <2>1, <2>4, <3>2 DEF TypeOK
      <4> QED
        BY <2>2, <4>1, <4>2 DEF SettledBooked
    <3> QED
      BY <3>1, <3>2
  <2> QED
    BY <1>2, <2>3, <2>4 DEF Settles, ApplyReportLocked, books
<1> QED
  BY <1>1, <1>2, SettledStep

LEMMA ConsumersStep ==
  ASSUME TypeOK, ConsumersInOrder, [Next]_reportVars
  PROVE  ConsumersInOrder'
<1>1. ASSUME NEW i \in intentInbox, RememberExecutionIntent(i) PROVE ConsumersInOrder'
  BY <1>1, ReportsAssumption DEF RememberExecutionIntent, ConsumersInOrder, TypeOK
<1>2. CASE ReplayPending
  BY <1>2 DEF ReplayPending, Locked, topics, ConsumersInOrder
<1>3. CASE CommitIntent
  BY <1>3 DEF CommitIntent, Locked, queues, ConsumersInOrder
<1>4. ASSUME NEW m \in reportInbox, ApplyExecutionReport(m) PROVE ConsumersInOrder'
  BY <1>4 DEF ApplyExecutionReport, ConsumersInOrder, Locked
<1>5. CASE CommitReport
  BY <1>5 DEF CommitReport, queues, ConsumersInOrder
<1>6. CASE Crash
  BY <1>6 DEF Crash, InitQueues, ConsumersInOrder
<1>7. CASE UNCHANGED reportVars
  BY <1>7 DEF reportVars, queues, topics, ConsumersInOrder
<1> QED
  BY <1>1, <1>2, <1>3, <1>4, <1>5, <1>6, <1>7 DEF Next, IntentThread, ReportThread

LEMMA LedgerSideStep ==
  ASSUME TypeOK, LedgerSide, [Next]_reportVars
  PROVE  LedgerSide'
<1>1. OnlySent' /\ ConsumersInOrder'
  BY OnlySentStep, ConsumersStep DEF LedgerSide
<1>2. FromSent' /\ SettledBooked'
  BY BooksRestart, FromSentStep, SettledBookedStep DEF LedgerSide
<1> QED
  BY <1>1, <1>2 DEF LedgerSide

(* An intent is committed only once the ledger knows it.                   *)
LEMMA IntentsStep ==
  ASSUME TypeOK, ConsumersInOrder, IntentsArrive, [Next]_reportVars, UNCHANGED published
  PROVE  IntentsArrive'
<1>1. CASE Crash
  BY <1>1 DEF Crash, IntentsArrive, TypeOK
<1>2. CASE CommitIntent
  BY <1>2 DEF CommitIntent, queues, ConsumersInOrder, IntentsArrive
<1> QED
  BY <1>1, <1>2
  DEF Next, IntentThread, ReportThread, RememberExecutionIntent, ReplayPending,
      ApplyExecutionReport, CommitReport, queues, topics, reportVars, IntentsArrive

-----------------------------------------------------------------------------
(* The steps of venues.                                                    *)

(* They touch the ledger through its topics only.                          *)
LEMMA LedgerSideKept ==
  ASSUME LedgerSide, UNCHANGED <<books, queues, intentConsumer, reportConsumer>>,
         intentInbox \subseteq intentInbox',
         \A m \in reportInbox' : m \in reportInbox \/ m[2] \in ExecutionReportSet
  PROVE  LedgerSide'
<1>1. OnlySent'
  BY DEF LedgerSide, OnlySent, Handled, queues
<1>2. FromSent' /\ SettledBooked'
  BY DEF LedgerSide, FromSent, Says, SettledBooked, Settled, Waiting, books, queues
<1>3. ConsumersInOrder'
  BY DEF LedgerSide, ConsumersInOrder, queues
<1> QED
  BY <1>1, <1>2, <1>3 DEF LedgerSide

LEMMA PresentSame ==
  ASSUME UNCHANGED <<reportInbox, queues>>, NEW r
  PROVE  Present(r)' <=> Present(r)
BY DEF Present, queues

(* What does not depend on the step: the report is kept or there is none.  *)
LEMMA HeldKept ==
  ASSUME ReportHeld, UNCHANGED <<execIntent, execReport, lost>>,
         crashes' = 0 => crashes = 0,
         execPc' \in Reporting => execPc \in Reporting,
         execPc' = "execution.reports" => execPc = "execution.reports",
         execPc' \in {"apply_child", "apply_flow"} => execPc \in {"apply_child", "apply_flow"},
         execPc \in Reporting /\ crashes' = 0 => (Present(execReport) => Present(execReport)')
  PROVE  ReportHeld'
BY DEF ReportHeld, Reporting

LEMMA HeldNone ==
  ASSUME execPc' \notin Reporting
  PROVE  ReportHeld'
BY DEF ReportHeld, Reporting

LEMMA BackedKept ==
  ASSUME FlowsBacked, UNCHANGED flows, lost \in Nat, lost' \in Nat, lost <= lost',
         crashes' = 0 => crashes = 0,
         crashes' = 0 => \A r \in ExecutionReportSet : Present(r) => Present(r)'
  PROVE  FlowsBacked'
<1> SUFFICES ASSUME NEW i \in Intents, flows[i].filled # 0
    PROVE /\ flows[i].filled = IntentInfo[i].target
          /\ crashes' = 0 /\ lost' <= 1 => Backed(i)'
  BY DEF FlowsBacked
<1>1. lost' <= 1 => lost <= 1
  OBVIOUS
<1>2. /\ flows[i].filled = IntentInfo[i].target
      /\ crashes' = 0 /\ lost' <= 1 => Backed(i)
  BY <1>1 DEF FlowsBacked
<1>3. crashes' = 0 /\ Backed(i) => Backed(i)'
  BY DEF Backed
<1> QED
  BY <1>2, <1>3

(* The rows and reports of an intent that is not in the handler.           *)
LEMMA NoReportsKept ==
  ASSUME NEW i, NoReports(i),
         \A r \in ExecutionReportSet : r.intent = i => (Present(r)' => Present(r))
  PROVE  NoReports(i)'
BY DEF NoReports

LEMMA OnlyReportKept ==
  ASSUME NEW i, NEW r, OnlyReport(i, r),
         \A q \in ExecutionReportSet : q.intent = i => (Present(q)' => Present(q))
  PROVE  \A q \in ExecutionReportSet : q.intent = i /\ Present(q)' => q = r
BY DEF OnlyReport

LEMMA UntouchedKept ==
  ASSUME NEW i, Untouched(i), flows'[i] = flows[i], children'[i] = children[i],
         \A r \in ExecutionReportSet : r.intent = i => (Present(r)' => Present(r))
  PROVE  Untouched(i)'
BY NoReportsKept DEF Untouched, NewFlow, NewChild

LEMMA AgreementKept ==
  ASSUME NEW i, Untouched(i) \/ \E r \in ExecutionReportSet : Applied(i, r),
         flows'[i] = flows[i], children'[i] = children[i],
         lost \in Nat, lost' \in Nat, lost <= lost', crashes' = 0 => crashes = 0,
         \A r \in ExecutionReportSet : r.intent = i =>
            /\ Present(r)' => Present(r)
            /\ crashes' = 0 => (Present(r) => Present(r)')
  PROVE  Untouched(i)' \/ \E r \in ExecutionReportSet : Applied(i, r)'
<1>1. CASE Untouched(i)
  BY <1>1, UntouchedKept
<1>2. ASSUME NEW r \in ExecutionReportSet, Applied(i, r) PROVE Applied(i, r)'
  <2>1. /\ r.intent = i /\ OnlyReport(i, r) /\ ChildSays(i, r) /\ FlowSays(i, r)
        /\ crashes = 0 /\ lost <= 1 => Present(r)
    BY <1>2 DEF Applied
  <2>2. OnlyReport(i, r)'
    BY <2>1 DEF OnlyReport
  <2>3. ChildSays(i, r)' /\ FlowSays(i, r)'
    BY <2>1 DEF ChildSays, FlowSays
  <2>4. crashes' = 0 /\ lost' <= 1 => Present(r)'
    BY <2>1
  <2> QED
    BY <2>1, <2>2, <2>3, <2>4 DEF Applied
<1> QED
  BY <1>1, <1>2

LEMMA OthersKept ==
  ASSUME NEW i, CalmRows(i), execIntent # i, execIntent' # i, attempts'[i] = attempts[i],
         flows'[i] = flows[i], children'[i] = children[i],
         lost \in Nat, lost' \in Nat, lost <= lost', crashes' = 0 => crashes = 0,
         \A r \in ExecutionReportSet : r.intent = i =>
            /\ Present(r)' => Present(r)
            /\ crashes' = 0 => (Present(r) => Present(r)')
  PROVE  CalmRows(i)'
<1>1. Untouched(i) \/ \E r \in ExecutionReportSet : Applied(i, r)
  BY DEF CalmRows, Preparing, Reported, ChildApplied, InAgreement
<1>2. Untouched(i)' \/ \E r \in ExecutionReportSet : Applied(i, r)'
  BY <1>1, AgreementKept
<1>3. attempts[i] = 0 => Untouched(i)'
  BY UntouchedKept DEF CalmRows
<1> QED
  BY <1>2, <1>3 DEF CalmRows, InAgreement

(* A step of the ledger: the rows stay, nothing is published.              *)
LEMMA LedgerKeepsRows ==
  ASSUME NEW i, CalmRows(i), UNCHANGED venuesVars,
         hedgeflows[i].open => hedgeflows'[i].open,
         lost \in Nat, crashes' = 0 => crashes = 0,
         \A r \in ExecutionReportSet :
            /\ Present(r)' => Present(r)
            /\ crashes' = 0 => (Present(r) => Present(r)')
  PROVE  CalmRows(i)'
<1>1. UNCHANGED <<execPc, execIntent, execReport, attempts, flows, children, lost>>
  BY DEF venuesVars, handler, venue, rows
<1>2. Untouched(i) => Untouched(i)'
  BY <1>1, UntouchedKept
<1>3. OnlyReport(i, execReport) => OnlyReport(i, execReport)'
  BY <1>1 DEF OnlyReport
<1>4. Preparing(i) => Preparing(i)'
  BY <1>1, <1>2 DEF Preparing
<1>5. Reported(i) => Reported(i)'
  BY <1>1, <1>3 DEF Reported, NewFlow, NewChild
<1>6. ChildApplied(i) => ChildApplied(i)'
  BY <1>1, <1>3 DEF ChildApplied, NewFlow, ChildSays
<1>7. InAgreement(i) => InAgreement(i)'
  <2>1. ASSUME Untouched(i) \/ \E r \in ExecutionReportSet : Applied(i, r)
        PROVE  Untouched(i)' \/ \E r \in ExecutionReportSet : Applied(i, r)'
    BY <1>1, <2>1, AgreementKept
  <2> QED
    BY <1>1, <2>1 DEF InAgreement
<1> QED
  BY <1>1, <1>2, <1>4, <1>5, <1>6, <1>7 DEF CalmRows

(* A step of venues that publishes nothing.                                *)
LEMMA QuietStep ==
  ASSUME HedgeInv, SidesAgree, UNCHANGED <<ledgerVars, published>>
  PROVE  /\ LedgerSide' /\ IntentsArrive'
         /\ \A r : Present(r)' <=> Present(r)
         /\ crashes' = crashes
<1>1. UNCHANGED <<books, queues, reportInbox, intentInbox, intentConsumer, reportConsumer,
                  crashes, published>>
  BY DEF ledgerVars
<1>2. LedgerSide'
  BY <1>1, LedgerSideKept DEF SidesAgree
<1>3. IntentsArrive'
  BY <1>1 DEF SidesAgree, IntentsArrive, queues
<1>4. ASSUME NEW r PROVE Present(r)' <=> Present(r)
  BY <1>1, PresentSame
<1> QED
  BY <1>1, <1>2, <1>3, <1>4

(* What holds of the handler and its counters.                             *)
LEMMA HandlerFacts ==
  ASSUME HedgeInv
  PROVE  /\ lost \in Nat /\ pgFaults \in Nat /\ execCrashes \in Nat
         /\ execPc # "idle" => execIntent \in Intents /\ attempts[execIntent] # 0
         /\ execPc = "idle" <=> execIntent = None
         /\ \A i \in Intents : i # None
         /\ flows \in [Intents -> [filled : Nat, status : FlowTerminal \cup {"OPEN"}]]
<1>1. execPc # "idle" => execIntent \in Intents /\ attempts[execIntent] # 0
  <2> SUFFICES ASSUME execPc # "idle" PROVE execIntent \in Intents /\ attempts[execIntent] # 0
    OBVIOUS
  <2>1. execIntent \in Intents
    BY DEF HedgeInv, HedgeTypeOK
  <2>2. attempts[execIntent] > 0 /\ attempts[execIntent] \in Nat
    BY <2>1 DEF HedgeInv, HedgeTypeOK, AttemptsPaid
  <2> QED
    BY <2>1, <2>2
<1> QED
  BY <1>1, ReportsAssumption, HedgeAssumption DEF HedgeInv, HedgeTypeOK, TypeOK

(* The intents that are not in the handler keep their rows in any step     *)
(* that publishes nothing.                                                 *)
LEMMA QuietOthers ==
  ASSUME HedgeInv, SidesAgree, UNCHANGED <<ledgerVars, published, attempts, lost>>,
         NEW i, CalmRows(i), execIntent # i, execIntent' # i,
         flows'[i] = flows[i], children'[i] = children[i]
  PROVE  CalmRows(i)'
<1>1. /\ \A r : Present(r)' <=> Present(r)
      /\ crashes' = crashes /\ lost' = lost /\ lost \in Nat /\ attempts' = attempts
  BY QuietStep, HandlerFacts
<1> QED
  BY <1>1, OthersKept

LEMMA InsertOpenBooks == ASSUME HedgeInv, SidesAgree, InsertOpen PROVE SidesAgree'
<1> DEFINE e == execIntent
<1>1. /\ execPc = "insert_flow" /\ execPc' = "insert_child"
      /\ UNCHANGED <<ledgerVars, published, execIntent, execReport, attempts, lost, execCrashes>>
      /\ UNCHANGED rows
      /\ pgFaults' \in {pgFaults, pgFaults + 1}
      /\ pgFaults' = 0 => hedgeflows' = [hedgeflows EXCEPT ![e].open = TRUE]
  BY HandlerFacts DEF InsertOpen, Statement, StatementFails, venue
<1>2. e \in Intents /\ attempts[e] # 0 /\ lost \in Nat /\ pgFaults \in Nat
  BY <1>1, HandlerFacts
<1>3. /\ LedgerSide' /\ IntentsArrive' /\ crashes' = crashes
      /\ \A r : Present(r)' <=> Present(r)
  BY <1>1, QuietStep
<1>4. flows' = flows /\ children' = children
  BY <1>1 DEF rows
<1>5. ReportHeld'
  BY <1>1, HeldNone DEF Reporting
<1>6. FlowsBacked'
  BY <1>1, <1>2, <1>3, <1>4, BackedKept DEF SidesAgree, VenueSide
<1>7. CalmInv'
  <2> SUFFICES ASSUME pgFaults' = 0, execCrashes' = 0, NEW i \in Intents PROVE CalmRows(i)'
    BY DEF CalmInv
  <2>1. CalmRows(i)
    BY <1>1, <1>2 DEF SidesAgree, VenueSide, CalmInv
  <2>2. CASE i # e
    BY <1>1, <1>4, <2>1, <2>2, QuietOthers
  <2>3. CASE i = e
    <3>1. Untouched(i)
      BY <1>1, <2>1, <2>3 DEF CalmRows, Preparing, Reported, ChildApplied, InAgreement
    <3>2. Untouched(i)'
      BY <1>3, <1>4, <3>1, UntouchedKept
    <3>3. hedgeflows'[i].open
      BY <1>1, <1>2, <2>3 DEF HedgeInv, HedgeTypeOK, TypeOK
    <3> QED
      BY <1>1, <2>3, <3>2, <3>3 DEF CalmRows, Preparing
  <2> QED
    BY <2>2, <2>3
<1> QED
  BY <1>3, <1>5, <1>6, <1>7 DEF SidesAgree, VenueSide

LEMMA InsertPendingBooks == ASSUME HedgeInv, SidesAgree, InsertPending PROVE SidesAgree'
<1> DEFINE e == execIntent
<1>1. /\ execPc = "insert_child" /\ execPc' = "send"
      /\ UNCHANGED <<ledgerVars, published, execIntent, execReport, attempts, lost, execCrashes>>
      /\ UNCHANGED <<hedgeflows, flows>>
      /\ pgFaults' \in {pgFaults, pgFaults + 1}
      /\ \/ UNCHANGED children
         \/ children' = [children EXCEPT ![e].placed = @ \/ hedgeflows[e].open]
      /\ pgFaults' = 0 => children' = [children EXCEPT ![e].placed = @ \/ hedgeflows[e].open]
  BY HandlerFacts DEF InsertPending, Statement, StatementFails, venue, rows
<1>2. e \in Intents /\ attempts[e] # 0 /\ lost \in Nat /\ pgFaults \in Nat
  BY <1>1, HandlerFacts
<1>3. /\ LedgerSide' /\ IntentsArrive' /\ crashes' = crashes
      /\ \A r : Present(r)' <=> Present(r)
  BY <1>1, QuietStep
<1>5. ReportHeld'
  BY <1>1, HeldNone DEF Reporting
<1>6. FlowsBacked'
  BY <1>1, <1>2, <1>3, BackedKept DEF SidesAgree, VenueSide
<1>7. CalmInv'
  <2> SUFFICES ASSUME pgFaults' = 0, execCrashes' = 0, NEW i \in Intents PROVE CalmRows(i)'
    BY DEF CalmInv
  <2>1. CalmRows(i)
    BY <1>1, <1>2 DEF SidesAgree, VenueSide, CalmInv
  <2>2. CASE i # e
    <3>1. children'[i] = children[i] /\ flows'[i] = flows[i]
      BY <1>1, <2>2 DEF HedgeInv, HedgeTypeOK
    <3> QED
      BY <1>1, <2>1, <2>2, <3>1, QuietOthers
  <2>3. CASE i = e
    <3>1. Untouched(i) /\ hedgeflows[i].open
      BY <1>1, <2>1, <2>3 DEF CalmRows, Preparing, Reported, ChildApplied, InAgreement
    <3>2. /\ children'[i].filled = children[i].filled /\ children'[i].status = children[i].status
          /\ children'[i].placed
      <4> DEFINE c == children[e]
                 placed == c.placed \/ hedgeflows[e].open
      <4>1. children' = [children EXCEPT ![e] = [c EXCEPT !.placed = placed]]
        BY <1>1
      <4>2. placed
        BY <2>3, <3>1
      <4>3. /\ c \in [placed : BOOLEAN, filled : Nat,
               status : {"PENDING", "FILLED", "PARTIALLY_FILLED", "CANCELLED", "REJECTED"}]
            /\ e \in DOMAIN children
        BY <1>2 DEF HedgeInv, HedgeTypeOK
      <4> HIDE DEF placed
      <4>4. children'[e] = [c EXCEPT !.placed = placed]
        BY <4>1, <4>3
      <4> HIDE DEF c
      <4>5. children'[e].placed = placed /\ children'[e].filled = c.filled /\ children'[e].status = c.status
        BY <4>3, <4>4
      <4> QED
        BY <2>3, <4>2, <4>5 DEF c
    <3>3. NoReports(i)'
      BY <1>3, <3>1, NoReportsKept DEF Untouched
    <3>4. Untouched(i)'
      BY <1>1, <3>1, <3>2, <3>3 DEF Untouched, NewFlow, NewChild
    <3> QED
      BY <1>1, <2>3, <3>1, <3>2, <3>4 DEF CalmRows, Preparing
  <2> QED
    BY <2>2, <2>3
<1> QED
  BY <1>3, <1>5, <1>6, <1>7 DEF SidesAgree, VenueSide

LEMMA SendOrderBooks ==
  ASSUME HedgeInv, SidesAgree, execIntent # None, NEW o \in Outcomes, NEW reached \in BOOLEAN,
         NEW q \in ExecutedBy(execIntent, o), SendOrder(o, reached, q)
  PROVE  SidesAgree'
<1> DEFINE e == execIntent
<1>1. /\ execPc = "send" /\ execPc' = "execution.venue"
      /\ UNCHANGED <<ledgerVars, published, execIntent, attempts, lost, execCrashes,
                     pgFaults, hedgeflows, flows, children>>
      /\ execReport' = Report(e, attempts[e], o)
  BY DEF SendOrder, rows
<1>2. /\ e \in Intents /\ attempts[e] # 0 /\ lost \in Nat
      /\ attempts[e] \in Attempts
  BY <1>1, HandlerFacts, HedgeAssumption DEF HedgeInv, HedgeTypeOK, AttemptsPaid, Attempts
<1>3. /\ LedgerSide' /\ IntentsArrive' /\ crashes' = crashes
      /\ \A r : Present(r)' <=> Present(r)
  BY <1>1, QuietStep
<1>5. ReportHeld'
  <2>1. execReport' \in ExecutionReportSet
    BY <1>1, <1>2 DEF ExecutionReportSet
  <2>2. execReport'.intent = e
    BY <1>1 DEF Report, MakeExecutionReport
  <2> QED
    BY <1>1, <2>1, <2>2 DEF ReportHeld
<1>6. FlowsBacked'
  BY <1>1, <1>2, <1>3, BackedKept DEF SidesAgree, VenueSide
<1>7. CalmInv'
  <2> SUFFICES ASSUME pgFaults' = 0, execCrashes' = 0, NEW i \in Intents PROVE CalmRows(i)'
    BY DEF CalmInv
  <2>1. CalmRows(i)
    BY <1>1 DEF SidesAgree, VenueSide, CalmInv
  <2>2. CASE i # e
    BY <1>1, <2>1, <2>2, QuietOthers
  <2>3. CASE i = e
    <3>1. Untouched(i) /\ hedgeflows[i].open /\ children[i].placed
      BY <1>1, <2>1, <2>3 DEF CalmRows, Preparing, Reported, ChildApplied, InAgreement
    <3>2. Untouched(i)'
      BY <1>1, <1>3, <3>1, UntouchedKept
    <3> QED
      BY <1>1, <2>3, <3>1, <3>2 DEF CalmRows, Preparing
  <2> QED
    BY <2>2, <2>3
<1> QED
  BY <1>3, <1>5, <1>6, <1>7 DEF SidesAgree, VenueSide

LEMMA TakeIntentBooks ==
  ASSUME HedgeInv, SidesAgree, NEW j \in execInbox, NEW mode \in Modes, TakeIntent(j, mode)
  PROVE  SidesAgree'
<1>1. /\ execPc = "idle" /\ execPc' \in {"insert_flow", "simulate"}
      /\ UNCHANGED <<ledgerVars, published, execReport, lost, execCrashes,
                     pgFaults, hedgeflows, flows, children>>
      /\ execIntent' = j
      /\ attempts' = [attempts EXCEPT ![j] = @ + 1]
  BY DEF TakeIntent, Route, rows
<1>2. /\ j \in Intents /\ execIntent = None /\ lost \in Nat
      /\ \A i \in Intents : execIntent # i
  BY <1>1, HandlerFacts DEF HedgeInv, HedgeTypeOK
<1>3. /\ LedgerSide' /\ IntentsArrive' /\ crashes' = crashes
      /\ \A r : Present(r)' <=> Present(r)
  BY <1>1, QuietStep
<1>5. ReportHeld'
  BY <1>1, HeldNone DEF Reporting
<1>6. FlowsBacked'
  BY <1>1, <1>2, <1>3, BackedKept DEF SidesAgree, VenueSide
<1>7. CalmInv'
  <2> SUFFICES ASSUME pgFaults' = 0, execCrashes' = 0, NEW i \in Intents PROVE CalmRows(i)'
    BY DEF CalmInv
  <2>1. CalmRows(i)
    BY <1>1 DEF SidesAgree, VenueSide, CalmInv
  <2>2. CASE i # j
    <3>1. attempts'[i] = attempts[i]
      BY <1>1, <2>2 DEF HedgeInv, HedgeTypeOK
    <3> QED
      BY <1>1, <1>2, <1>3, <2>1, <2>2, <3>1, OthersKept
  <2>3. CASE i = j
    <3>1. attempts[j] = 0 /\ attempts'[j] # 0
      <4>1. attempts[j] \in Nat /\ attempts[j] <= execCrashes /\ execCrashes = 0
        BY <1>1, <1>2 DEF HedgeInv, HedgeTypeOK, AttemptsPaid
      <4> QED
        BY <1>1, <1>2, <4>1 DEF HedgeInv, HedgeTypeOK
    <3>2. Untouched(i)
      BY <2>1, <2>3, <3>1 DEF CalmRows
    <3>3. Untouched(i)'
      BY <1>1, <1>3, <3>2, UntouchedKept
    <3> QED
      BY <1>1, <2>3, <3>1, <3>3 DEF CalmRows, Preparing, InAgreement
  <2> QED
    BY <2>2, <2>3
<1> QED
  BY <1>3, <1>5, <1>6, <1>7 DEF SidesAgree, VenueSide

(* One copy of a report is sent to a topic, or lost.                       *)
LEMMA PublishBooks ==
  ASSUME HedgeInv, SidesAgree, NEW topic \in Topics, NEW next, Publish(topic, next),
         \/ topic = "execution.venue" /\ next = "execution.reports"
         \/ topic = "execution.reports" /\ next = "apply_child"
  PROVE  SidesAgree'
<1> DEFINE e == execIntent
           rep == execReport
           Sent == reportInbox' = reportInbox \cup {<<topic, rep>>} /\ lost' = lost
           Lost == reportInbox' = reportInbox /\ lost' = lost + 1
<1>1. /\ execPc = topic /\ execPc' = next
      /\ UNCHANGED <<books, queues, intentInbox, intentConsumer, reportConsumer, crashes,
                     published, execIntent, execReport, attempts, execCrashes,
                     pgFaults, hedgeflows, flows, children>>
      /\ Sent \/ Lost
  BY DEF Publish, venue, rows
<1>2. /\ e \in Intents /\ attempts[e] # 0 /\ lost \in Nat /\ lost' \in Nat /\ lost <= lost'
  <2>1. e \in Intents /\ attempts[e] # 0 /\ lost \in Nat
    BY <1>1, HandlerFacts DEF Topics
  <2> QED
    BY <1>1, <2>1
<1>3. rep \in ExecutionReportSet /\ rep.intent = e
  BY <1>1 DEF SidesAgree, VenueSide, ReportHeld, Reporting, Topics
<1>4. ASSUME NEW r PROVE /\ Present(r) => Present(r)'
                         /\ Present(r)' => Present(r) \/ r = rep
  BY <1>1 DEF Present, queues
<1>5. Sent => Present(rep)'
  <2>1. execReport' = rep
    BY <1>1
  <2> QED
    BY <2>1 DEF Present
<1>6. LedgerSide'
  <2>1. \A m \in reportInbox' : m \in reportInbox \/ m[2] \in ExecutionReportSet
    BY <1>1, <1>3
  <2> QED
    BY <1>1, <2>1, LedgerSideKept DEF SidesAgree
<1>7. IntentsArrive'
  BY <1>1 DEF SidesAgree, IntentsArrive, queues
<1>8. ReportHeld'
  <2>1. CASE topic = "execution.venue" /\ next = "execution.reports"
    <3>1. crashes' = 0 => Present(rep)' \/ lost' >= 1
      BY <1>1, <1>2, <1>5
    <3> QED
      BY <1>1, <1>3, <2>1, <3>1 DEF ReportHeld
  <2>2. CASE topic = "execution.reports" /\ next = "apply_child"
    <3>1. crashes' = 0 /\ lost' <= 1 => Present(rep)'
      <4>1. CASE Sent
        BY <1>5, <4>1
      <4>2. CASE Lost
        <5>1. lost' <= 1 => lost = 0
          BY <1>2, <4>2
        <5>2. crashes = 0 => Present(rep) \/ lost >= 1
          BY <1>1, <2>2 DEF SidesAgree, VenueSide, ReportHeld
        <5> QED
          BY <1>1, <1>4, <5>1, <5>2
      <4> QED
        BY <1>1, <4>1, <4>2
    <3> QED
      BY <1>1, <1>3, <2>2, <3>1 DEF ReportHeld
  <2> QED
    BY <2>1, <2>2
<1>9. FlowsBacked'
  BY <1>1, <1>2, <1>4, BackedKept DEF SidesAgree, VenueSide
<1>10. CalmInv'
  <2> SUFFICES ASSUME pgFaults' = 0, execCrashes' = 0, NEW i \in Intents PROVE CalmRows(i)'
    BY DEF CalmInv
  <2>1. CalmRows(i)
    BY <1>1 DEF SidesAgree, VenueSide, CalmInv
  <2>2. CASE i # e
    <3>1. \A r \in ExecutionReportSet : r.intent = i => (Present(r)' <=> Present(r))
      BY <1>3, <1>4, <2>2
    <3> HIDE DEF Sent, Lost
    <3> QED
      BY <1>1, <1>2, <2>1, <2>2, <3>1, OthersKept
  <2>3. CASE i = e
    <3>1. /\ NewFlow(i) /\ NewChild(i) /\ hedgeflows[i].open /\ children[i].placed
          /\ NoReports(i) \/ OnlyReport(i, rep)
      BY <1>1, <2>1, <2>3
      DEF CalmRows, Preparing, Reported, ChildApplied, InAgreement, Topics, Untouched
    <3>2. OnlyReport(i, rep)'
      BY <1>1, <1>4, <3>1 DEF NoReports, OnlyReport
    <3>3. NewFlow(i)' /\ NewChild(i)'
      BY <1>1, <3>1 DEF NewFlow, NewChild
    <3> HIDE DEF Sent, Lost
    <3>4. Reported(i)'
      BY <1>1, <2>3, <3>1, <3>2, <3>3 DEF Reported
    <3> QED
      BY <1>1, <1>2, <2>3, <3>4 DEF CalmRows
  <2> QED
    BY <2>2, <2>3
<1> QED
  BY <1>6, <1>7, <1>8, <1>9, <1>10 DEF SidesAgree, VenueSide

LEMMA ApplyChildBooks == ASSUME HedgeInv, SidesAgree, ApplyReportToChild PROVE SidesAgree'
<1> DEFINE e == execIntent
           rep == execReport
           c == [placed |-> TRUE, filled |-> rep.filled, status |-> ChildStatus(rep.status)]
<1>1. /\ execPc = "apply_child" /\ execPc' = "apply_flow"
      /\ UNCHANGED <<ledgerVars, published, execIntent, execReport, attempts, lost, execCrashes>>
      /\ UNCHANGED <<hedgeflows, flows>>
      /\ pgFaults' \in {pgFaults, pgFaults + 1}
      /\ UNCHANGED children \/ children' = [children EXCEPT ![e] = c]
      /\ pgFaults' = 0 /\ children[e].placed => children' = [children EXCEPT ![e] = c]
  BY HandlerFacts DEF ApplyReportToChild, Statement, StatementFails, venue, rows
<1> HIDE DEF c
<1>2. e \in Intents /\ attempts[e] # 0 /\ lost \in Nat /\ pgFaults \in Nat
  BY <1>1, HandlerFacts
<1>3. /\ LedgerSide' /\ IntentsArrive' /\ crashes' = crashes
      /\ \A r : Present(r)' <=> Present(r)
  BY <1>1, QuietStep
<1>5. ReportHeld'
  BY <1>1, <1>3, HeldKept DEF Reporting, SidesAgree, VenueSide
<1>6. FlowsBacked'
  BY <1>1, <1>2, <1>3, BackedKept DEF SidesAgree, VenueSide
<1>7. CalmInv'
  <2> SUFFICES ASSUME pgFaults' = 0, execCrashes' = 0, NEW i \in Intents PROVE CalmRows(i)'
    BY DEF CalmInv
  <2>1. CalmRows(i)
    BY <1>1, <1>2 DEF SidesAgree, VenueSide, CalmInv
  <2>2. CASE i # e
    <3>1. children'[i] = children[i] /\ flows'[i] = flows[i]
      BY <1>1, <2>2 DEF HedgeInv, HedgeTypeOK
    <3> QED
      BY <1>1, <2>1, <2>2, <3>1, QuietOthers
  <2>3. CASE i = e
    <3>1. NewFlow(i) /\ OnlyReport(i, rep) /\ hedgeflows[i].open /\ children[i].placed
      BY <1>1, <2>1, <2>3 DEF CalmRows, Preparing, Reported, ChildApplied, InAgreement
    <3>2. children'[i] = c
      BY <1>1, <1>2, <2>3, <3>1 DEF HedgeInv, HedgeTypeOK
    <3>3. ChildSays(i, rep)'
      BY <1>1, <3>2 DEF ChildSays, c
    <3>4. OnlyReport(i, rep)'
      BY <1>1, <1>3, <3>1 DEF OnlyReport
    <3>5. NewFlow(i)'
      BY <1>1, <3>1 DEF NewFlow
    <3> QED
      BY <1>1, <1>2, <2>3, <3>1, <3>3, <3>4, <3>5 DEF CalmRows, ChildApplied
  <2> QED
    BY <2>2, <2>3
<1> QED
  BY <1>3, <1>5, <1>6, <1>7 DEF SidesAgree, VenueSide

(* The constraint of hedgeflows refuses a second fill.                     *)
LEMMA ApplyFlowBooks == ASSUME HedgeInv, SidesAgree, ApplyReportToFlow PROVE SidesAgree'
<1> DEFINE e == execIntent
           rep == execReport
           t == IntentInfo[e].target
           q == flows[e].filled + rep.filled
           f == [filled |-> q, status |-> StickyStatus(e, rep)]
<1>1. /\ execPc = "apply_flow" /\ execPc' \in {"simulate", "commit"}
      /\ UNCHANGED <<ledgerVars, published, execIntent, execReport, attempts, lost, execCrashes>>
      /\ UNCHANGED <<hedgeflows, children>>
      /\ pgFaults' \in {pgFaults, pgFaults + 1}
      /\ \/ UNCHANGED flows
         \/ WithinTarget(e, q) /\ flows' = [flows EXCEPT ![e] = f]
      /\ pgFaults' = 0 /\ hedgeflows[e].open /\ WithinTarget(e, q) =>
           flows' = [flows EXCEPT ![e] = f]
  <2>1. /\ execPc = "apply_flow"
        /\ Statement(IF execMode = "SHADOW" THEN "simulate" ELSE "commit")
        /\ \/ /\ hedgeflows[e].open /\ WithinTarget(e, q)
              /\ flows' = [flows EXCEPT ![e] = f]
              /\ UNCHANGED <<hedgeflows, children, pgFaults>>
           \/ /\ ~(hedgeflows[e].open /\ WithinTarget(e, q))
              /\ UNCHANGED <<hedgeflows, rows, pgFaults>>
           \/ StatementFails
    BY DEF ApplyReportToFlow
  <2>2. /\ execPc' \in {"simulate", "commit"}
        /\ UNCHANGED <<ledgerVars, published, execIntent, execReport, attempts, lost, execCrashes>>
    BY <2>1 DEF Statement, venue
  <2>3. pgFaults \in Nat
    BY HandlerFacts
  <2> HIDE DEF q, f
  <2>4. CASE StatementFails
    <3>1. UNCHANGED <<hedgeflows, flows, children>> /\ pgFaults' = pgFaults + 1
      BY <2>4 DEF StatementFails, rows
    <3>2. pgFaults' # 0
      BY <2>3, <3>1
    <3> QED
      BY <2>1, <2>2, <3>1, <3>2
  <2>5. CASE ~StatementFails
    BY <2>1, <2>2, <2>5 DEF rows
  <2> QED
    BY <2>4, <2>5
<1>2. /\ e \in Intents /\ attempts[e] # 0 /\ lost \in Nat /\ pgFaults \in Nat
      /\ flows[e].filled \in Nat /\ flows \in [Intents -> [filled : Nat, status : FlowTerminal \cup {"OPEN"}]]
  BY <1>1, HandlerFacts
<1>3. /\ LedgerSide' /\ IntentsArrive' /\ crashes' = crashes
      /\ \A r : Present(r)' <=> Present(r)
  BY <1>1, QuietStep
<1>4. /\ rep \in ExecutionReportSet /\ rep.intent = e
      /\ rep.filled \in {0, t} /\ t \in Nat /\ t > 0
      /\ crashes = 0 /\ lost <= 1 => Present(rep)
  <2>1. /\ rep \in ExecutionReportSet /\ rep.intent = e
        /\ crashes = 0 /\ lost <= 1 => Present(rep)
    BY <1>1 DEF SidesAgree, VenueSide, ReportHeld, Reporting
  <2> QED
    BY <2>1, ReportForm
<1>5. ReportHeld'
  BY <1>1, HeldNone DEF Reporting
<1> HIDE DEF f, q
<1>6. FlowsBacked'
  <2>1. CASE UNCHANGED flows
    BY <1>1, <1>2, <1>3, <2>1, BackedKept DEF SidesAgree, VenueSide
  <2>2. CASE WithinTarget(e, q) /\ flows' = [flows EXCEPT ![e] = f]
    <3> SUFFICES ASSUME NEW i \in Intents, flows'[i].filled # 0
        PROVE /\ flows'[i].filled = IntentInfo[i].target
              /\ crashes' = 0 /\ lost' <= 1 => Backed(i)'
      BY DEF FlowsBacked
    <3>0. ASSUME NEW j \in Intents, Backed(j) PROVE Backed(j)'
      BY <1>3, <3>0 DEF Backed
    <3>1. CASE i # e
      <4>1. flows'[i] = flows[i]
        BY <1>2, <2>2, <3>1
      <4> QED
        BY <1>1, <1>3, <3>0, <4>1 DEF SidesAgree, VenueSide, FlowsBacked
    <3>2. CASE i = e
      <4>1. flows'[i].filled = q
        BY <1>2, <2>2, <3>2 DEF f
      <4>2. /\ flows[e].filled # 0 => flows[e].filled = t
            /\ flows[e].filled # 0 /\ crashes = 0 /\ lost <= 1 => Backed(e)
        BY <1>2 DEF SidesAgree, VenueSide, FlowsBacked
      <4>3. 100 * q <= 101 * t
        BY <2>2 DEF WithinTarget
      <4>4. q = t /\ (flows[e].filled # 0 \/ rep.filled = t)
        <5>1. flows[e].filled = 0 \/ rep.filled = 0
          BY <1>2, <1>4, <4>2, <4>3 DEF q
        <5> QED
          BY <1>2, <1>4, <3>2, <4>1, <4>2, <5>1 DEF q
      <4>5. rep.filled = t /\ crashes = 0 /\ lost <= 1 => Backed(e)
        BY <1>4 DEF Backed
      <4> QED
        BY <1>1, <1>2, <1>3, <3>0, <3>2, <4>1, <4>2, <4>4, <4>5
    <3> QED
      BY <3>1, <3>2
  <2> QED
    BY <1>1, <2>1, <2>2
<1>7. CalmInv'
  <2> SUFFICES ASSUME pgFaults' = 0, execCrashes' = 0, NEW i \in Intents PROVE CalmRows(i)'
    BY DEF CalmInv
  <2>1. CalmRows(i)
    BY <1>1, <1>2 DEF SidesAgree, VenueSide, CalmInv
  <2>2. CASE i # e
    <3>1. children'[i] = children[i] /\ flows'[i] = flows[i]
      BY <1>1, <1>2, <2>2
    <3> QED
      BY <1>1, <2>1, <2>2, <3>1, QuietOthers
  <2>3. CASE i = e
    <3>1. NewFlow(i) /\ OnlyReport(i, rep) /\ hedgeflows[i].open /\ ChildSays(i, rep)
      BY <1>1, <2>1, <2>3 DEF CalmRows, Preparing, Reported, ChildApplied, InAgreement
    <3>2. q = rep.filled /\ StickyStatus(e, rep) = FlowStatus(rep.status)
      BY <1>2, <1>4, <2>3, <3>1 DEF q, NewFlow, StickyStatus, FlowTerminal
    <3>3. WithinTarget(e, q)
      BY <1>4, <3>2 DEF WithinTarget
    <3>4. flows'[i] = f
      BY <1>1, <1>2, <2>3, <3>1, <3>3
    <3>5. FlowSays(i, rep)'
      BY <1>1, <3>2, <3>4 DEF FlowSays, f
    <3>6. ChildSays(i, rep)'
      BY <1>1, <3>1 DEF ChildSays
    <3>7. OnlyReport(i, rep)'
      BY <1>1, <1>3, <3>1 DEF OnlyReport
    <3>8. Applied(i, rep)'
      BY <1>1, <1>3, <1>4, <2>3, <3>5, <3>6, <3>7 DEF Applied
    <3>9. \E r \in ExecutionReportSet : Applied(i, r)'
      <4>1. execReport' = rep
        BY <1>1
      <4> QED
        BY <1>4, <3>8, <4>1 DEF Applied, OnlyReport, ChildSays, FlowSays
    <3> QED
      BY <1>1, <1>2, <2>3, <3>9 DEF CalmRows, InAgreement
  <2> QED
    BY <2>2, <2>3
<1> QED
  BY <1>3, <1>5, <1>6, <1>7 DEF SidesAgree, VenueSide

LEMMA PublishIntentBooks ==
  ASSUME HedgeInv, SidesAgree, NEW j \in Intents, PublishIntent(j)
  PROVE  SidesAgree'
<1>1. /\ published' = published \cup {j} /\ intentInbox' = intentInbox \cup {j}
      /\ UNCHANGED <<books, queues, reportInbox, intentConsumer, reportConsumer, crashes,
                     execPc, execIntent, execReport, attempts, lost, execCrashes,
                     pgFaults, hedgeflows, flows, children>>
  BY DEF PublishIntent, handler, venue, rows
<1>2. LedgerSide'
  BY <1>1, LedgerSideKept DEF SidesAgree
<1>3. IntentsArrive'
  BY <1>1 DEF SidesAgree, IntentsArrive, queues
<1>4. \A r : Present(r)' <=> Present(r)
  BY <1>1, PresentSame
<1>5. ReportHeld'
  BY <1>1, <1>4, HeldKept DEF SidesAgree, VenueSide
<1>6. FlowsBacked'
  BY <1>1, <1>4, BackedKept, HandlerFacts DEF SidesAgree, VenueSide
<1>7. CalmInv'
  <2> SUFFICES ASSUME pgFaults' = 0, execCrashes' = 0, NEW i \in Intents PROVE CalmRows(i)'
    BY DEF CalmInv
  <2>1. CalmRows(i)
    BY <1>1 DEF SidesAgree, VenueSide, CalmInv
  <2>2. Untouched(i) => Untouched(i)'
    BY <1>1, <1>4, UntouchedKept
  <2>3. \A r : OnlyReport(i, r) => OnlyReport(i, r)'
    BY <1>4 DEF OnlyReport
  <2>4. OnlyReport(i, execReport) => OnlyReport(i, execReport)'
    BY <1>1, <1>4 DEF OnlyReport
  <2>5. (Untouched(i) \/ \E r \in ExecutionReportSet : Applied(i, r)) =>
            (Untouched(i)' \/ \E r \in ExecutionReportSet : Applied(i, r)')
    BY <1>1, <1>4, <2>2, <2>3 DEF Applied, ChildSays, FlowSays
  <2> QED
    BY <1>1, <2>1, <2>2, <2>4, <2>5
    DEF CalmRows, Preparing, Reported, ChildApplied, InAgreement, NewFlow, NewChild, ChildSays
<1> QED
  BY <1>2, <1>3, <1>5, <1>6, <1>7 DEF SidesAgree, VenueSide

(* The end of a message: its row is as it was, whoever takes the next.     *)
LEMMA EndBooks ==
  ASSUME HedgeInv, SidesAgree, PublishSimExecution \/ CommitExec \/ ExecCrash
  PROVE  SidesAgree'
<1> DEFINE e == execIntent
<1>1. /\ UNCHANGED <<ledgerVars, published, attempts, lost, pgFaults, hedgeflows,
                     flows, children>>
      /\ execPc' \in {"commit", "idle"}
      /\ execIntent' \in {e, None} /\ (execIntent' = e => execPc' = "commit" \/ e = None)
      /\ execCrashes' = 0 =>
           execPc \in {"simulate", "commit"} /\ UNCHANGED execCrashes
  <2>1. e # None => execPc # "idle"
    BY HandlerFacts
  <2>2. CASE PublishSimExecution
    BY <2>2 DEF PublishSimExecution, venue, rows
  <2>3. CASE CommitExec
    BY <2>1, <2>3, HandlerFacts DEF CommitExec, venue, rows
  <2>4. CASE ExecCrash
    <3>1. execCrashes' # 0
      BY <2>4, HandlerFacts DEF ExecCrash
    <3> QED
      BY <2>4, <3>1 DEF ExecCrash, venue, rows
  <2> QED
    BY <2>2, <2>3, <2>4
<1>2. lost \in Nat /\ \A i \in Intents : i # None
  BY HandlerFacts
<1>3. /\ LedgerSide' /\ IntentsArrive' /\ crashes' = crashes
      /\ \A r : Present(r)' <=> Present(r)
  BY <1>1, QuietStep
<1>5. ReportHeld'
  BY <1>1, HeldNone DEF Reporting
<1>6. FlowsBacked'
  BY <1>1, <1>2, <1>3, BackedKept DEF SidesAgree, VenueSide
<1>7. CalmInv'
  <2> SUFFICES ASSUME pgFaults' = 0, execCrashes' = 0, NEW i \in Intents PROVE CalmRows(i)'
    BY DEF CalmInv
  <2>1. CalmRows(i)
    BY <1>1 DEF SidesAgree, VenueSide, CalmInv
  <2>2. CASE i # e
    BY <1>1, <1>2, <2>1, <2>2, QuietOthers
  <2>3. CASE i = e
    <3>1. Untouched(i) \/ \E r \in ExecutionReportSet : Applied(i, r)
      BY <1>1, <2>1, <2>3 DEF CalmRows, Preparing, Reported, ChildApplied, InAgreement
    <3>2. Untouched(i)' \/ \E r \in ExecutionReportSet : Applied(i, r)'
      BY <1>1, <1>2, <1>3, <3>1, AgreementKept
    <3>3. execIntent' = i => execPc' = "commit"
      BY <1>1, <1>2, <2>3
    <3>4. attempts[i] = 0 => Untouched(i)'
      BY <1>1, <1>3, <2>1, UntouchedKept DEF CalmRows
    <3> QED
      BY <1>1, <3>2, <3>3, <3>4 DEF CalmRows, InAgreement
  <2> QED
    BY <2>2, <2>3
<1> QED
  BY <1>3, <1>5, <1>6, <1>7 DEF SidesAgree, VenueSide

(* The ledger leaves the rows alone, apart from the PnL in hedgeflows.     *)
LEMMA OpenStays ==
  ASSUME TypeOK, [Next]_reportVars, NEW i \in Intents, hedgeflows[i].open
  PROVE  hedgeflows'[i].open
<1>1. ASSUME NEW r \in ReportSet, ApplyReportLocked(r) PROVE hedgeflows'[i].open
  <2>1. CASE UNCHANGED hedgeflows
    BY <2>1
  <2>2. CASE UpdateHedgePnlDelta(r)
    <3>1. PICK p, f : \/ UNCHANGED hedgeflows
                      \/ hedgeflows' = [hedgeflows EXCEPT ![r.intent] =
                                          [open |-> TRUE, pnl |-> p, fee |-> f]]
      BY <2>2 DEF UpdateHedgePnlDelta
    <3>2. \/ hedgeflows'[i] = hedgeflows[i]
          \/ hedgeflows'[i] = [open |-> TRUE, pnl |-> p, fee |-> f]
      BY <3>1 DEF TypeOK
    <3> QED
      BY <3>2
  <2> QED
    BY <1>1, <2>1, <2>2 DEF ApplyReportLocked
<1>2. CASE ReplayPending
  <2>1. Head(flushing) \in ReportSet
    BY <1>2 DEF ReplayPending, Locked, TypeOK
  <2> QED
    BY <1>1, <1>2, <2>1 DEF ReplayPending
<1>3. ASSUME NEW m \in reportInbox, ApplyExecutionReport(m) PROVE hedgeflows'[i].open
  <2>1. m[2] \in ReportSet
    BY DEF TypeOK, Messages
  <2> QED
    BY <1>1, <1>3, <2>1 DEF ApplyExecutionReport
<1> QED
  BY <1>2, <1>3
  DEF Next, IntentThread, ReportThread, RememberExecutionIntent, CommitIntent,
      CommitReport, Crash, reportVars

LEMMA LedgerBooks ==
  ASSUME HedgeInv, SidesAgree, [Next]_reportVars, UNCHANGED venuesVars
  PROVE  SidesAgree'
<1>1. /\ TypeOK /\ ConsumersInOrder /\ LedgerSide
      /\ UNCHANGED <<published, execPc, execIntent, execReport, flows, lost, execCrashes>>
  BY DEF HedgeInv, HedgeTypeOK, SidesAgree, LedgerSide, venuesVars, handler, rows
<1>2. LedgerSide' /\ IntentsArrive'
  BY <1>1, LedgerSideStep, IntentsStep DEF SidesAgree
<1>3. \A r \in ExecutionReportSet :
         /\ Present(r)' => Present(r)
         /\ crashes' = 0 => (Present(r) => Present(r)')
  BY <1>1, PresentKept, ReportForm
<1>4. crashes' = 0 => crashes = 0
  <2>1. crashes \in Nat
    BY <1>1, ReportsAssumption DEF TypeOK
  <2>2. crashes' = crashes \/ crashes' = crashes + 1
    BY DEF Next, IntentThread, ReportThread, RememberExecutionIntent, ReplayPending,
           CommitIntent, ApplyExecutionReport, CommitReport, Crash, reportVars
  <2> QED
    BY <2>1, <2>2
<1>5. ReportHeld'
  <2>1. execPc \in Reporting => execReport \in ExecutionReportSet
    BY DEF SidesAgree, VenueSide, ReportHeld
  <2>2. execPc \in Reporting /\ crashes' = 0 => (Present(execReport) => Present(execReport)')
    <3> DEFINE rep == execReport
    <3>1. PICK r : r = execReport
      OBVIOUS
    <3>2. r \in ExecutionReportSet /\ crashes' = 0 => (Present(r) => Present(r)')
      BY <1>3
    <3>3. execReport' = r
      BY <1>1, <3>1
    <3> QED
      BY <2>1, <3>1, <3>2, <3>3 DEF Present
  <2> QED
    BY <1>1, <1>4, <2>2, HeldKept DEF SidesAgree, VenueSide
<1>6. FlowsBacked'
  BY <1>1, <1>3, <1>4, BackedKept, HandlerFacts DEF SidesAgree, VenueSide
<1>7. CalmInv'
  <2> SUFFICES ASSUME pgFaults' = 0, execCrashes' = 0, NEW i \in Intents PROVE CalmRows(i)'
    BY DEF CalmInv
  <2>1. pgFaults = 0
    <3>1. ASSUME NEW r \in ReportSet, ApplyReportLocked(r) PROVE pgFaults' \in {pgFaults, pgFaults + 1}
      BY <3>1 DEF ApplyReportLocked, UpdateHedgePnlDelta
    <3>2. CASE ReplayPending
      <4>1. Head(flushing) \in ReportSet
        BY <1>1, <3>2 DEF ReplayPending, Locked, TypeOK
      <4> QED
        BY <3>1, <3>2, <4>1, HandlerFacts DEF ReplayPending
    <3>3. ASSUME NEW m \in reportInbox, ApplyExecutionReport(m) PROVE pgFaults = 0
      <4>1. m[2] \in ReportSet
        BY <1>1 DEF TypeOK, Messages
      <4>2. pgFaults' \in {pgFaults, pgFaults + 1}
        BY <3>1, <3>3, <4>1 DEF ApplyExecutionReport
      <4> QED
        BY <4>2, HandlerFacts
    <3> QED
      BY <3>2, <3>3
      DEF Next, IntentThread, ReportThread, RememberExecutionIntent, CommitIntent,
          CommitReport, Crash, reportVars
  <2>2. CalmRows(i)
    BY <1>1, <2>1 DEF SidesAgree, VenueSide, CalmInv
  <2>3. hedgeflows[i].open => hedgeflows'[i].open
    BY <1>1, OpenStays
  <2> QED
    BY <1>3, <1>4, <2>2, <2>3, LedgerKeepsRows, HandlerFacts
<1> QED
  BY <1>2, <1>5, <1>6, <1>7 DEF SidesAgree, VenueSide

LEMMA SidesInit == InitHedge => SidesAgree
<1> SUFFICES ASSUME InitHedge PROVE SidesAgree
  OBVIOUS
<1>0. DOMAIN << >> = {}
  OBVIOUS
<1>1. /\ reportInbox = {} /\ seen_execution_report_keys = {} /\ flushing = << >>
      /\ pending_execution_reports = [x \in Intents |-> << >>]
      /\ \A k \in Keys : execution_states[k].status = "UNSPECIFIED" /\ execution_states[k].filled = 0
      /\ intentConsumer = None /\ reportConsumer = NoMessage
      /\ published = {} /\ execPc = "idle" /\ execIntent = None
  BY DEF InitHedge, InitReports, InitLedger, InitBooks, InitQueues, InitVenues
<1>2. LedgerSide
  BY <1>0, <1>1 DEF LedgerSide, OnlySent, FromSent, SettledBooked, Settled, ConsumersInOrder
<1>3. IntentsArrive
  BY <1>1 DEF IntentsArrive
<1>4. ReportHeld
  BY <1>1 DEF ReportHeld, Reporting
<1>5. \A r : ~Present(r)
  BY <1>1 DEF Present
<1>6. ASSUME NEW i \in Intents
      PROVE  flows[i].filled = 0 /\ flows[i].status = "OPEN" /\ NewChild(i) /\ i # None
  BY ReportsAssumption DEF InitHedge, InitVenues, NewChild
<1>7. FlowsBacked
  BY <1>6 DEF FlowsBacked
<1>8. CalmInv
  BY <1>1, <1>5, <1>6 DEF CalmInv, CalmRows, Untouched, NoReports, NewFlow, InAgreement
<1> QED
  BY <1>2, <1>3, <1>4, <1>7, <1>8 DEF SidesAgree, VenueSide

LEMMA SidesStep == HedgeInv /\ SidesAgree /\ [NextHedge]_hedgeVars => SidesAgree'
<1> SUFFICES ASSUME HedgeInv, SidesAgree, [NextHedge]_hedgeVars PROVE SidesAgree'
  OBVIOUS
<1>1. ASSUME NEW i \in Intents, PublishIntent(i) PROVE SidesAgree'
  BY <1>1, PublishIntentBooks
<1>2. ASSUME NEW i \in execInbox, NEW mode \in Modes, TakeIntent(i, mode) PROVE SidesAgree'
  BY <1>2, TakeIntentBooks
<1>3. ASSUME execIntent # None, NEW o \in Outcomes, NEW reached \in BOOLEAN,
             NEW q \in ExecutedBy(execIntent, o), SendOrder(o, reached, q)
      PROVE  SidesAgree'
  BY <1>3, SendOrderBooks
<1>4. CASE \/ Publish("execution.venue", "execution.reports")
           \/ Publish("execution.reports", "apply_child")
  BY <1>4, PublishBooks DEF Topics
<1>5. CASE LedgerThreads
  BY <1>5, LedgerBooks DEF LedgerThreads, Next
<1>6. CASE UNCHANGED hedgeVars
  BY <1>6, LedgerBooks DEF hedgeVars
<1> QED
  BY <1>1, <1>2, <1>3, <1>4, <1>5, <1>6, InsertOpenBooks, InsertPendingBooks,
     ApplyChildBooks, ApplyFlowBooks, EndBooks
  DEF NextHedge, ExecThread

LEMMA BaseInitHedge == InitHedge => BaseInv
BY BaseStart DEF InitHedge, InitReports, InitLedger

LEMMA BaseStepHedge ==
  HedgeInv /\ HedgeInv' /\ BaseInv /\ [NextHedge]_hedgeVars => BaseInv'
<1> SUFFICES ASSUME HedgeInv, HedgeInv', BaseInv, [NextHedge]_hedgeVars PROVE BaseInv'
  OBVIOUS
<1>1. CASE LedgerThreads
  BY <1>1, BaseStep DEF HedgeInv, HedgeTypeOK, LedgerThreads, Next
<1>2. CASE UNCHANGED books
  BY <1>2 DEF books, BaseInv, BaseMatchesStates, Booked, SignedFills
<1> QED
  BY <1>1, <1>2
  DEF NextHedge, ExecThread, PublishIntent, TakeIntent, InsertOpen, InsertPending,
      SendOrder, Publish, ApplyReportToChild, ApplyReportToFlow, PublishSimExecution,
      CommitExec, ExecCrash, Statement, ledgerVars, hedgeVars, reportVars

-----------------------------------------------------------------------------
(* What the books say at rest.                                             *)

LEMMA FillsType ==
  ASSUME HedgeInv, BaseInv, NEW i \in Intents
  PROVE  /\ IsFiniteSet(FilledOrders(i))
         /\ \A k \in FilledOrders(i) : Fills[k] = execution_states[k].filled /\ Fills[k] \in Nat
         /\ \A k \in FilledOrders(i) : Fills[k] \in Int
<1> DEFINE v == IntentInfo[i].venue
<1>1. v \in Venues
  BY ReportsAssumption
<1>2. FilledOrders(i) \subseteq Booked(v)
  BY DEF FilledOrders, Booked
<1>3. IsFiniteSet(FilledOrders(i))
  BY <1>1, <1>2, FS_Subset DEF BaseInv
<1>4. ASSUME NEW k \in FilledOrders(i)
      PROVE  Fills[k] = execution_states[k].filled /\ Fills[k] \in Nat
  BY DEF FilledOrders, Fills, HedgeInv, HedgeTypeOK, TypeOK
<1>5. \A n : n \in Nat => n \in Int
  OBVIOUS
<1> QED
  BY <1>3, <1>4, <1>5

(* At rest a report of a published intent that is present is settled.      *)
LEMMA RestSettled ==
  ASSUME HedgeInv, NoStrandedReports, SidesAgree, Rest, crashes = 0, NEW i \in published,
         NEW r \in ExecutionReportSet, r.intent = i, Present(r)
  PROVE  Settled(r) /\ execution_states[Key(r)].status # "UNSPECIFIED"
<1>1. i \in Intents /\ i \in execution_intents
  BY DEF HedgeInv, HedgeTypeOK, SidesAgree, IntentsArrive, Rest
<1>2. pending_execution_reports[i] = << >>
  BY <1>1 DEF NoStrandedReports
<1>3. flushing = << >>
  BY DEF SidesAgree, LedgerSide, ConsumersInOrder, Rest
<1>4. r.id \in seen_execution_report_keys
  BY DEF Present, Rest
<1>5. DOMAIN << >> = {}
  OBVIOUS
<1>6. Settled(r)
  BY <1>2, <1>3, <1>4, <1>5 DEF Settled, Waiting
<1> QED
  BY <1>6 DEF SidesAgree, LedgerSide, SettledBooked

LEMMA RestAhead ==
  ASSUME HedgeInv, BaseInv, NoStrandedReports, SidesAgree
  PROVE  FlowNeverAheadOfLedger
<1> SUFFICES ASSUME Rest, lost <= 1, crashes = 0, NEW i \in published
             PROVE  flows[i].filled <= LedgerFilled(i)
  BY DEF FlowNeverAheadOfLedger
<1> DEFINE K == FilledOrders(i)
           F == Fills
           t == IntentInfo[i].target
<1>1. i \in Intents /\ flows[i].filled \in Nat
  BY DEF HedgeInv, HedgeTypeOK
<1>2. IsFiniteSet(K) /\ (\A k \in K : F[k] = execution_states[k].filled /\ F[k] \in Nat)
      /\ (\A k \in K : F[k] \in Int)
  BY <1>1, FillsType
<1>3. LedgerFilled(i) = SumFunctionOnSet(F, K)
  BY DEF LedgerFilled
<1>4. CASE flows[i].filled = 0
  <2> HIDE DEF K, F
  <2>1. SumFunctionOnSet(F, K) \in Nat
    BY <1>2, SumNat
  <2> QED
    BY <1>3, <1>4, <2>1
<1>5. CASE flows[i].filled # 0
  <2>1. flows[i].filled = t /\ Backed(i)
    BY <1>1, <1>5 DEF SidesAgree, VenueSide, FlowsBacked
  <2>2. PICK r \in ExecutionReportSet : r.intent = i /\ r.filled = t /\ Present(r)
    BY <2>1 DEF Backed
  <2> DEFINE k == Key(r)
  <2>3. execution_states[k].status # "UNSPECIFIED" /\ k \in Keys /\ k[1] = i /\ t \in Nat /\ t > 0
    BY <2>2, RestSettled, ReportForm
  <2>4. PICK q \in ExecutionReportSet : Says(k, q)
    BY <2>3 DEF SidesAgree, LedgerSide, FromSent
  <2>5. execution_states[k].filled = t
    BY <2>2, <2>4, SameKey DEF Says
  <2>6. k \in K /\ F[k] = t
    BY <2>3, <2>5, <1>2 DEF FilledOrders
  <2> HIDE DEF K, F, k, t
  <2>7. SumFunctionOnSet(F, K) = F[k] + SumFunctionOnSet(F, K \ {k})
    BY <1>2, <2>6, SumSplit
  <2>8. SumFunctionOnSet(F, K \ {k}) \in Nat
    <3>1. IsFiniteSet(K \ {k}) /\ \A x \in K \ {k} : F[x] \in Nat
      BY <1>2, FS_Subset
    <3> QED
      BY <3>1, SumNat
  <2> QED
    BY <1>3, <2>1, <2>3, <2>6, <2>7, <2>8
<1> QED
  BY <1>4, <1>5

LEMMA RestAgree ==
  ASSUME HedgeInv, BaseInv, NoStrandedReports, SidesAgree
  PROVE  BooksAgree
<1> SUFFICES ASSUME Rest, lost <= 1, pgFaults = 0, execCrashes = 0, crashes = 0, NEW i \in published
    PROVE /\ flows[i].filled = LedgerFilled(i)
          /\ children[i].filled = LedgerFilled(i)
          /\ \A k \in Keys : (k[1] = i /\ execution_states[k].status # "UNSPECIFIED") =>
               /\ flows[i].status = FlowStatus(execution_states[k].status)
               /\ children[i].status = ChildStatus(execution_states[k].status)
  BY DEF BooksAgree
<1> DEFINE K == FilledOrders(i)
           F == Fills
<1>1. i \in Intents /\ i # execIntent /\ execIntent = None
  BY ReportsAssumption DEF HedgeInv, HedgeTypeOK, Rest
<1>2. IsFiniteSet(K) /\ (\A k \in K : F[k] = execution_states[k].filled /\ F[k] \in Nat)
      /\ (\A k \in K : F[k] \in Int)
  BY <1>1, FillsType
<1>3. LedgerFilled(i) = SumFunctionOnSet(F, K)
  BY DEF LedgerFilled
<1>4. Untouched(i) \/ \E r \in ExecutionReportSet : Applied(i, r)
  BY <1>1 DEF SidesAgree, VenueSide, CalmInv, CalmRows, Preparing, Reported, ChildApplied, InAgreement
<1>5. ASSUME NEW k \in Keys, k[1] = i,
             execution_states[k].status # "UNSPECIFIED" \/ execution_states[k].filled # 0
      PROVE  \E q \in ExecutionReportSet :
               /\ q.intent = i /\ Present(q) /\ k = Key(q)
               /\ execution_states[k].status = q.status /\ execution_states[k].filled = q.filled
  <2>1. PICK q \in ExecutionReportSet : Says(k, q)
    BY <1>5 DEF SidesAgree, LedgerSide, FromSent
  <2>2. q.intent = i
    BY <1>5, <2>1, ReportForm DEF Says
  <2> QED
    BY <2>1, <2>2 DEF Says, Present
<1>6. CASE Untouched(i)
  <2>1. \A k \in Keys : k[1] = i =>
          execution_states[k].status = "UNSPECIFIED" /\ execution_states[k].filled = 0
    BY <1>5, <1>6 DEF Untouched, NoReports
  <2>2. K = {}
    BY <2>1 DEF FilledOrders
  <2>3. SumFunctionOnSet(F, K) = 0
    BY <2>2, SumEmpty
  <2> QED
    BY <1>3, <1>6, <2>1, <2>3 DEF Untouched, NewFlow, NewChild
<1>7. ASSUME NEW r \in ExecutionReportSet, Applied(i, r)
      PROVE  /\ flows[i].filled = LedgerFilled(i)
             /\ children[i].filled = LedgerFilled(i)
             /\ \A k \in Keys : (k[1] = i /\ execution_states[k].status # "UNSPECIFIED") =>
                  /\ flows[i].status = FlowStatus(execution_states[k].status)
                  /\ children[i].status = ChildStatus(execution_states[k].status)
  <2> DEFINE k == Key(r)
  <2>1. /\ r.intent = i /\ OnlyReport(i, r) /\ Present(r)
        /\ flows[i].filled = r.filled /\ flows[i].status = FlowStatus(r.status)
        /\ children[i].filled = r.filled /\ children[i].status = ChildStatus(r.status)
    BY <1>7 DEF Applied, ChildSays, FlowSays
  <2>2. execution_states[k].status # "UNSPECIFIED" /\ k \in Keys /\ k[1] = i /\ r.filled \in Nat
    BY <2>1, RestSettled, ReportForm, ReportType
  <2>3. ASSUME NEW j \in Keys, j[1] = i,
               execution_states[j].status # "UNSPECIFIED" \/ execution_states[j].filled # 0
        PROVE  j = k /\ execution_states[j].status = r.status /\ execution_states[j].filled = r.filled
    BY <1>5, <2>1, <2>3 DEF OnlyReport
  <2>4. execution_states[k].filled = r.filled
    BY <2>2, <2>3
  <2>5. SumFunctionOnSet(F, K) = r.filled
    <3>1. CASE r.filled = 0
      <4>1. K = {}
        BY <2>3, <3>1 DEF FilledOrders
      <4> QED
        BY <3>1, <4>1, SumEmpty
    <3>2. CASE r.filled # 0
      <4>1. k \in K /\ \A j \in K : j = k
        BY <2>2, <2>3, <2>4, <3>2 DEF FilledOrders
      <4>2. F[k] = r.filled
        BY <1>2, <2>4, <4>1
      <4>3. K \ {k} = {}
        BY <4>1
      <4> HIDE DEF K, F, k
      <4>4. SumFunctionOnSet(F, K) = F[k] + SumFunctionOnSet(F, K \ {k})
        BY <1>2, <4>1, SumSplit
      <4>5. SumFunctionOnSet(F, K \ {k}) = 0
        BY <4>3, SumEmpty
      <4> QED
        BY <2>2, <4>2, <4>4, <4>5
    <3> QED
      BY <3>1, <3>2
  <2> HIDE DEF K, F
  <2> QED
    BY <1>3, <2>1, <2>3, <2>5
<1> QED
  BY <1>4, <1>6, <1>7

(* The order of the three consumers, the copies of a report, restarts of   *)
(* venues and failed statements of PG do not set the books of a hedge      *)
(* apart: at rest hedgeflows, child_orders and execution_states agree if   *)
(* nothing failed but one produce, and no fill in hedgeflows is missing in *)
(* the ledger whatever venues went through.                                *)
THEOREM HedgeBooksAgree == HedgeSpec => []HedgeBooks
<1>1. /\ InitHedge => BaseInv
      /\ HedgeInv /\ HedgeInv' /\ BaseInv /\ [NextHedge]_hedgeVars => BaseInv'
  BY BaseInitHedge, BaseStepHedge
<1>2. HedgeInv /\ BaseInv /\ NoStrandedReports /\ SidesAgree => HedgeBooks
  BY RestAgree, RestAhead DEF HedgeBooks
<1> QED
  BY <1>1, <1>2, SidesInit, SidesStep, HedgeInvariant, HedgeNothingStranded, PTL DEF HedgeSpec
=============================================================================

------------------------------- MODULE Combos -------------------------------
(***************************************************************************)
(* Combo orders in mode multileg_vector_solver: order_flow writes them to  *)
(* PostgreSQL and cancels them, the timer thread of matching executes      *)
(* their internal legs in groups and sends their external legs to venues   *)
(* in chunks, and its consumer thread handles the venues' answers.         *)
(*                                                                         *)
(* The tables combo_orders, combo_order_legs and combo_compensations are   *)
(* shared; every repository call is a transaction of its own.  The set     *)
(* external_in_flight_ of matching is in memory.  Venues answer an intent  *)
(* once; what they do with it is in module HedgeExecution.                 *)
(***************************************************************************)
EXTENDS GroupedSolver, Sequences, FiniteSets

CONSTANTS
  Combo,        \* combo ids
  Leg,          \* leg ids: numbers, in the order of ORDER BY leg_id
  Def,          \* Leg -> [combo, prefs, symbol, ratio, rate, qmax]
  Policy,       \* Combo -> atomicity_policy
  MinScale,     \* min_execution_scale of every combo
  Oco, Bracket, \* conditional_links: sets of <<from_leg_id, to_leg_id>>
  MaxBatches,   \* bound on grouped batches
  MaxFaults     \* bound on failed calls, lost messages and restarts of matching

(* What the constants satisfy; the instances that are checked assert it.   *)
CombosAssumption ==
  /\ AlphaOne \in Nat \ {0}
  /\ Leg \subseteq Nat /\ IsFiniteSet(Leg)
  /\ Def \in [Leg -> [combo : Combo,
                      prefs : {"none", "internal", "mixed", "external"},
                      symbol : STRING, ratio : Nat, rate : Nat, qmax : Nat]]
  /\ Policy \in [Combo -> STRING]
  /\ MinScale \in 0 .. AlphaOne
  /\ Oco \subseteq Leg \X Leg
  /\ Bracket \subseteq Leg \X Leg
  /\ \A e \in Oco \cup Bracket : Def[e[1]].combo = Def[e[2]].combo
  /\ MaxBatches \in Nat
  /\ MaxFaults \in Nat

VARIABLES
  combo_orders,     \* PG: Combo -> status
  legs,             \* PG: Leg -> [status, filled, qmax]
  cancelling,       \* CancelComboOrder calls that found a cancellable combo
  compensations,    \* PG: set of <<leg, report>>
  external_in_flight, \* matching: legs with a chunk out
  batch,            \* the timer thread: [pc, n, loaded, route, groups, cur, exec, graph]
  intents,          \* chunks sent to the venues: sequence of [leg, qty, open]
  reports,          \* execution.venue: sequence of [leg, qty, status]
  handler,          \* the consumer thread: [pc, next]
  published,        \* Leg -> volume sent to execution.groups
  executed,         \* Leg -> volume executed at venues
  faults            \* failures so far

tables    == <<combo_orders, legs, compensations>>
memory    == <<external_in_flight, batch, handler>>
topics    == <<intents, reports, published, executed>>
comboVars == <<tables, memory, topics, cancelling, faults>>

LegsOf(c)   == {l \in Leg : Def[l].combo = c}
External(l) == Def[l].prefs = "external"

IdleBatch == [pc |-> "idle", n |-> 0, loaded |-> <<>>, route |-> {}, groups |-> {},
              cur |-> <<>>, exec |-> <<>>, graph |-> <<>>]

ComboInit ==
  /\ combo_orders = [c \in Combo |-> "none"]
  /\ legs = [l \in Leg |-> [status |-> "none", filled |-> 0, qmax |-> Def[l].qmax]]
  /\ cancelling = {}
  /\ compensations = {}
  /\ external_in_flight = {}
  /\ batch = IdleBatch
  /\ intents = <<>>
  /\ reports = <<>>
  /\ handler = [pc |-> "idle", next |-> 1]
  /\ published = [l \in Leg |-> 0]
  /\ executed = [l \in Leg |-> 0]
  /\ faults = 0

Fault == faults < MaxFaults /\ faults' = faults + 1
-----------------------------------------------------------------------------
(* order_flow.  CreateComboOrder: the combo is validated, policy and risk  *)
(* may refuse it, one transaction inserts it and its legs, all 'active'.   *)
ValidLeg(l) == Def[l].rate > 0 /\ Def[l].qmax > 0

ValidLink(e) == e[1] # e[2]

ValidCombo(c) ==
  /\ Cardinality(LegsOf(c)) >= 2
  /\ \A l \in LegsOf(c) : ValidLeg(l)
  /\ \A e \in Oco \cup Bracket : Def[e[1]].combo = c => ValidLink(e)
  /\ Policy[c] # "unspecified"

CreateComboOrder(c) ==
  /\ combo_orders[c] = "none"
  /\ ValidCombo(c)
  /\ combo_orders' = [combo_orders EXCEPT ![c] = "active"]
  /\ legs' = [l \in Leg |-> IF l \in LegsOf(c) THEN [legs[l] EXCEPT !.status = "active"]
                                               ELSE legs[l]]
  /\ UNCHANGED <<compensations, memory, topics, cancelling, faults>>

(* CancelComboOrder: GetComboStatus, then CancelComboAndLegs.  The cancel  *)
(* events of the legs name orders matching does not know.                  *)
CheckCancel(c) ==
  /\ c \notin cancelling
  /\ combo_orders[c] \in {"active", "partially_filled"}
  /\ cancelling' = cancelling \cup {c}
  /\ UNCHANGED <<tables, memory, topics, faults>>

CancelComboAndLegs(c) ==
  /\ c \in cancelling
  /\ cancelling' = cancelling \ {c}
  /\ combo_orders' = [combo_orders EXCEPT ![c] = IF @ = "filled" THEN @ ELSE "cancelled"]
  /\ legs' = [l \in Leg |-> IF l \in LegsOf(c) /\ legs[l].status \notin {"filled", "cancelled"}
                            THEN [legs[l] EXCEPT !.status = "cancelled"] ELSE legs[l]]
  /\ UNCHANGED <<compensations, memory, topics, faults>>
-----------------------------------------------------------------------------
(* The grouped batch of matching.                                          *)
Loadable(l) ==
  /\ combo_orders[Def[l].combo] \in {"active", "partially_filled"}
  /\ legs[l].status \notin {"cancelled", "waiting_for_trigger", "failed_external", "filled"}

LoadActiveGroups ==
  LET S == {l \in Leg : Loadable(l)}
  IN  /\ batch.pc = "idle"
      /\ batch.n < MaxBatches
      /\ S # {}
      /\ batch' = [batch EXCEPT
                     !.pc = "route", !.n = @ + 1,
                     !.loaded = [l \in S |-> legs[l]],
                     !.route = {l \in S : External(l)},
                     !.groups = {Def[l].combo : l \in {k \in S : ~External(k)}}]
      /\ UNCHANGED <<tables, external_in_flight, handler, topics, cancelling, faults>>

(* A leg as the solver sees it.                                            *)
Loaded(l) == [id |-> l, symbol |-> Def[l].symbol, ratio |-> Def[l].ratio, rate |-> Def[l].rate,
              qmax |-> batch.loaded[l].qmax, filled |-> batch.loaded[l].filled]

(* SplitInternalExternal, BuildExternalIntent: a chunk of an external leg  *)
(* unless one is in flight; a failed produce takes the flag back.          *)
(* Mutation: the guard by external_in_flight_ is forgotten.                *)
AlwaysRoute(l) == TRUE
MayRoute(l) == l \notin external_in_flight
RouteExternal(l) ==
  /\ batch.pc = "route"
  /\ l \in batch.route
  /\ batch' = [batch EXCEPT !.route = @ \ {l}]
  /\ \/ /\ MayRoute(l)
        /\ external_in_flight' = external_in_flight \cup {l}
        /\ intents' = Append(intents, [leg |-> l, qty |-> FeasibleCap(Loaded(l)), open |-> TRUE])
        /\ UNCHANGED faults
     \/ /\ ~MayRoute(l)
        /\ UNCHANGED <<external_in_flight, intents, faults>>
     \/ /\ MayRoute(l)
        /\ Fault
        /\ UNCHANGED <<external_in_flight, intents>>
  /\ UNCHANGED <<tables, handler, reports, published, executed, cancelling>>

(* Solve a group and publish it.  Nothing is sent when no leg executes or  *)
(* a hard constraint of the group is violated at the prices of the batch.  *)
GroupLegs(c) == {Loaded(l) : l \in {k \in DOMAIN batch.loaded : Def[k].combo = c /\ ~External(k)}}
GroupExec(c) == Solve(GroupLegs(c), Policy[c], MinScale)

SkipGroup(c) ==
  /\ batch.pc = "route" /\ batch.route = {}
  /\ c \in batch.groups
  /\ batch' = [batch EXCEPT !.groups = @ \ {c}]
  /\ UNCHANGED <<tables, external_in_flight, handler, topics, cancelling, faults>>

PublishGroup(c) ==
  /\ batch.pc = "route" /\ batch.route = {}
  /\ c \in batch.groups
  /\ GroupExec(c) # <<>>
  /\ batch' = [batch EXCEPT !.pc = "persist", !.groups = @ \ {c}, !.cur = c, !.exec = GroupExec(c)]
  /\ \/ /\ published' = [l \in Leg |-> IF l \in DOMAIN GroupExec(c)
                                       THEN published[l] + GroupExec(c)[l] ELSE published[l]]
        /\ UNCHANGED faults
     \/ /\ Fault                      \* the result of ProduceBuilt is ignored
        /\ UNCHANGED published
  /\ UNCHANGED <<tables, external_in_flight, handler, intents, reports, executed, cancelling>>

(* PersistExecutionGroup: the fills, the status of the combo, and once it  *)
(* is filled its active legs are closed.  A failed transaction is logged.  *)
Booked(l) == IF l \in DOMAIN batch.exec
             THEN Lesser(legs[l].filled + batch.exec[l], legs[l].qmax)
             ELSE legs[l].filled

StatusAfter(c) ==
  IF combo_orders[c] \in {"filled", "cancelled"} THEN combo_orders[c]
  ELSE IF \E l \in LegsOf(c) : Booked(l) >= legs[l].qmax THEN "filled" ELSE "partially_filled"

PersistExecutionGroup ==
  LET c == batch.cur
  IN  /\ batch.pc = "persist"
      /\ \/ /\ combo_orders' = [combo_orders EXCEPT ![c] = StatusAfter(c)]
            /\ legs' = [l \in Leg |->
                 [legs[l] EXCEPT
                    !.filled = Booked(l),
                    !.status = IF l \in LegsOf(c) /\ @ = "active" /\ StatusAfter(c) = "filled"
                               THEN "filled" ELSE @]]
            /\ UNCHANGED faults
         \/ /\ Fault
            /\ UNCHANGED <<combo_orders, legs>>
      /\ batch' = [batch EXCEPT !.pc = "graph"]
      /\ UNCHANGED <<compensations, external_in_flight, handler, topics, cancelling>>

(* LoadComboGroupState with ApplyOCOTransitions and ResizeBracketExits:    *)
(* legs to cancel, and the new q_max of exits.  Links of type conditional  *)
(* act on legs that wait for a trigger, and no writer makes a leg wait.    *)
HasFill(l) == legs[l].status = "filled" \/ legs[l].filled > 0

ToCancel(c) == {x \in LegsOf(c) : /\ legs[x].status # "cancelled"
                                  /\ \E s \in LegsOf(c) : <<s, x>> \in Oco /\ HasFill(s)}

ToResize(c) == {e \in Bracket : /\ Def[e[1]].combo = c
                                /\ legs[e[1]].filled > 0
                                /\ legs[e[2]].qmax # legs[e[1]].filled}

LoadGraph ==
  /\ batch.pc = "graph"
  /\ LET c == batch.cur
     IN  batch' = IF ToCancel(c) = {} /\ ToResize(c) = {}
                  THEN [batch EXCEPT !.pc = "route"]
                  ELSE [batch EXCEPT !.pc = "transit",
                          !.graph = [cancel |-> ToCancel(c),
                                     resize |-> [x \in {e[2] : e \in ToResize(c)} |->
                                                   legs[(CHOOSE e \in ToResize(c) : e[2] = x)[1]].filled]]]
  /\ UNCHANGED <<tables, external_in_flight, handler, topics, cancelling, faults>>

(* PersistChildGraphTransitions: one transaction, which the CHECK          *)
(* filled_cum <= q_max may refuse as a whole.  A resized exit is 'active'. *)
Transit(l) ==
  IF l \in DOMAIN batch.graph.resize
  THEN [legs[l] EXCEPT !.qmax = batch.graph.resize[l], !.status = "active"]
  ELSE IF l \in batch.graph.cancel THEN [legs[l] EXCEPT !.status = "cancelled"] ELSE legs[l]

(* Mutation: the table has no CHECK.                                       *)
NoCheck(l) == TRUE
Checked(l) == legs[l].filled <= Transit(l).qmax

PersistTransitions ==
  /\ batch.pc = "transit"
  /\ \/ /\ legs' = [l \in Leg |-> IF \A k \in Leg : Checked(k) THEN Transit(l) ELSE legs[l]]
        /\ UNCHANGED faults
     \/ /\ Fault
        /\ UNCHANGED legs
  /\ batch' = [batch EXCEPT !.pc = "route", !.graph = <<>>]
  /\ UNCHANGED <<combo_orders, compensations, external_in_flight, handler, topics, cancelling>>

EndGroupedBatch ==
  /\ batch.pc = "route" /\ batch.route = {} /\ batch.groups = {}
  /\ batch' = [IdleBatch EXCEPT !.n = batch.n]
  /\ UNCHANGED <<tables, external_in_flight, handler, topics, cancelling, faults>>
-----------------------------------------------------------------------------
(* A venue answers a chunk: it is executed in full, refused, or the answer *)
(* has a status on_external_execution_report does not handle.              *)
VenueAnswer(i, status) ==
  /\ intents[i].open
  /\ intents' = [intents EXCEPT ![i].open = FALSE]
  /\ reports' = Append(reports, [leg |-> intents[i].leg, qty |-> intents[i].qty,
                                 status |-> status])
  /\ executed' = [executed EXCEPT ![intents[i].leg] =
                    IF status = "FILLED" THEN @ + intents[i].qty ELSE @]
  /\ UNCHANGED <<tables, memory, published, cancelling, faults>>

(* on_external_execution_report.  The flag is taken back first.  A failed  *)
(* PG call is logged and the report is not handled again.                  *)
Report == reports[handler.next]

(* Mutation: only a fill takes the flag back.                              *)
FreedByFill(r) == IF r.status = "FILLED" THEN external_in_flight \ {r.leg} ELSE external_in_flight
Freed(r) == external_in_flight \ {r.leg}

TakeReport ==
  /\ handler.pc = "idle"
  /\ handler.next <= Len(reports)
  /\ \/ /\ Report.status = "OTHER"
        /\ handler' = [handler EXCEPT !.pc = "commit"]
        /\ UNCHANGED <<external_in_flight, faults>>
     \/ /\ Report.status # "OTHER"
        /\ handler' = [handler EXCEPT !.pc = "mark"]
        /\ external_in_flight' = Freed(Report)
        /\ UNCHANGED faults
     \/ /\ Report.status # "OTHER"
        /\ Fault
        /\ handler' = [handler EXCEPT !.pc = "commit"]
        /\ UNCHANGED external_in_flight
  /\ UNCHANGED <<tables, batch, topics, cancelling>>

MarkFailedCall ==
  /\ handler.pc = "mark"
  /\ Fault
  /\ handler' = [handler EXCEPT !.pc = "commit"]
  /\ UNCHANGED <<tables, external_in_flight, batch, topics, cancelling>>

FilledCum(r) == Lesser(legs[r.leg].filled + r.qty, legs[r.leg].qmax)

MarkExternalLegFilled ==
  LET l == Report.leg
      f == FilledCum(Report)
  IN  /\ handler.pc = "mark"
      /\ Report.status = "FILLED"
      /\ legs' = IF legs[l].status \in {"active", "partially_filled"}
                 THEN [legs EXCEPT ![l].filled = f,
                                   ![l].status = IF f >= legs[l].qmax THEN "filled"
                                                                      ELSE "partially_filled"]
                 ELSE legs
      /\ handler' = [handler EXCEPT !.pc = "commit"]
      /\ UNCHANGED <<combo_orders, compensations, external_in_flight, batch, topics, cancelling, faults>>

MarkExternalLegFailed ==
  LET l    == Report.leg
      done == legs[l].status \in {"cancelled", "filled", "failed_external"}
  IN  /\ handler.pc = "mark"
      /\ Report.status # "FILLED"
      /\ legs' = IF done THEN legs ELSE [legs EXCEPT ![l].status = "failed_external"]
      /\ handler' = [handler EXCEPT !.pc = IF done THEN "commit" ELSE "record"]
      /\ UNCHANGED <<combo_orders, compensations, external_in_flight, batch, topics, cancelling, faults>>

(* SumInternalFilledQty counts legs whose preferences name 'internal';     *)
(* RecordPending is idempotent per report.                                 *)
Counted(l) == \E k \in LegsOf(Def[l].combo) \ {l} :
                 Def[k].prefs \in {"internal", "mixed"} /\ legs[k].filled > 0

RecordPending ==
  /\ handler.pc = "record"
  /\ \/ /\ compensations' = IF Counted(Report.leg)
                            THEN compensations \cup {<<Report.leg, handler.next>>}
                            ELSE compensations
        /\ UNCHANGED faults
     \/ /\ Fault
        /\ UNCHANGED compensations
  /\ handler' = [handler EXCEPT !.pc = "commit"]
  /\ UNCHANGED <<combo_orders, legs, external_in_flight, batch, topics, cancelling>>

CommitReport ==
  /\ handler.pc = "commit"
  /\ handler' = [pc |-> "idle", next |-> handler.next + 1]
  /\ UNCHANGED <<tables, external_in_flight, batch, topics, cancelling, faults>>

(* A restart of matching: memory is lost, an uncommitted report comes back.*)
RestartMatching ==
  /\ Fault
  /\ external_in_flight' = {}
  /\ batch' = [IdleBatch EXCEPT !.n = batch.n]
  /\ handler' = [handler EXCEPT !.pc = "idle"]
  /\ UNCHANGED <<tables, topics, cancelling>>
-----------------------------------------------------------------------------
Statuses == {"FILLED", "REJECTED", "EXPIRED", "OTHER"}

HandleReport == \/ TakeReport \/ MarkFailedCall \/ MarkExternalLegFilled
                \/ MarkExternalLegFailed \/ RecordPending \/ CommitReport

GroupedBatch == \/ LoadActiveGroups
                \/ \E l \in Leg : RouteExternal(l)
                \/ \E c \in Combo : SkipGroup(c) \/ PublishGroup(c)
                \/ PersistExecutionGroup \/ LoadGraph \/ PersistTransitions
                \/ EndGroupedBatch

VenuesAnswer == \E i \in DOMAIN intents, s \in Statuses : VenueAnswer(i, s)

ComboNext ==
  \/ \E c \in Combo : CreateComboOrder(c) \/ CheckCancel(c) \/ CancelComboAndLegs(c)
  \/ GroupedBatch
  \/ VenuesAnswer
  \/ HandleReport
  \/ RestartMatching

ComboSpec == ComboInit /\ [][ComboNext]_comboVars
-----------------------------------------------------------------------------
LegStatus == {"none", "active", "partially_filled", "filled", "cancelled", "failed_external"}

(* Rows, memory and topics are well formed; a leg never holds more than    *)
(* its q_max, as the CHECK of combo_order_legs demands.                    *)
ComboTypeOK ==
  /\ combo_orders \in [Combo -> {"none", "active", "partially_filled", "filled", "cancelled"}]
  /\ legs \in [Leg -> [status : LegStatus, filled : Nat, qmax : Nat]]
  /\ \A l \in Leg : legs[l].filled <= legs[l].qmax
  /\ cancelling \subseteq Combo
  /\ external_in_flight \subseteq Leg
  /\ published \in [Leg -> Nat]
  /\ executed \in [Leg -> Nat]
  /\ faults \in 0 .. MaxFaults

(* What the ledger was told of an internal leg is what its row holds, but  *)
(* for the group in progress and the volume of one group per failure.      *)
(* This needs the leg to be alone with its symbol: cap_by_sym keeps one    *)
(* cap per symbol, and a combo whose legs share one (CreateComboOrder does *)
(* not refuse it) may publish more of a leg than the row can take.         *)
OwnSymbol(l) ==
  \A k \in LegsOf(Def[l].combo) \ {l} : External(k) \/ Def[k].symbol # Def[l].symbol

InProgress(l) == IF batch.pc = "persist" /\ l \in DOMAIN batch.exec THEN batch.exec[l] ELSE 0

BookMatchesTopic ==
  \A l \in Leg :
    ~External(l) /\ OwnSymbol(l) =>
      /\ published[l] <= legs[l].filled + InProgress(l) + faults * Def[l].rate
      /\ legs[l].filled + InProgress(l) <= published[l] + faults * Def[l].rate

(* A leg has one chunk at the venues or in a report not yet taken: only    *)
(* the answer to a chunk takes its flag back.  A restart forgets the flags *)
(* and may deliver one answer again, hence two more per failure.           *)
Untaken(l) ==
  {r \in handler.next .. Len(reports) :
     reports[r].leg = l /\ reports[r].status # "OTHER" /\ (r = handler.next => handler.pc = "idle")}
OpenChunks(l) == {i \in DOMAIN intents : intents[i].leg = l /\ intents[i].open}
OneChunkOut ==
  \A l \in Leg :
    Cardinality(OpenChunks(l)) + Cardinality(Untaken(l)) <= 1 + 2 * faults

(* The row of an external leg never holds more than the venues executed,   *)
(* but for the answer that a failure delivers twice.                       *)
FilledIsReal ==
  \A l \in Leg : External(l) => legs[l].filled <= executed[l] + faults * Def[l].rate

(* What the tables, the topics and the memory of matching promise together. *)
ComboSafety == ComboTypeOK /\ BookMatchesTopic /\ OneChunkOut /\ FilledIsReal

(* A chunk that a venue answers with a final status frees its leg for the  *)
(* next chunk; only a status nobody handles, or a failure, keeps it.       *)
FlagReleased ==
  \A l \in {k \in Leg : External(k)} :
    (l \in external_in_flight /\ faults = 0)
      ~> (l \notin external_in_flight \/ faults > 0
          \/ \E r \in DOMAIN reports : reports[r].leg = l /\ reports[r].status = "OTHER")
=============================================================================

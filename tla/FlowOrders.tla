----------------------------- MODULE FlowOrders -----------------------------
(***************************************************************************)
(* The life of a flow order across order_flow and matching, with           *)
(* PostgreSQL as the source of active orders (both *_POSTGRES_DSN set).    *)
(*                                                                         *)
(* order_flow keeps orders_ in memory under a mutex, calls the ledger      *)
(* without it, writes the row of flow_orders and publishes events to       *)
(* orders.normalized.  The timer thread of matching loads the active rows, *)
(* clears a batch, publishes it to batch.outputs, refreshes order_index_   *)
(* and adds the fills to the rows.  Its consumer thread handles the order  *)
(* events; order_flow consumes batch.outputs.  Each topic has one          *)
(* partition, a handled message may be delivered again before its commit.  *)
(*                                                                         *)
(* The solver is any choice of fills (an internal and an external one per  *)
(* order), a little more than is left of an order included.                *)
(***************************************************************************)
EXTENDS Integers, Sequences

CONSTANTS
  Orders,       \* order ids; the gateway makes a new one for every order
  Qty,          \* Orders -> total_qty (q_max)
  IOC,          \* orders with time_in_force IOC
  MaxFill,      \* bound on one fill of the solver
  MaxBatches,   \* bound on batches
  MaxFaults,    \* bound on failures and restarts of matching
  MaxOutages    \* bound on restarts of order_flow and on its calls with a lost outcome

ASSUME FlowAssumption ==
  /\ Qty \in [Orders -> Nat \ {0}]       \* validate_order
  /\ IOC \subseteq Orders
  /\ MaxFill \in Nat
  /\ MaxBatches \in Nat
  /\ MaxFaults \in Nat
  /\ MaxOutages \in Nat

VARIABLES
  creating,       \* Orders -> next step of the CreateFlowOrder call
  cancelling,     \* Orders -> next step of the CancelFlowOrder call
  orders,         \* order_flow orders_: Orders -> [status, remaining]
  applied_fills,  \* order_flow applied_fills_: <<batch id, order>>
  handled,        \* the head of batch.outputs was applied, not committed
  reservations,   \* Orders -> what the ledger holds: none, open, released
  flow_orders,    \* PG: Orders -> [status, filled]
  events,         \* orders.normalized
  order_index,    \* matching order_index_: Orders -> [status, filled]
  batch,          \* the timer thread: [pc, id, loaded, exec, ok]
  outputs,        \* batch.outputs not yet committed by order_flow
  published,      \* Orders -> volume that left in batch.outputs
  faults, outages \* failures so far, in matching and in order_flow

orderFlow == <<creating, cancelling, orders, applied_fills, handled, outages>>
matching  == <<order_index, batch>>
flowVars  == <<orderFlow, matching, reservations, flow_orders, events,
               outputs, published, faults>>

Absent == [status |-> "NONE", remaining |-> 0]
NoRow  == [status |-> "none", filled |-> 0]
Idle   == [pc |-> "idle", id |-> 0, loaded |-> <<>>, exec |-> <<>>, ok |-> FALSE]

InitFlow ==
  /\ creating = [o \in Orders |-> "none"]
  /\ cancelling = [o \in Orders |-> "none"]
  /\ orders = [o \in Orders |-> Absent]
  /\ applied_fills = {}
  /\ handled = FALSE
  /\ reservations = [o \in Orders |-> "none"]
  /\ flow_orders = [o \in Orders |-> NoRow]
  /\ events = <<>>
  /\ order_index = [o \in Orders |-> NoRow]
  /\ batch = Idle
  /\ outputs = <<>>
  /\ published = [o \in Orders |-> 0]
  /\ faults = 0
  /\ outages = 0
-----------------------------------------------------------------------------
(* A call to another system: `done' what it did there, `ok' what the       *)
(* caller learns.  A success is real; a failure may have been done.        *)
Outage == outages < MaxOutages /\ outages' = outages + 1
Outcome(done, ok) ==
  /\ ok => done
  /\ IF done = ok THEN UNCHANGED outages ELSE Outage

(* CreateFlowOrder.  Validation, the risk check and ReserveFunds: `ok'     *)
(* when all of them accept; the quantity is the one risk approved.         *)
ReserveFunds(o, done, ok) ==
  /\ creating[o] = "none"
  /\ Outcome(done, ok)
  /\ creating' = [creating EXCEPT ![o] = IF ok THEN "store" ELSE "refused"]
  /\ reservations' = [reservations EXCEPT ![o] = IF done THEN "open" ELSE @]
  /\ UNCHANGED <<cancelling, orders, applied_fills, handled, matching,
                 flow_orders, events, outputs, published, faults>>

StoreOrder(o) ==
  /\ creating[o] = "store"
  /\ creating' = [creating EXCEPT ![o] = "insert"]
  /\ orders' = [orders EXCEPT ![o] = [status |-> "NEW", remaining |-> Qty[o]]]
  /\ UNCHANGED <<cancelling, applied_fills, handled, outages, matching,
                 reservations, flow_orders, events, outputs, published, faults>>

(* The row is inserted as 'active', or the transaction throws.             *)
InsertFlowOrder(o, done, ok) ==
  /\ creating[o] = "insert"
  /\ Outcome(done, ok)
  /\ creating' = [creating EXCEPT ![o] = IF ok THEN "publish" ELSE "release"]
  /\ flow_orders' = [flow_orders EXCEPT ![o] =
                       IF done THEN [status |-> "active", filled |-> 0] ELSE @]
  /\ UNCHANGED <<cancelling, orders, applied_fills, handled, matching,
                 reservations, events, outputs, published, faults>>

(* ReleaseFunds of the ledger: nothing when the reservation is gone.  A    *)
(* call that does not reach it is only logged.                             *)
(* Mutation: the reservation is kept.                                      *)
Kept(r) == r
Released(r) == IF r = "open" THEN "released" ELSE r
ReleaseFunds(o) ==
  \/ /\ reservations' = [reservations EXCEPT ![o] = Released(@)]
     /\ UNCHANGED outages
  \/ /\ Outage
     /\ UNCHANGED reservations

(* The rollback of a failed insert: the reservation, then the memory.      *)
ReleaseFailed(o) ==
  /\ creating[o] = "release"
  /\ creating' = [creating EXCEPT ![o] = "erase"]
  /\ ReleaseFunds(o)
  /\ UNCHANGED <<cancelling, orders, applied_fills, handled, matching,
                 flow_orders, events, outputs, published, faults>>

EraseFailed(o) ==
  /\ creating[o] = "erase"
  /\ creating' = [creating EXCEPT ![o] = "refused"]
  /\ orders' = [orders EXCEPT ![o] = Absent]
  /\ UNCHANGED <<cancelling, applied_fills, handled, outages, matching,
                 reservations, flow_orders, events, outputs, published, faults>>

(* The result of a publish is ignored: the event may be lost.              *)
Send(kind, o) ==
  \/ events' = Append(events, [kind |-> kind, order |-> o])
  \/ UNCHANGED events

PublishCreate(o) ==
  /\ creating[o] = "publish"
  /\ creating' = [creating EXCEPT ![o] = "accepted"]
  /\ Send("create", o)
  /\ UNCHANGED <<cancelling, orders, applied_fills, handled, outages, matching,
                 reservations, flow_orders, outputs, published, faults>>

(* CancelFlowOrder: NOT_FOUND unless the order is in memory; whatever its  *)
(* status it becomes CANCELED.  The row of flow_orders is not written.     *)
CancelFlowOrder(o) ==
  /\ cancelling[o] = "none"
  /\ orders[o].status # "NONE"
  /\ cancelling' = [cancelling EXCEPT ![o] = "publish"]
  /\ orders' = [orders EXCEPT ![o].status = "CANCELED"]
  /\ UNCHANGED <<creating, applied_fills, handled, outages, matching, reservations,
                 flow_orders, events, outputs, published, faults>>

PublishCancel(o) ==
  /\ cancelling[o] = "publish"
  /\ cancelling' = [cancelling EXCEPT ![o] = "release"]
  /\ Send("cancel", o)
  /\ UNCHANGED <<creating, orders, applied_fills, handled, outages, matching,
                 reservations, flow_orders, outputs, published, faults>>

ReleaseCancelled(o) ==
  /\ cancelling[o] = "release"
  /\ cancelling' = [cancelling EXCEPT ![o] = "done"]
  /\ ReleaseFunds(o)
  /\ UNCHANGED <<creating, orders, applied_fills, handled, matching,
                 flow_orders, events, outputs, published, faults>>
-----------------------------------------------------------------------------
(* Quantities of a batch.                                                  *)
Volume(f) == f.internal + f.external
Lower(a, b) == IF a <= b THEN a ELSE b
AtLeastZero(a) == IF a < 0 THEN 0 ELSE a

(* CapFillsAgainstRemaining for the fills of one order, in their order.    *)
(* Mutation: the solver is trusted.                                        *)
Trusted(f, remaining) == f
Capped(f, remaining) ==
  LET i == Lower(f.internal, remaining)
  IN [internal |-> i, external |-> Lower(f.external, remaining - i)]

(* The order_update of the solver, from the fills before they are capped.  *)
OrderUpdate(o, filled, f) ==
  LET left == AtLeastZero(Qty[o] - filled - Volume(f))
  IN [status |-> IF left = 0 THEN "FILLED" ELSE "PARTIALLY_FILLED",
      remaining |-> left, total |-> filled + Volume(f)]

(* Orders with an update in the batch of the timer thread.                 *)
Executed(b) == {o \in DOMAIN b.exec : Volume(b.exec[o]) > 0}
Fills(b, o) == Capped(b.exec[o], Qty[o] - b.loaded[o])
Update(b, o) == OrderUpdate(o, b.loaded[o], b.exec[o])

Message(b) ==
  [id |-> b.id,
   fills |-> [o \in Executed(b) |-> Fills(b, o)],
   updates |-> [o \in Executed(b) |-> Update(b, o)]]
-----------------------------------------------------------------------------
(* ApplyBatchResult of order_flow, one critical section.  Of the fills of  *)
(* an order only the first is applied (the key is batch id and order id),  *)
(* then the order_update overwrites what it says.                          *)
FirstFill(f) == IF f.internal > 0 THEN f.internal ELSE f.external

ApplyFill(order, id, o, f) ==
  LET left == AtLeastZero(order.remaining - FirstFill(f)) IN
  IF <<id, o>> \in applied_fills \/ order.status = "CANCELED" THEN order
  ELSE [status |-> IF left = 0 THEN "FILLED" ELSE "PARTIALLY_FILLED", remaining |-> left]

(* Mutation: a fill has settled it, the update is not read.                *)
IgnoreUpdate(order, u) == order
(* Mutation: a cancelled order is overwritten too.                         *)
OverwriteCancelled(order, u) == [status |-> u.status, remaining |-> u.remaining]
ApplyUpdate(order, u) ==
  IF order.status = "CANCELED" THEN order
  ELSE [status |-> u.status, remaining |-> u.remaining]

ApplyBatchResult ==
  LET m == Head(outputs)
      known == {o \in DOMAIN m.fills : orders[o].status # "NONE"} IN
  /\ outputs # <<>>
  /\ handled' = TRUE
  /\ orders' = [o \in Orders |->
       IF o \in known
       THEN ApplyUpdate(ApplyFill(orders[o], m.id, o, m.fills[o]), m.updates[o])
       ELSE orders[o]]
  /\ applied_fills' = applied_fills \cup {<<m.id, o>> : o \in known}
  /\ UNCHANGED <<creating, cancelling, outages, matching, reservations, flow_orders,
                 events, outputs, published, faults>>

CommitBatch ==
  /\ handled
  /\ handled' = FALSE
  /\ outputs' = Tail(outputs)
  /\ UNCHANGED <<creating, cancelling, orders, applied_fills, outages, matching,
                 reservations, flow_orders, events, published, faults>>

(* A restart of order_flow: calls and memory are gone.                     *)
OrderFlowRestarts ==
  /\ Outage
  /\ creating' = [o \in Orders |->
       IF creating[o] \in {"none", "accepted", "refused"} THEN creating[o] ELSE "lost"]
  /\ cancelling' = [o \in Orders |->
       IF cancelling[o] \in {"none", "done"} THEN cancelling[o] ELSE "lost"]
  /\ orders' = [o \in Orders |-> Absent]
  /\ applied_fills' = {}
  /\ handled' = FALSE
  /\ UNCHANGED <<matching, reservations, flow_orders, events, outputs,
                 published, faults>>
-----------------------------------------------------------------------------
(* The consumer thread of matching: on_order_event, and the commit unless  *)
(* the event is delivered again.  The map active_ is not read by batches   *)
(* of this mode; its orders keep filled_cum 0, which index_terminal shows. *)
OnOrderEvent ==
  LET e == Head(events) IN
  /\ events # <<>>
  /\ events' \in {events, Tail(events)}
  /\ \/ /\ e.kind = "create"
        /\ order_index' = [order_index EXCEPT ![e.order] = [status |-> "pending", filled |-> 0]]
     \/ /\ e.kind = "cancel"
        /\ order_index' = [order_index EXCEPT ![e.order] =
             IF @ = NoRow THEN NoRow ELSE [status |-> "cancelled", filled |-> 0]]
  /\ UNCHANGED <<orderFlow, batch, reservations, flow_orders, outputs,
                 published, faults>>

(* The WHERE clause of LoadActiveFlowOrders.  order_flow writes no         *)
(* window_end: the row of a GTC order never leaves its window.             *)
Loadable(o) ==
  /\ flow_orders[o].status \in {"active", "partially_filled"}
  /\ flow_orders[o].filled < Qty[o]
  /\ o \notin IOC

(* run_one_batch of the timer thread.  An empty batch is not solved, only  *)
(* the index is refreshed.                                                 *)
LoadActiveFlowOrders ==
  LET loaded == {o \in Orders : Loadable(o)} IN
  /\ batch.pc = "idle"
  /\ batch.id < MaxBatches
  /\ batch' = [batch EXCEPT !.pc = IF loaded = {} THEN "index" ELSE "solve",
                            !.id = IF loaded = {} THEN @ ELSE @ + 1,
                            !.loaded = [o \in loaded |-> flow_orders[o].filled]]
  /\ UNCHANGED <<orderFlow, order_index, reservations, flow_orders,
                 events, outputs, published, faults>>

Fault == faults < MaxFaults /\ faults' = faults + 1

(* RunBatchUseCase::Execute up to the publish.  `out': the batch left in   *)
(* batch.outputs; `ok': every message of the topic fills was produced too, *)
(* and only then it counts as published.  A failed solver publishes        *)
(* nothing, as a failed produce does.                                      *)
Execute(exec, out, ok) ==
  LET b == [batch EXCEPT !.pc = "index", !.exec = exec, !.ok = ok] IN
  /\ batch.pc = "solve"
  /\ ok => out
  /\ (out /\ ~ok) => Executed(b) # {}
  /\ batch' = b
  /\ outputs' = IF out THEN Append(outputs, Message(b)) ELSE outputs
  /\ published' = [o \in Orders |-> published[o] +
       IF out /\ o \in Executed(b) THEN Volume(Fills(b, o)) ELSE 0]
  /\ IF ok THEN UNCHANGED faults ELSE Fault
  /\ UNCHANGED <<orderFlow, order_index, reservations, flow_orders, events>>

(* The active orders after Execute: the updates are applied and filled     *)
(* orders erased, unless the batch was not published.                      *)
After(b) ==
  LET left == {o \in DOMAIN b.loaded :
                 ~(b.ok /\ o \in Executed(b) /\ Update(b, o).status = "FILLED")}
  IN [o \in left |-> IF b.ok /\ o \in Executed(b) THEN Update(b, o).total ELSE b.loaded[o]]

Partial(filled) == [status |-> IF filled > 0 THEN "partial" ELSE "pending", filled |-> filled]

(* An indexed order that was not in the batch is filled only when its      *)
(* quantity says so.                                                       *)
Missing(o, snap) ==
  IF snap.status \in {"pending", "partial"} /\ snap.filled >= Qty[o]
  THEN [status |-> "filled", filled |-> Qty[o]] ELSE snap

(* An order_update on the index.                                           *)
Indexed(b, o, snap) ==
  IF o \notin Executed(b) THEN snap
  ELSE IF Update(b, o).status = "FILLED"
       THEN [status |-> "filled", filled |-> Update(b, o).total]
       ELSE [status |-> "partial", filled |-> Update(b, o).total]

(* order_index_ takes the updates of the batch, also of one that was not   *)
(* published, then what the active orders say.                             *)
RefreshIndex ==
  /\ batch.pc = "index"
  /\ order_index' = [o \in Orders |->
       IF order_index[o] = NoRow THEN NoRow
       ELSE IF o \in DOMAIN After(batch) THEN Partial(After(batch)[o])
       ELSE Missing(o, Indexed(batch, o, order_index[o]))]
  /\ batch' = IF batch.ok THEN [batch EXCEPT !.pc = "persist"]
                          ELSE [Idle EXCEPT !.id = batch.id]
  /\ UNCHANGED <<orderFlow, reservations, flow_orders, events,
                 outputs, published, faults>>

(* ComputeFilledVolumeUpdate: clamped to q_max.                            *)
FilledVolume(o, delta) ==
  LET q == Lower(flow_orders[o].filled + delta, Qty[o])
  IN [status |-> IF q >= Qty[o] THEN "filled" ELSE "partially_filled", filled |-> q]

(* One transaction for all orders; when it fails the batch stays published *)
(* and the rows stay behind.                                               *)
UpdateFilledVolumes ==
  /\ batch.pc = "persist"
  /\ batch' = [Idle EXCEPT !.id = batch.id]
  /\ \/ /\ flow_orders' = [o \in Orders |->
             IF o \in Executed(batch) /\ Volume(Fills(batch, o)) > 0
             THEN FilledVolume(o, Volume(Fills(batch, o))) ELSE flow_orders[o]]
        /\ UNCHANGED faults
     \/ /\ Fault
        /\ UNCHANGED flow_orders
  /\ UNCHANGED <<orderFlow, order_index, reservations, events,
                 outputs, published>>

(* A restart of matching: its memory is gone, also a batch under way.      *)
MatchingRestarts ==
  /\ Fault
  /\ batch' = [Idle EXCEPT !.id = batch.id]
  /\ order_index' = [o \in Orders |-> NoRow]
  /\ UNCHANGED <<orderFlow, reservations, flow_orders, events, outputs, published>>
-----------------------------------------------------------------------------
Executions == [internal : 0 .. MaxFill, external : 0 .. MaxFill]

OrderCall(o) ==
  \/ \E done, ok \in BOOLEAN : ReserveFunds(o, done, ok)
  \/ StoreOrder(o)
  \/ \E done, ok \in BOOLEAN : InsertFlowOrder(o, done, ok)
  \/ ReleaseFailed(o)
  \/ EraseFailed(o)
  \/ PublishCreate(o)
  \/ CancelFlowOrder(o)
  \/ PublishCancel(o)
  \/ ReleaseCancelled(o)

TimerThread ==
  \/ LoadActiveFlowOrders
  \/ \E exec \in [DOMAIN batch.loaded -> Executions], out, ok \in BOOLEAN :
       Execute(exec, out, ok)
  \/ RefreshIndex
  \/ UpdateFilledVolumes

NextFlow ==
  \/ \E o \in Orders : OrderCall(o)
  \/ ApplyBatchResult
  \/ CommitBatch
  \/ OrderFlowRestarts
  \/ OnOrderEvent
  \/ TimerThread
  \/ MatchingRestarts

FlowSpec == InitFlow /\ [][NextFlow]_flowVars
-----------------------------------------------------------------------------
CreateSteps == {"none", "store", "insert", "release", "erase", "publish",
                "accepted", "refused", "lost"}
CancelSteps == {"none", "publish", "release", "done", "lost"}

(* Types; no row is filled above its quantity, and no view of an order has *)
(* more or less left than an order can have.                               *)
FlowTypeOK ==
  /\ creating \in [Orders -> CreateSteps]
  /\ cancelling \in [Orders -> CancelSteps]
  /\ orders \in [Orders -> [status : {"NONE", "NEW", "PARTIALLY_FILLED", "FILLED", "CANCELED"},
                            remaining : Nat]]
  /\ \A o \in Orders : orders[o].remaining <= Qty[o]
  /\ applied_fills \subseteq (1 .. MaxBatches) \X Orders
  /\ handled \in BOOLEAN
  /\ handled => outputs # <<>>
  /\ reservations \in [Orders -> {"none", "open", "released"}]
  /\ flow_orders \in [Orders -> [status : {"none", "active", "partially_filled", "filled"},
                                 filled : Nat]]
  /\ \A o \in Orders : flow_orders[o].filled <= Qty[o]
  /\ order_index \in [Orders -> [status : {"none", "pending", "partial", "filled", "cancelled"},
                                 filled : Nat]]
  /\ batch.pc \in {"idle", "solve", "index", "persist"}
  /\ batch.id \in 0 .. MaxBatches
  /\ published \in [Orders -> Nat]
  /\ faults \in 0 .. MaxFaults
  /\ outages \in 0 .. MaxOutages

(* CapFillsAgainstRemaining keeps the fills of a batch within what is left *)
(* of the order.  What leaves in batch.outputs over all batches exceeds    *)
(* the order only when a published batch did not reach the row: once per   *)
(* failure at most the whole order again.                                  *)
OverfillBounded ==
  \A o \in Orders : published[o] <= Qty[o] * (1 + faults)

(* A refused order leaves nothing behind, even when it is cancelled while  *)
(* the failed insert is rolled back: no row, no reservation, no entry,     *)
(* unless the outcome of a call was lost.                                  *)
RefusedLeavesNothing ==
  outages = 0 => \A o \in Orders : creating[o] = "refused" =>
    /\ reservations[o] # "open"
    /\ flow_orders[o] = NoRow
    /\ orders[o] = Absent

(* The status of an order that is filled up to q.                          *)
StatusOf(o, q) ==
  CASE q = 0 -> "NEW" [] q = Qty[o] -> "FILLED" [] OTHER -> "PARTIALLY_FILLED"

(* The order as order_flow shows it, the row matching keeps and what was   *)
(* published agree when no batch is under way and nothing failed, though   *)
(* order_flow applies only the first of several fills of an order and may  *)
(* see a batch twice.                                                      *)
ViewsAgree ==
  (batch.pc = "idle" /\ outputs = <<>> /\ faults = 0 /\ outages = 0) =>
    \A o \in Orders : orders[o].status \notin {"NONE", "CANCELED"} =>
      LET q == flow_orders[o].filled IN
      /\ published[o] = q
      /\ orders[o] = [status |-> StatusOf(o, q), remaining |-> Qty[o] - q]

(* Comment of ApplyBatchResult: a batch never overwrites the cancellation  *)
(* of an order by its user.                                                *)
CancelIsFinal ==
  [][\A o \in Orders :
       orders[o].status = "CANCELED" => orders'[o].status \in {"CANCELED", "NONE"}]_flowVars

(* order_index_ calls an order filled only when its row is, and the filled *)
(* part of a partial order is the one of the row, whichever of the two     *)
(* threads of matching was first and though an order may miss a batch.     *)
IndexHonest ==
  (batch.pc = "idle" /\ faults = 0) =>
    \A o \in Orders :
      /\ order_index[o].status = "filled" => flow_orders[o].status = "filled"
      /\ order_index[o].status = "partial" => order_index[o].filled = flow_orders[o].filled

(* At rest and without failures the three views of an order agree, within  *)
(* the types of the system.                                                *)
ViewsHonest == FlowTypeOK /\ ViewsAgree /\ IndexHonest

(* Comment of CancelFlowOrder: the cancel is published "so matching can    *)
(* stop it".  No batch that starts after the call ended and matching       *)
(* handled its event loads the order.                                      *)
CancelStopsMatching ==
  [][(batch.pc = "idle" /\ batch'.pc = "solve") =>
       \A o \in DOMAIN batch'.loaded :
         ~(cancelling[o] = "done" /\ order_index[o].status = "cancelled")]_flowVars
=============================================================================

----------------------------- MODULE FlowProofs -----------------------------
(* Theorems about FlowOrders: types, how far the published volume of an    *)
(* order can exceed it, what a refused order leaves behind, that no batch  *)
(* overwrites a cancellation, and that the views of an order agree.        *)
EXTENDS FlowOrders, SequenceTheorems, TLAPS

FillPairs == [internal : Nat, external : Nat]
OrderStatuses == {"NEW", "PARTIALLY_FILLED", "FILLED", "CANCELED"}
Partially(S) == UNION {[D -> S] : D \in SUBSET Orders}

(* The messages of batch.outputs: what they leave of an order fits it.     *)
Messages ==
  {m \in [id : 1 .. MaxBatches,
          fills : Partially(FillPairs),
          updates : Partially([status : OrderStatuses, remaining : Nat, total : Nat])] :
     /\ DOMAIN m.updates = DOMAIN m.fills
     /\ \A o \in DOMAIN m.updates : m.updates[o].remaining <= Qty[o]}

Events == [kind : {"create", "cancel"}, order : Orders]

QueuesTyped ==
  /\ events \in Seq(Events)
  /\ outputs \in Seq(Messages)

(* A batch of the timer thread.                                            *)
Shaped(b) ==
  /\ DOMAIN b = {"pc", "id", "loaded", "exec", "ok"}
  /\ b.ok \in BOOLEAN
  /\ DOMAIN b.loaded \subseteq Orders
  /\ \A o \in DOMAIN b.loaded : b.loaded[o] \in 0 .. Qty[o]
  /\ DOMAIN b.exec \subseteq DOMAIN b.loaded
  /\ \A o \in DOMAIN b.exec : b.exec[o] \in FillPairs
  /\ b.pc = "solve" => b.id > 0
  /\ b.pc = "persist" => b.ok
  /\ b.pc = "idle" => DOMAIN b.exec = {} /\ ~b.ok

BatchTyped == Shaped(batch)

FlowTyped == FlowTypeOK /\ QueuesTyped /\ BatchTyped

(* What a call of CreateFlowOrder has not done yet.                        *)
CallsInOrder ==
  \A o \in Orders :
    /\ creating[o] \in {"none", "store", "insert"} => flow_orders[o] = NoRow
    /\ creating[o] \in {"none", "store"} => orders[o] = Absent
    /\ creating[o] = "none" => reservations[o] = "none"

(* The orders of a batch have rows, and nobody else fills them.            *)
LoadedCurrent ==
  \A o \in DOMAIN batch.loaded :
    /\ flow_orders[o].status # "none"
    /\ flow_orders[o].filled = batch.loaded[o]

(* The volume of the batch under way that the rows are going to take.      *)
Pending(o) ==
  IF batch.pc \in {"index", "persist"} /\ batch.ok /\ o \in Executed(batch)
  THEN Volume(Fills(batch, o)) ELSE 0

(* What was published is in the rows, under way or paid by a failure.      *)
VolumePaid ==
  \A o \in Orders :
    published[o] <= flow_orders[o].filled + Qty[o] * faults + Pending(o)

(* The rollback of a refused order, step by step.                          *)
RollbackInOrder ==
  outages = 0 => \A o \in Orders :
    /\ creating[o] \in {"release", "erase", "refused"} => flow_orders[o] = NoRow
    /\ creating[o] \in {"erase", "refused"} => reservations[o] # "open"
    /\ creating[o] = "refused" => orders[o] = Absent

FlowInv ==
  /\ FlowTyped
  /\ CallsInOrder
  /\ LoadedCurrent
  /\ VolumePaid
  /\ RollbackInOrder
-----------------------------------------------------------------------------
(* Of the fills of an order at most what is left of it is published.       *)
LEMMA CappedVolume ==
  ASSUME NEW f \in FillPairs, NEW r \in Nat
  PROVE  /\ Capped(f, r) \in FillPairs
         /\ Volume(Capped(f, r)) \in 0 .. r
         /\ FirstFill(f) \in Nat
BY DEF FillPairs, Capped, Volume, Lower, FirstFill

LEMMA UpdateTyped ==
  ASSUME NEW o \in Orders, NEW filled \in 0 .. Qty[o], NEW f \in FillPairs
  PROVE  /\ OrderUpdate(o, filled, f) \in [status : OrderStatuses, remaining : Nat, total : Nat]
         /\ OrderUpdate(o, filled, f).remaining <= Qty[o]
<1>1. Qty[o] \in Nat /\ filled \in Nat /\ Volume(f) \in Nat
  BY FlowAssumption DEF FillPairs, Volume
<1> QED
  BY <1>1 DEF OrderUpdate, AtLeastZero, OrderStatuses

(* The batch of the timer thread, order by order.                          *)
LEMMA BatchOrder ==
  ASSUME NEW b, Shaped(b), NEW o \in Executed(b)
  PROVE  /\ o \in Orders /\ o \in DOMAIN b.loaded
         /\ b.loaded[o] \in 0 .. Qty[o]
         /\ b.exec[o] \in FillPairs
         /\ Fills(b, o) \in FillPairs
         /\ Volume(Fills(b, o)) \in 0 .. (Qty[o] - b.loaded[o])
         /\ Update(b, o) \in [status : OrderStatuses, remaining : Nat, total : Nat]
         /\ Update(b, o).remaining <= Qty[o]
<1>1. o \in Orders /\ o \in DOMAIN b.loaded /\ b.exec[o] \in FillPairs
  BY DEF Shaped, Executed
<1>2. b.loaded[o] \in 0 .. Qty[o] /\ Qty[o] \in Nat
  BY <1>1, FlowAssumption DEF Shaped
<1>3. Qty[o] - b.loaded[o] \in Nat
  BY <1>2
<1>4. Fills(b, o) \in FillPairs /\ Volume(Fills(b, o)) \in 0 .. (Qty[o] - b.loaded[o])
  BY <1>1, <1>3, CappedVolume DEF Fills
<1>5. /\ Update(b, o) \in [status : OrderStatuses, remaining : Nat, total : Nat]
      /\ Update(b, o).remaining <= Qty[o]
  BY <1>1, <1>2, UpdateTyped DEF Update
<1> QED
  BY <1>1, <1>2, <1>4, <1>5

LEMMA MessageTyped ==
  ASSUME NEW b, Shaped(b), b.id \in 1 .. MaxBatches
  PROVE  Message(b) \in Messages
<1>1. Executed(b) \subseteq Orders
  BY DEF Shaped, Executed
<1>2. [o \in Executed(b) |-> Fills(b, o)] \in Partially(FillPairs)
  <2>1. [o \in Executed(b) |-> Fills(b, o)] \in [Executed(b) -> FillPairs]
    BY BatchOrder
  <2> QED
    BY <1>1, <2>1 DEF Partially
<1>3. [o \in Executed(b) |-> Update(b, o)]
        \in Partially([status : OrderStatuses, remaining : Nat, total : Nat])
  <2>1. [o \in Executed(b) |-> Update(b, o)]
          \in [Executed(b) -> [status : OrderStatuses, remaining : Nat, total : Nat]]
    BY BatchOrder
  <2> QED
    BY <1>1, <2>1 DEF Partially
<1>4. \A o \in Executed(b) : Update(b, o).remaining <= Qty[o]
  BY BatchOrder
<1> QED
  BY <1>2, <1>3, <1>4 DEF Message, Messages

LEMMA FaultSteps ==
  ASSUME FlowTypeOK, NEW o \in Orders
  PROVE  /\ Qty[o] \in Nat \ {0} /\ faults \in Nat /\ Qty[o] * faults \in Nat
         /\ Qty[o] * (faults + 1) = Qty[o] * faults + Qty[o]
         /\ Qty[o] * (1 + faults) = Qty[o] * faults + Qty[o]
<1>1. Qty[o] \in Nat \ {0} /\ faults \in Nat
  BY FlowAssumption DEF FlowTypeOK
<1>2. \A a, b \in Nat : a * b \in Nat /\ a * (b + 1) = a * b + a /\ a * (1 + b) = a * b + a
  OBVIOUS
<1> QED
  BY <1>1, <1>2
-----------------------------------------------------------------------------
LEMMA SeqSteps ==
  ASSUME NEW S, NEW s \in Seq(S)
  PROVE  /\ \A e \in S : Append(s, e) \in Seq(S) /\ Append(s, e) # <<>>
         /\ s # <<>> => Head(s) \in S /\ Tail(s) \in Seq(S)
BY AppendProperties, HeadTailProperties

(* Steps that leave the batch alone may only add rows.                     *)
LEMMA BatchKept ==
  ASSUME FlowInv, UNCHANGED <<batch, published, faults>>,
         \A o \in Orders : \/ flow_orders'[o] = flow_orders[o]
                           \/ flow_orders[o] = NoRow /\ flow_orders'[o].filled = 0
  PROVE  BatchTyped' /\ LoadedCurrent' /\ VolumePaid'
<1>1. BatchTyped'
  BY DEF FlowInv, FlowTyped, BatchTyped, Shaped
<1>2. LoadedCurrent'
  BY DEF FlowInv, FlowTyped, BatchTyped, Shaped, LoadedCurrent, NoRow
<1>3. \A o \in Orders : Pending(o)' = Pending(o)
  BY DEF Pending, Executed, Fills
<1>4. VolumePaid'
  BY <1>3 DEF FlowInv, VolumePaid, NoRow
<1> QED
  BY <1>1, <1>2, <1>4

LEMMA OutageTyped ==
  ASSUME FlowTypeOK, Outage
  PROVE  outages' \in 0 .. MaxOutages /\ outages' # 0
BY FlowAssumption DEF FlowTypeOK, Outage

LEMMA FlowInit == InitFlow => FlowInv
<1> SUFFICES ASSUME InitFlow PROVE FlowInv
  OBVIOUS
<1>0. \A o \in Orders : Qty[o] \in Nat
  BY FlowAssumption
<1>1. FlowTypeOK
  <2>1. /\ orders \in [Orders -> [status : OrderStatuses \cup {"NONE"}, remaining : Nat]]
        /\ \A o \in Orders : orders[o].remaining <= Qty[o]
    BY <1>0 DEF InitFlow, Absent, OrderStatuses
  <2>2. /\ flow_orders \in [Orders -> [status : {"none", "active", "partially_filled", "filled"},
                                       filled : Nat]]
        /\ \A o \in Orders : flow_orders[o].filled <= Qty[o]
        /\ order_index \in [Orders -> [status : {"none", "pending", "partial", "filled", "cancelled"},
                                       filled : Nat]]
    BY <1>0 DEF InitFlow, NoRow
  <2>3. batch.pc = "idle" /\ batch.id = 0
    BY DEF InitFlow, Idle
  <2>4. /\ creating \in [Orders -> CreateSteps] /\ cancelling \in [Orders -> CancelSteps]
        /\ reservations \in [Orders -> {"none", "open", "released"}]
        /\ published \in [Orders -> Nat]
    BY DEF InitFlow, CreateSteps, CancelSteps
  <2>5. 0 \in 0 .. MaxBatches /\ 0 \in 0 .. MaxFaults /\ 0 \in 0 .. MaxOutages
    BY FlowAssumption
  <2>6. /\ applied_fills = {} /\ handled = FALSE
        /\ faults = 0 /\ outages = 0
    BY DEF InitFlow
  <2> QED
    BY <2>1, <2>2, <2>3, <2>4, <2>5, <2>6 DEF FlowTypeOK, OrderStatuses
<1>2. QueuesTyped
  BY DEF InitFlow, QueuesTyped
<1>3. DOMAIN batch.loaded = {} /\ DOMAIN batch.exec = {}
  BY DEF InitFlow, Idle
<1>4. BatchTyped
  BY <1>3 DEF InitFlow, BatchTyped, Shaped, Idle
<1>5. CallsInOrder /\ RollbackInOrder /\ LoadedCurrent
  BY <1>3 DEF InitFlow, CallsInOrder, RollbackInOrder, LoadedCurrent
<1>6. \A o \in Orders : Pending(o) = 0
  BY DEF InitFlow, Pending, Idle
<1>7. \A o \in Orders : Qty[o] * faults \in Nat
  BY <1>1, FaultSteps
<1>8. VolumePaid
  <2> SUFFICES ASSUME NEW o \in Orders
               PROVE  published[o] <= flow_orders[o].filled + Qty[o] * faults + Pending(o)
    BY DEF VolumePaid
  <2>1. published[o] = 0 /\ flow_orders[o].filled = 0
    BY DEF InitFlow, NoRow
  <2>2. \A x \in Nat : 0 <= 0 + x + 0
    OBVIOUS
  <2> QED
    BY <1>6, <1>7, <2>1, <2>2
<1> QED
  BY <1>1, <1>2, <1>4, <1>5, <1>8 DEF FlowInv, FlowTyped

-----------------------------------------------------------------------------
(* The calls of order_flow.                                                *)
LEMMA OrderCallInv ==
  ASSUME FlowInv, NEW o \in Orders, OrderCall(o)
  PROVE  FlowInv'
<1> USE DEF orderFlow, matching
<1>a. FlowTypeOK /\ QueuesTyped /\ CallsInOrder /\ RollbackInOrder
  BY DEF FlowInv, FlowTyped
<1>b. outages \in 0 .. MaxOutages /\ Qty[o] \in Nat
  BY <1>a, FlowAssumption DEF FlowTypeOK
<1>1. ASSUME NEW done \in BOOLEAN, NEW ok \in BOOLEAN, ReserveFunds(o, done, ok)
      PROVE  FlowInv'
  <2>1. outages' \in 0 .. MaxOutages /\ (outages' = 0 => outages = 0 /\ done = ok)
    BY <1>1, <1>a, <1>b, OutageTyped DEF ReserveFunds, Outcome
  <2>2. FlowTypeOK'
    BY <1>1, <1>a, <2>1 DEF ReserveFunds, FlowTypeOK, CreateSteps
  <2>3. QueuesTyped'
    BY <1>1, <1>a DEF ReserveFunds, QueuesTyped
  <2>4. CallsInOrder'
    BY <1>1, <1>a DEF ReserveFunds, CallsInOrder, FlowTypeOK
  <2>5. RollbackInOrder'
    BY <1>1, <1>a, <2>1 DEF ReserveFunds, RollbackInOrder, CallsInOrder, FlowTypeOK
  <2>6. BatchTyped' /\ LoadedCurrent' /\ VolumePaid'
    BY <1>1, BatchKept DEF ReserveFunds
  <2> QED
    BY <2>2, <2>3, <2>4, <2>5, <2>6 DEF FlowInv, FlowTyped
<1>2. CASE StoreOrder(o)
  <2>2. FlowTypeOK'
    BY <1>2, <1>a, <1>b DEF StoreOrder, FlowTypeOK, CreateSteps
  <2>3. QueuesTyped'
    BY <1>2, <1>a DEF StoreOrder, QueuesTyped
  <2>4. CallsInOrder'
    BY <1>2, <1>a DEF StoreOrder, CallsInOrder, FlowTypeOK
  <2>5. RollbackInOrder'
    BY <1>2, <1>a DEF StoreOrder, RollbackInOrder, FlowTypeOK
  <2>6. BatchTyped' /\ LoadedCurrent' /\ VolumePaid'
    BY <1>2, BatchKept DEF StoreOrder
  <2> QED
    BY <2>2, <2>3, <2>4, <2>5, <2>6 DEF FlowInv, FlowTyped
<1>3. ASSUME NEW done \in BOOLEAN, NEW ok \in BOOLEAN, InsertFlowOrder(o, done, ok)
      PROVE  FlowInv'
  <2>1. outages' \in 0 .. MaxOutages /\ (outages' = 0 => outages = 0 /\ done = ok)
    BY <1>3, <1>a, <1>b, OutageTyped DEF InsertFlowOrder, Outcome
  <2>2. FlowTypeOK'
    BY <1>3, <1>a, <1>b, <2>1 DEF InsertFlowOrder, FlowTypeOK, CreateSteps
  <2>3. QueuesTyped'
    BY <1>3, <1>a DEF InsertFlowOrder, QueuesTyped
  <2>4. CallsInOrder'
    BY <1>3, <1>a DEF InsertFlowOrder, CallsInOrder, FlowTypeOK
  <2>5. RollbackInOrder'
    BY <1>3, <1>a, <2>1 DEF InsertFlowOrder, RollbackInOrder, CallsInOrder, FlowTypeOK
  <2>6. \A p \in Orders : \/ flow_orders'[p] = flow_orders[p]
                          \/ flow_orders[p] = NoRow /\ flow_orders'[p].filled = 0
    BY <1>3, <1>a DEF InsertFlowOrder, CallsInOrder, FlowTypeOK
  <2>7. BatchTyped' /\ LoadedCurrent' /\ VolumePaid'
    BY <1>3, <2>6, BatchKept DEF InsertFlowOrder
  <2> QED
    BY <2>2, <2>3, <2>4, <2>5, <2>7 DEF FlowInv, FlowTyped
<1>4. CASE ReleaseFailed(o)
  <2>1. /\ outages' \in 0 .. MaxOutages /\ (outages' = 0 => outages = 0)
        /\ reservations' \in [Orders -> {"none", "open", "released"}]
        /\ \A p \in Orders : reservations[p] # "open" => reservations'[p] = reservations[p]
        /\ outages' = 0 => reservations'[o] # "open"
    BY <1>4, <1>a, <1>b, OutageTyped DEF ReleaseFailed, ReleaseFunds, Released, FlowTypeOK
  <2>2. FlowTypeOK'
    BY <1>4, <1>a, <2>1 DEF ReleaseFailed, FlowTypeOK, CreateSteps
  <2>3. QueuesTyped'
    BY <1>4, <1>a DEF ReleaseFailed, QueuesTyped
  <2>4. CallsInOrder'
    BY <1>4, <1>a, <2>1 DEF ReleaseFailed, CallsInOrder, FlowTypeOK
  <2>5. RollbackInOrder'
    BY <1>4, <1>a, <2>1 DEF ReleaseFailed, RollbackInOrder, FlowTypeOK
  <2>6. BatchTyped' /\ LoadedCurrent' /\ VolumePaid'
    BY <1>4, BatchKept DEF ReleaseFailed
  <2> QED
    BY <2>2, <2>3, <2>4, <2>5, <2>6 DEF FlowInv, FlowTyped
<1>5. CASE EraseFailed(o)
  <2>1. /\ orders' \in [Orders -> [status : OrderStatuses \cup {"NONE"}, remaining : Nat]]
        /\ \A p \in Orders : orders'[p].remaining <= Qty[p]
    BY <1>5, <1>a, <1>b DEF EraseFailed, FlowTypeOK, OrderStatuses, Absent
  <2>2. FlowTypeOK'
    BY <1>5, <1>a, <2>1 DEF EraseFailed, FlowTypeOK, CreateSteps, OrderStatuses
  <2>3. QueuesTyped'
    BY <1>5, <1>a DEF EraseFailed, QueuesTyped
  <2>4. CallsInOrder'
    BY <1>5, <1>a DEF EraseFailed, CallsInOrder, FlowTypeOK
  <2>5. RollbackInOrder'
    BY <1>5, <1>a DEF EraseFailed, RollbackInOrder, FlowTypeOK
  <2>6. BatchTyped' /\ LoadedCurrent' /\ VolumePaid'
    BY <1>5, BatchKept DEF EraseFailed
  <2> QED
    BY <2>2, <2>3, <2>4, <2>5, <2>6 DEF FlowInv, FlowTyped
<1>6. CASE PublishCreate(o)
  <2>2. FlowTypeOK'
    BY <1>6, <1>a DEF PublishCreate, FlowTypeOK, CreateSteps
  <2>1. Append(events, [kind |-> "create", order |-> o]) \in Seq(Events)
    BY <1>a, SeqSteps DEF QueuesTyped, Events
  <2>3. QueuesTyped'
    BY <1>6, <1>a, <2>1 DEF PublishCreate, QueuesTyped, Send
  <2>4. CallsInOrder'
    BY <1>6, <1>a DEF PublishCreate, CallsInOrder, FlowTypeOK
  <2>5. RollbackInOrder'
    BY <1>6, <1>a DEF PublishCreate, RollbackInOrder, FlowTypeOK
  <2>6. BatchTyped' /\ LoadedCurrent' /\ VolumePaid'
    BY <1>6, BatchKept DEF PublishCreate
  <2> QED
    BY <2>2, <2>3, <2>4, <2>5, <2>6 DEF FlowInv, FlowTyped
<1>7. CASE CancelFlowOrder(o)
  <2>2. FlowTypeOK'
    BY <1>7, <1>a, SMTT(30) DEF CancelFlowOrder, FlowTypeOK, CancelSteps
  <2>3. QueuesTyped'
    BY <1>7, <1>a DEF CancelFlowOrder, QueuesTyped
  <2>4. CallsInOrder'
    BY <1>7, <1>a DEF CancelFlowOrder, CallsInOrder, FlowTypeOK, Absent
  <2>5. RollbackInOrder'
    BY <1>7, <1>a DEF CancelFlowOrder, RollbackInOrder, FlowTypeOK, Absent
  <2>6. BatchTyped' /\ LoadedCurrent' /\ VolumePaid'
    BY <1>7, BatchKept DEF CancelFlowOrder
  <2> QED
    BY <2>2, <2>3, <2>4, <2>5, <2>6 DEF FlowInv, FlowTyped
<1>8. CASE PublishCancel(o)
  <2>2. FlowTypeOK'
    BY <1>8, <1>a DEF PublishCancel, FlowTypeOK, CancelSteps
  <2>1. Append(events, [kind |-> "cancel", order |-> o]) \in Seq(Events)
    BY <1>a, SeqSteps DEF QueuesTyped, Events
  <2>3. QueuesTyped'
    BY <1>8, <1>a, <2>1 DEF PublishCancel, QueuesTyped, Send
  <2>4. CallsInOrder' /\ RollbackInOrder'
    BY <1>8, <1>a DEF PublishCancel, CallsInOrder, RollbackInOrder
  <2>6. BatchTyped' /\ LoadedCurrent' /\ VolumePaid'
    BY <1>8, BatchKept DEF PublishCancel
  <2> QED
    BY <2>2, <2>3, <2>4, <2>6 DEF FlowInv, FlowTyped
<1>9. CASE ReleaseCancelled(o)
  <2>1. /\ outages' \in 0 .. MaxOutages /\ (outages' = 0 => outages = 0)
        /\ reservations' \in [Orders -> {"none", "open", "released"}]
        /\ \A p \in Orders : reservations[p] # "open" => reservations'[p] = reservations[p]
    BY <1>9, <1>a, <1>b, OutageTyped DEF ReleaseCancelled, ReleaseFunds, Released, FlowTypeOK
  <2>2. FlowTypeOK'
    BY <1>9, <1>a, <2>1 DEF ReleaseCancelled, FlowTypeOK, CancelSteps
  <2>3. QueuesTyped'
    BY <1>9, <1>a DEF ReleaseCancelled, QueuesTyped
  <2>4. CallsInOrder' /\ RollbackInOrder'
    BY <1>9, <1>a, <2>1 DEF ReleaseCancelled, CallsInOrder, RollbackInOrder, FlowTypeOK
  <2>6. BatchTyped' /\ LoadedCurrent' /\ VolumePaid'
    BY <1>9, BatchKept DEF ReleaseCancelled
  <2> QED
    BY <2>2, <2>3, <2>4, <2>6 DEF FlowInv, FlowTyped
<1> QED
  BY <1>1, <1>2, <1>3, <1>4, <1>5, <1>6, <1>7, <1>8, <1>9 DEF OrderCall

(* What a message makes of an order that order_flow knows.                 *)
LEMMA AppliedOrder ==
  ASSUME FlowTypeOK, NEW m \in Messages, NEW o \in DOMAIN m.fills
  PROVE  LET new == ApplyUpdate(ApplyFill(orders[o], m.id, o, m.fills[o]), m.updates[o])
         IN /\ o \in Orders
            /\ new \in [status : OrderStatuses \cup {"NONE"}, remaining : Nat]
            /\ new.remaining <= Qty[o]
            /\ orders[o].status = "CANCELED" => new = orders[o]
<1>1. o \in Orders /\ m.fills[o] \in FillPairs
  BY DEF Messages, Partially
<1>2. /\ m.updates[o] \in [status : OrderStatuses, remaining : Nat, total : Nat]
      /\ m.updates[o].remaining <= Qty[o]
  BY DEF Messages, Partially
<1>3. /\ orders[o] \in [status : OrderStatuses \cup {"NONE"}, remaining : Nat]
      /\ orders[o].remaining <= Qty[o] /\ Qty[o] \in Nat
  BY <1>1, FlowAssumption DEF FlowTypeOK, OrderStatuses
<1>4. FirstFill(m.fills[o]) \in Nat
  BY <1>1 DEF FirstFill, FillPairs
<1> DEFINE mid == ApplyFill(orders[o], m.id, o, m.fills[o])
<1>5. /\ mid \in [status : OrderStatuses \cup {"NONE"}, remaining : Nat]
      /\ mid.remaining <= Qty[o]
      /\ orders[o].status = "CANCELED" => mid = orders[o]
  BY <1>3, <1>4 DEF ApplyFill, AtLeastZero, OrderStatuses
<1> HIDE DEF mid
<1>6. LET new == ApplyUpdate(mid, m.updates[o])
      IN /\ new \in [status : OrderStatuses \cup {"NONE"}, remaining : Nat]
         /\ new.remaining <= Qty[o]
         /\ orders[o].status = "CANCELED" => new = orders[o]
  BY <1>2, <1>3, <1>5 DEF ApplyUpdate
<1> QED
  BY <1>1, <1>6 DEF mid

LEMMA ApplyBatchResultInv ==
  ASSUME FlowInv, ApplyBatchResult
  PROVE  FlowInv'
<1> USE DEF matching
<1>a. FlowTypeOK /\ QueuesTyped /\ CallsInOrder /\ RollbackInOrder
  BY DEF FlowInv, FlowTyped
<1> DEFINE m == Head(outputs)
           known == {o \in DOMAIN m.fills : orders[o].status # "NONE"}
<1>1. m \in Messages
  BY <1>a, SeqSteps DEF ApplyBatchResult, QueuesTyped
<1>2. /\ orders' = [o \in Orders |->
           IF o \in known
           THEN ApplyUpdate(ApplyFill(orders[o], m.id, o, m.fills[o]), m.updates[o])
           ELSE orders[o]]
      /\ applied_fills' = applied_fills \cup {<<m.id, o>> : o \in known}
      /\ handled' = TRUE
      /\ outputs # <<>>
  BY DEF ApplyBatchResult
<1> HIDE DEF m
<1>3. /\ orders' \in [Orders -> [status : OrderStatuses \cup {"NONE"}, remaining : Nat]]
      /\ \A o \in Orders : orders'[o].remaining <= Qty[o]
  <2> SUFFICES ASSUME NEW o \in Orders
               PROVE  /\ orders'[o] \in [status : OrderStatuses \cup {"NONE"}, remaining : Nat]
                      /\ orders'[o].remaining <= Qty[o]
    BY <1>2
  <2>1. CASE o \in known
    BY <1>1, <1>2, <1>a, <2>1, AppliedOrder
  <2>2. CASE o \notin known
    BY <1>2, <1>a, <2>2 DEF FlowTypeOK, OrderStatuses
  <2> QED
    BY <2>1, <2>2
<1>4. applied_fills' \subseteq (1 .. MaxBatches) \X Orders
  <2>1. m.id \in 1 .. MaxBatches /\ known \subseteq Orders
    BY <1>1, <1>a, AppliedOrder DEF Messages
  <2> QED
    BY <1>2, <1>a, <2>1 DEF FlowTypeOK
<1>5. \A o \in Orders : orders[o] = Absent => orders'[o] = orders[o]
  BY <1>2 DEF Absent
<1>6. FlowTypeOK'
  BY <1>2, <1>3, <1>4, <1>a DEF ApplyBatchResult, FlowTypeOK, OrderStatuses
<1>7. QueuesTyped'
  BY <1>a DEF ApplyBatchResult, QueuesTyped
<1>8. CallsInOrder' /\ RollbackInOrder'
  BY <1>5, <1>a DEF ApplyBatchResult, CallsInOrder, RollbackInOrder
<1>9. BatchTyped' /\ LoadedCurrent' /\ VolumePaid'
  BY BatchKept DEF ApplyBatchResult
<1> QED
  BY <1>6, <1>7, <1>8, <1>9 DEF FlowInv, FlowTyped

LEMMA CommitBatchInv ==
  ASSUME FlowInv, CommitBatch
  PROVE  FlowInv'
<1> USE DEF matching
<1>1. QueuesTyped'
  BY SeqSteps DEF FlowInv, FlowTyped, FlowTypeOK, CommitBatch, QueuesTyped
<1>2. FlowTypeOK'
  BY DEF FlowInv, FlowTyped, CommitBatch, FlowTypeOK
<1>3. CallsInOrder' /\ RollbackInOrder'
  BY DEF FlowInv, CommitBatch, CallsInOrder, RollbackInOrder
<1>4. BatchTyped' /\ LoadedCurrent' /\ VolumePaid'
  BY BatchKept DEF CommitBatch
<1> QED
  BY <1>1, <1>2, <1>3, <1>4 DEF FlowInv, FlowTyped

LEMMA OrderFlowRestartsInv ==
  ASSUME FlowInv, OrderFlowRestarts
  PROVE  FlowInv'
<1> USE DEF matching
<1>a. FlowTypeOK /\ QueuesTyped /\ CallsInOrder
  BY DEF FlowInv, FlowTyped
<1>1. outages' \in 0 .. MaxOutages /\ outages' # 0
  BY <1>a, OutageTyped DEF OrderFlowRestarts
<1>2. /\ orders' \in [Orders -> [status : OrderStatuses \cup {"NONE"}, remaining : Nat]]
      /\ \A o \in Orders : orders'[o].remaining <= Qty[o]
  <2>1. \A o \in Orders : Qty[o] \in Nat
    BY FlowAssumption
  <2> QED
    BY <2>1 DEF OrderFlowRestarts, Absent, OrderStatuses
<1>3. creating' \in [Orders -> CreateSteps] /\ cancelling' \in [Orders -> CancelSteps]
  BY <1>a DEF OrderFlowRestarts, FlowTypeOK, CreateSteps, CancelSteps
<1>4. FlowTypeOK'
  BY <1>1, <1>2, <1>3, <1>a DEF OrderFlowRestarts, FlowTypeOK, OrderStatuses
<1>5. QueuesTyped'
  BY <1>a DEF OrderFlowRestarts, QueuesTyped
<1>6. CallsInOrder' /\ RollbackInOrder'
  BY <1>1, <1>a DEF OrderFlowRestarts, CallsInOrder, RollbackInOrder
<1>7. BatchTyped' /\ LoadedCurrent' /\ VolumePaid'
  BY BatchKept DEF OrderFlowRestarts
<1> QED
  BY <1>4, <1>5, <1>6, <1>7 DEF FlowInv, FlowTyped

LEMMA OnOrderEventInv ==
  ASSUME FlowInv, OnOrderEvent
  PROVE  FlowInv'
<1> USE DEF orderFlow
<1>a. FlowTypeOK /\ QueuesTyped /\ CallsInOrder /\ RollbackInOrder
  BY DEF FlowInv, FlowTyped
<1>1. Head(events) \in Events /\ Tail(events) \in Seq(Events)
  BY <1>a, SeqSteps DEF OnOrderEvent, QueuesTyped
<1>2. order_index' \in [Orders -> [status : {"none", "pending", "partial", "filled", "cancelled"},
                                   filled : Nat]]
  <2> DEFINE Snapshots == [status : {"none", "pending", "partial", "filled", "cancelled"},
                           filled : Nat]
  <2>1. NoRow \in Snapshots
    BY DEF NoRow
  <2>2. \E e \in Orders, v \in Snapshots : order_index' = [order_index EXCEPT ![e] = v]
    BY <1>1, <2>1 DEF OnOrderEvent, Events
  <2>3. order_index \in [Orders -> Snapshots]
    BY <1>a DEF FlowTypeOK
  <2> HIDE DEF Snapshots
  <2>4. order_index' \in [Orders -> Snapshots]
    BY <2>2, <2>3
  <2> QED
    BY <2>4 DEF Snapshots
<1>3. FlowTypeOK'
  BY <1>2, <1>a DEF OnOrderEvent, FlowTypeOK
<1>4. QueuesTyped'
  BY <1>1, <1>a DEF OnOrderEvent, QueuesTyped
<1>5. CallsInOrder' /\ RollbackInOrder'
  BY <1>a DEF OnOrderEvent, CallsInOrder, RollbackInOrder
<1>6. BatchTyped' /\ LoadedCurrent' /\ VolumePaid'
  BY BatchKept DEF OnOrderEvent
<1> QED
  BY <1>3, <1>4, <1>5, <1>6 DEF FlowInv, FlowTyped

-----------------------------------------------------------------------------
(* The timer thread of matching.                                           *)
LEMMA LoadActiveFlowOrdersInv ==
  ASSUME FlowInv, LoadActiveFlowOrders
  PROVE  FlowInv'
<1> USE DEF orderFlow
<1>a. FlowTypeOK /\ QueuesTyped /\ BatchTyped /\ CallsInOrder /\ RollbackInOrder /\ VolumePaid
  BY DEF FlowInv, FlowTyped
<1> DEFINE loaded == {o \in Orders : Loadable(o)}
<1>1. /\ DOMAIN batch' = {"pc", "id", "loaded", "exec", "ok"}
      /\ batch'.pc = (IF loaded = {} THEN "index" ELSE "solve")
      /\ batch'.id = (IF loaded = {} THEN batch.id ELSE batch.id + 1)
      /\ batch'.loaded = [o \in loaded |-> flow_orders[o].filled]
      /\ batch'.exec = batch.exec /\ batch'.ok = batch.ok
      /\ batch.id < MaxBatches
  BY <1>a DEF LoadActiveFlowOrders, BatchTyped, Shaped
<1>2. \A o \in loaded : /\ o \in Orders /\ flow_orders[o].status # "none"
                        /\ flow_orders[o].filled \in 0 .. Qty[o]
  <2>1. \A o \in Orders : /\ flow_orders[o].filled \in Nat /\ Qty[o] \in Nat
                          /\ flow_orders[o].filled <= Qty[o]
    BY <1>a, FlowAssumption DEF FlowTypeOK
  <2>2. \A o \in Orders : Loadable(o) => flow_orders[o].status # "none"
    BY DEF Loadable
  <2>3. \A x, y \in Nat : x <= y => x \in 0 .. y
    OBVIOUS
  <2> QED
    BY <2>1, <2>2, <2>3
<1>b. batch.pc = "idle"
  BY DEF LoadActiveFlowOrders
<1>c. DOMAIN batch.exec = {} /\ ~batch.ok
  BY <1>b DEF FlowInv, FlowTyped, BatchTyped, Shaped
<1>3. BatchTyped'
  BY <1>1, <1>2, <1>c, <1>a DEF BatchTyped, Shaped, FlowTypeOK
<1>4. LoadedCurrent'
  BY <1>1, <1>2 DEF LoadActiveFlowOrders, LoadedCurrent
<1>5. \A o \in Orders : Pending(o)' = 0 /\ Pending(o) = 0
  BY <1>1, <1>b, <1>c DEF Pending, LoadActiveFlowOrders
<1>6. VolumePaid'
  BY <1>5, <1>a DEF VolumePaid, LoadActiveFlowOrders
<1>7. FlowTypeOK'
  BY <1>1, <1>a, FlowAssumption, SMTT(30) DEF LoadActiveFlowOrders, FlowTypeOK
<1>8. QueuesTyped' /\ CallsInOrder' /\ RollbackInOrder'
  BY <1>a DEF LoadActiveFlowOrders, QueuesTyped, CallsInOrder, RollbackInOrder
<1> QED
  BY <1>3, <1>4, <1>6, <1>7, <1>8 DEF FlowInv, FlowTyped

LEMMA ExecuteInv ==
  ASSUME FlowInv, NEW exec \in [DOMAIN batch.loaded -> Executions],
         NEW out \in BOOLEAN, NEW ok \in BOOLEAN, Execute(exec, out, ok)
  PROVE  FlowInv'
<1> USE DEF orderFlow
<1>a. FlowTypeOK /\ QueuesTyped /\ BatchTyped /\ CallsInOrder /\ RollbackInOrder
      /\ LoadedCurrent /\ VolumePaid
  BY DEF FlowInv, FlowTyped
<1> DEFINE b == [batch EXCEPT !.pc = "index", !.exec = exec, !.ok = ok]
<1>1. /\ batch' = b
      /\ DOMAIN batch' = {"pc", "id", "loaded", "exec", "ok"}
      /\ batch'.pc = "index" /\ batch'.exec = exec /\ batch'.ok = ok
      /\ batch'.id = batch.id /\ batch'.loaded = batch.loaded
      /\ batch.id \in 1 .. MaxBatches /\ batch.pc = "solve"
  BY <1>a DEF Execute, BatchTyped, Shaped, FlowTypeOK
<1>2. \A o \in DOMAIN exec : exec[o] \in FillPairs
  <2>1. \A x \in Executions : x \in FillPairs
    BY FlowAssumption DEF Executions, FillPairs
  <2> QED
    BY <2>1
<1>3. BatchTyped'
  BY <1>1, <1>2, <1>a DEF BatchTyped, Shaped
<1>4. LoadedCurrent'
  BY <1>1, <1>a DEF LoadedCurrent, Execute
<1>5. Message(b) \in Messages
  BY <1>1, <1>3, MessageTyped DEF BatchTyped
<1>6. outputs' \in Seq(Messages) /\ (outputs # <<>> => outputs' # <<>>)
  BY <1>5, <1>a, SeqSteps DEF Execute, QueuesTyped
<1>8. faults' \in 0 .. MaxFaults /\ faults' \in Nat
      /\ faults' = (IF ok THEN faults ELSE faults + 1)
  BY <1>a, FlowAssumption DEF Execute, Fault, FlowTypeOK
<1> HIDE DEF b
<1>7. \A o \in Executed(b) : /\ o \in Orders /\ o \in DOMAIN batch.loaded
                             /\ Volume(Fills(b, o)) \in 0 .. (Qty[o] - batch.loaded[o])
  BY <1>1, <1>3, BatchOrder DEF BatchTyped
<1>9. published' = [o \in Orders |-> published[o] +
        IF out /\ o \in Executed(b) THEN Volume(Fills(b, o)) ELSE 0]
  BY DEF Execute, b
<1>10. published' \in [Orders -> Nat]
  <2> SUFFICES ASSUME NEW o \in Orders PROVE published'[o] \in Nat
    BY <1>9
  <2>1. published[o] \in Nat /\ Qty[o] \in Nat
    BY <1>a, FlowAssumption DEF FlowTypeOK
  <2> QED
    BY <1>7, <1>9, <2>1
<1>11. VolumePaid'
  <2> SUFFICES ASSUME NEW o \in Orders
               PROVE  published'[o] <= flow_orders'[o].filled + Qty[o] * faults' + Pending(o)'
    BY DEF VolumePaid
  <2>1. /\ published[o] \in Nat /\ flow_orders[o].filled \in Nat /\ Qty[o] \in Nat
        /\ flow_orders'[o].filled = flow_orders[o].filled
    BY <1>a, FlowAssumption DEF FlowTypeOK, Execute
  <2>2. published[o] <= flow_orders[o].filled + Qty[o] * faults
    BY <1>1, <1>a, <2>1, FaultSteps DEF VolumePaid, Pending
  <2>3. CASE out /\ o \in Executed(b)
    <3>1. /\ flow_orders[o].filled = batch.loaded[o]
          /\ published'[o] = published[o] + Volume(Fills(b, o))
          /\ Volume(Fills(b, o)) \in Nat /\ Volume(Fills(b, o)) <= Qty[o]
      BY <1>7, <1>9, <1>a, <2>1, <2>3 DEF LoadedCurrent
    <3>2. CASE ok
      <4>1. Pending(o)' = Volume(Fills(b, o)) /\ faults' = faults
        BY <1>1, <1>8, <2>3, <3>2 DEF Pending
      <4> QED
        BY <2>1, <2>2, <3>1, <4>1, <1>a, FaultSteps
    <3>3. CASE ~ok
      <4>1. Pending(o)' = 0 /\ faults' = faults + 1
        BY <1>1, <1>8, <3>3 DEF Pending
      <4> QED
        BY <2>1, <2>2, <3>1, <4>1, <1>a, FaultSteps
    <3> QED
      BY <3>2, <3>3
  <2>4. CASE ~(out /\ o \in Executed(b))
    <3>1. published'[o] = published[o]
      BY <1>9, <2>1, <2>4
    <3>2. Pending(o)' = 0
      BY <1>1, <2>4 DEF Pending, Execute
    <3>3. faults' = faults \/ faults' = faults + 1
      BY <1>8
    <3> QED
      BY <2>1, <2>2, <3>1, <3>2, <3>3, <1>a, FaultSteps
  <2> QED
    BY <2>3, <2>4
<1>12. FlowTypeOK'
  BY <1>1, <1>6, <1>8, <1>10, <1>a DEF Execute, FlowTypeOK
<1>13. QueuesTyped' /\ CallsInOrder' /\ RollbackInOrder'
  BY <1>6, <1>a DEF Execute, QueuesTyped, CallsInOrder, RollbackInOrder
<1> QED
  BY <1>3, <1>4, <1>11, <1>12, <1>13 DEF FlowInv, FlowTyped

(* The end of a batch, in order or by a restart.                           *)
LEMMA IdleShaped ==
  ASSUME BatchTyped, NEW next, next = [Idle EXCEPT !.id = batch.id]
  PROVE  /\ Shaped(next) /\ next.id = batch.id /\ next.pc = "idle"
         /\ DOMAIN next.loaded = {} /\ Executed(next) = {}
<1>1. /\ DOMAIN next = {"pc", "id", "loaded", "exec", "ok"}
      /\ next.pc = "idle" /\ next.id = batch.id /\ next.ok = FALSE
      /\ next.loaded = <<>> /\ next.exec = <<>>
  BY DEF Idle
<1>2. DOMAIN next.loaded = {} /\ DOMAIN next.exec = {}
  BY <1>1
<1> QED
  BY <1>1, <1>2 DEF Shaped, Executed

LEMMA MatchingRestartsInv ==
  ASSUME FlowInv, MatchingRestarts
  PROVE  FlowInv'
<1> USE DEF orderFlow
<1>a. FlowTypeOK /\ QueuesTyped /\ BatchTyped /\ CallsInOrder /\ RollbackInOrder
      /\ LoadedCurrent /\ VolumePaid
  BY DEF FlowInv, FlowTyped
<1>1. BatchTyped' /\ LoadedCurrent' /\ batch'.id = batch.id /\ batch'.pc = "idle"
  BY <1>a, IdleShaped DEF MatchingRestarts, BatchTyped, LoadedCurrent
<1>2. faults' \in 0 .. MaxFaults /\ faults' = faults + 1
  BY <1>a, FlowAssumption DEF MatchingRestarts, Fault, FlowTypeOK
<1>3. FlowTypeOK'
  <2>1. order_index' \in [Orders -> [status : {"none", "pending", "partial", "filled", "cancelled"},
                                     filled : Nat]]
    BY DEF MatchingRestarts, NoRow
  <2> QED
    BY <1>1, <1>2, <1>a, <2>1 DEF MatchingRestarts, FlowTypeOK
<1>4. QueuesTyped' /\ CallsInOrder' /\ RollbackInOrder'
  BY <1>a DEF MatchingRestarts, QueuesTyped, CallsInOrder, RollbackInOrder
<1>5. VolumePaid'
  <2> SUFFICES ASSUME NEW o \in Orders
               PROVE  published'[o] <= flow_orders'[o].filled + Qty[o] * faults' + Pending(o)'
    BY DEF VolumePaid
  <2>1. /\ published[o] \in Nat /\ flow_orders[o].filled \in Nat /\ Qty[o] \in Nat
        /\ flow_orders'[o] = flow_orders[o] /\ published'[o] = published[o]
    BY <1>a, FlowAssumption DEF FlowTypeOK, MatchingRestarts
  <2>2. Pending(o)' = 0
    BY <1>1 DEF Pending
  <2>3. Pending(o) \in Nat /\ Pending(o) <= Qty[o]
    BY <1>a, <2>1, BatchOrder DEF Pending, BatchTyped
  <2>4. published[o] <= flow_orders[o].filled + Qty[o] * faults + Pending(o)
    BY <1>a DEF VolumePaid
  <2> QED
    BY <1>2, <1>a, <2>1, <2>2, <2>3, <2>4, FaultSteps
<1> QED
  BY <1>1, <1>3, <1>4, <1>5 DEF FlowInv, FlowTyped

LEMMA RefreshIndexInv ==
  ASSUME FlowInv, RefreshIndex
  PROVE  FlowInv'
<1> USE DEF orderFlow
<1>a. FlowTypeOK /\ QueuesTyped /\ BatchTyped /\ CallsInOrder /\ RollbackInOrder
      /\ LoadedCurrent /\ VolumePaid
  BY DEF FlowInv, FlowTyped
<1> DEFINE Snapshots == [status : {"none", "pending", "partial", "filled", "cancelled"},
                         filled : Nat]
<1>1. order_index' \in [Orders -> Snapshots]
  <2> SUFFICES ASSUME NEW o \in Orders PROVE order_index'[o] \in Snapshots
    BY DEF RefreshIndex
  <2>1. order_index[o] \in Snapshots /\ NoRow \in Snapshots /\ Qty[o] \in Nat
    BY <1>a, FlowAssumption DEF FlowTypeOK, NoRow
  <2>2. \A p \in Executed(batch) : Update(batch, p).total \in Nat
    BY <1>a, BatchOrder DEF BatchTyped
  <2>3. o \in DOMAIN After(batch) => After(batch)[o] \in Nat
    BY <1>a, <2>2 DEF After, BatchTyped, Shaped
  <2>4. o \in DOMAIN After(batch) => Partial(After(batch)[o]) \in Snapshots
    BY <2>3 DEF Partial
  <2>5. Indexed(batch, o, order_index[o]) \in Snapshots
    BY <2>1, <2>2 DEF Indexed
  <2>6. Missing(o, Indexed(batch, o, order_index[o])) \in Snapshots
    BY <2>1, <2>5 DEF Missing
  <2>7. order_index'[o] =
          IF order_index[o] = NoRow THEN NoRow
          ELSE IF o \in DOMAIN After(batch) THEN Partial(After(batch)[o])
          ELSE Missing(o, Indexed(batch, o, order_index[o]))
    BY DEF RefreshIndex
  <2> HIDE DEF Snapshots
  <2> QED
    BY <2>1, <2>4, <2>6, <2>7
<1>2. CASE batch.ok
  <2>1. /\ DOMAIN batch' = {"pc", "id", "loaded", "exec", "ok"}
        /\ batch'.pc = "persist" /\ batch.pc = "index" /\ batch'.ok
        /\ batch'.id = batch.id /\ batch'.loaded = batch.loaded
        /\ batch'.exec = batch.exec /\ batch'.ok = batch.ok
    BY <1>2, <1>a DEF RefreshIndex, BatchTyped, Shaped
  <2>2. BatchTyped' /\ LoadedCurrent'
    BY <2>1, <1>a DEF RefreshIndex, BatchTyped, Shaped, LoadedCurrent
  <2>3. \A o \in Orders : Pending(o)' = Pending(o)
    BY <2>1 DEF Pending, Executed, Fills
  <2>4. VolumePaid'
    BY <2>3, <1>a DEF RefreshIndex, VolumePaid
  <2>5. FlowTypeOK'
    BY <1>1, <2>1, <1>a DEF RefreshIndex, FlowTypeOK
  <2>6. QueuesTyped' /\ CallsInOrder' /\ RollbackInOrder'
    BY <1>a DEF RefreshIndex, QueuesTyped, CallsInOrder, RollbackInOrder
  <2> QED
    BY <2>2, <2>4, <2>5, <2>6 DEF FlowInv, FlowTyped
<1>3. CASE ~batch.ok
  <2>1. BatchTyped' /\ LoadedCurrent' /\ batch'.id = batch.id /\ batch'.pc = "idle"
    BY <1>3, <1>a, IdleShaped DEF RefreshIndex, BatchTyped, LoadedCurrent
  <2>2. \A o \in Orders : Pending(o)' = Pending(o)
    BY <1>3, <2>1 DEF Pending
  <2>3. VolumePaid'
    BY <2>2, <1>a DEF RefreshIndex, VolumePaid
  <2>4. FlowTypeOK'
    BY <1>1, <2>1, <1>a DEF RefreshIndex, FlowTypeOK
  <2>5. QueuesTyped' /\ CallsInOrder' /\ RollbackInOrder'
    BY <1>a DEF RefreshIndex, QueuesTyped, CallsInOrder, RollbackInOrder
  <2> QED
    BY <2>1, <2>3, <2>4, <2>5 DEF FlowInv, FlowTyped
<1> QED
  BY <1>2, <1>3

LEMMA UpdateFilledVolumesInv ==
  ASSUME FlowInv, UpdateFilledVolumes
  PROVE  FlowInv'
<1> USE DEF orderFlow
<1>a. FlowTypeOK /\ QueuesTyped /\ BatchTyped /\ CallsInOrder /\ RollbackInOrder
      /\ LoadedCurrent /\ VolumePaid
  BY DEF FlowInv, FlowTyped
<1>1. BatchTyped' /\ LoadedCurrent' /\ batch'.id = batch.id /\ batch'.pc = "idle"
  BY <1>a, IdleShaped DEF UpdateFilledVolumes, BatchTyped, LoadedCurrent
<1>2. batch.pc = "persist" /\ batch.ok
  BY <1>a DEF UpdateFilledVolumes, BatchTyped, Shaped
<1>3. \A o \in Orders : /\ published[o] \in Nat /\ flow_orders[o].filled \in Nat
                        /\ Qty[o] \in Nat /\ flow_orders[o].filled <= Qty[o]
                        /\ published'[o] = published[o] /\ Pending(o)' = 0
                        /\ published[o] <= flow_orders[o].filled + Qty[o] * faults + Pending(o)
  BY <1>1, <1>a, FlowAssumption DEF FlowTypeOK, UpdateFilledVolumes, VolumePaid, Pending
<1>4. \A o \in Executed(batch) : /\ o \in Orders
                                 /\ flow_orders[o].status # "none"
                                 /\ Volume(Fills(batch, o)) \in Nat
                                 /\ flow_orders[o].filled + Volume(Fills(batch, o)) <= Qty[o]
                                 /\ Pending(o) = Volume(Fills(batch, o))
  <2> SUFFICES ASSUME NEW o \in Executed(batch)
               PROVE  /\ o \in Orders /\ flow_orders[o].status # "none"
                      /\ Volume(Fills(batch, o)) \in Nat
                      /\ flow_orders[o].filled + Volume(Fills(batch, o)) <= Qty[o]
                      /\ Pending(o) = Volume(Fills(batch, o))
    OBVIOUS
  <2>1. /\ o \in Orders /\ o \in DOMAIN batch.loaded
        /\ Volume(Fills(batch, o)) \in 0 .. (Qty[o] - batch.loaded[o])
    BY <1>a, BatchOrder DEF BatchTyped
  <2>2. flow_orders[o].filled = batch.loaded[o] /\ flow_orders[o].status # "none"
    BY <2>1, <1>a DEF LoadedCurrent
  <2>3. Pending(o) = Volume(Fills(batch, o))
    BY <1>2 DEF Pending
  <2> QED
    BY <2>1, <2>2, <2>3, <1>3
<1>5. QueuesTyped'
  BY <1>a DEF UpdateFilledVolumes, QueuesTyped
<1> DEFINE Written ==
      flow_orders' = [o \in Orders |->
        IF o \in Executed(batch) /\ Volume(Fills(batch, o)) > 0
        THEN FilledVolume(o, Volume(Fills(batch, o))) ELSE flow_orders[o]]
<1>6. CASE Written /\ faults' = faults
  <2>1. \A o \in Orders :
          /\ flow_orders'[o] \in [status : {"none", "active", "partially_filled", "filled"},
                                  filled : Nat]
          /\ flow_orders'[o].filled = flow_orders[o].filled + Pending(o)
          /\ flow_orders'[o].filled <= Qty[o]
          /\ flow_orders[o] = NoRow => flow_orders'[o] = NoRow
    <3> SUFFICES ASSUME NEW o \in Orders
                 PROVE  /\ flow_orders'[o] \in [status : {"none", "active", "partially_filled", "filled"},
                                                filled : Nat]
                        /\ flow_orders'[o].filled = flow_orders[o].filled + Pending(o)
                        /\ flow_orders'[o].filled <= Qty[o]
                        /\ flow_orders[o] = NoRow => flow_orders'[o] = NoRow
      OBVIOUS
    <3> DEFINE v == Volume(Fills(batch, o))
    <3>1. CASE o \in Executed(batch) /\ v > 0
      <4>1. flow_orders'[o] = FilledVolume(o, v)
        BY <1>6, <3>1
      <4>2. /\ v \in Nat /\ flow_orders[o].filled + v <= Qty[o] /\ Pending(o) = v
            /\ flow_orders[o] # NoRow
        BY <1>4, <3>1 DEF NoRow
      <4> HIDE DEF v
      <4> QED
        BY <4>1, <4>2, <1>3 DEF FilledVolume, Lower
    <3>2. CASE ~(o \in Executed(batch) /\ v > 0)
      <4>1. flow_orders'[o] = flow_orders[o]
        BY <1>6, <3>2
      <4>2. Pending(o) = 0
        BY <1>4, <3>2 DEF Pending
      <4> QED
        BY <4>1, <4>2, <1>3, <1>a DEF FlowTypeOK
    <3> QED
      BY <3>1, <3>2
  <2>2. flow_orders' \in [Orders -> [status : {"none", "active", "partially_filled", "filled"},
                                     filled : Nat]]
    <3>1. flow_orders' = [o \in Orders |-> flow_orders'[o]]
      BY <1>6
    <3> QED
      BY <2>1, <3>1
  <2>3. FlowTypeOK'
    BY <1>1, <1>6, <1>a, <2>1, <2>2 DEF UpdateFilledVolumes, FlowTypeOK
  <2>4. CallsInOrder' /\ RollbackInOrder'
    BY <1>a, <2>1 DEF UpdateFilledVolumes, CallsInOrder, RollbackInOrder
  <2>5. VolumePaid'
    <3> SUFFICES ASSUME NEW o \in Orders
                 PROVE  published'[o] <= flow_orders'[o].filled + Qty[o] * faults' + Pending(o)'
      BY DEF VolumePaid
    <3>1. Pending(o) \in Nat
      BY <1>4 DEF Pending
    <3> QED
      BY <1>3, <1>6, <1>a, <2>1, <3>1, FaultSteps
  <2> QED
    BY <1>1, <1>5, <2>3, <2>4, <2>5 DEF FlowInv, FlowTyped
<1>7. CASE Fault /\ UNCHANGED flow_orders
  <2>1. faults' \in 0 .. MaxFaults /\ faults' = faults + 1
    BY <1>7, <1>a, FlowAssumption DEF Fault, FlowTypeOK
  <2>2. FlowTypeOK'
    BY <1>1, <1>7, <1>a, <2>1 DEF UpdateFilledVolumes, FlowTypeOK
  <2>3. CallsInOrder' /\ RollbackInOrder'
    BY <1>7, <1>a DEF UpdateFilledVolumes, CallsInOrder, RollbackInOrder
  <2>4. VolumePaid'
    <3> SUFFICES ASSUME NEW o \in Orders
                 PROVE  published'[o] <= flow_orders'[o].filled + Qty[o] * faults' + Pending(o)'
      BY DEF VolumePaid
    <3>1. Pending(o) \in Nat /\ Pending(o) <= Qty[o]
      BY <1>3, <1>4 DEF Pending
    <3> QED
      BY <1>3, <1>7, <1>a, <2>1, <3>1, FaultSteps
  <2> QED
    BY <1>1, <1>5, <2>2, <2>3, <2>4 DEF FlowInv, FlowTyped
<1> QED
  BY <1>6, <1>7 DEF UpdateFilledVolumes

LEMMA FlowStep == FlowInv /\ [NextFlow]_flowVars => FlowInv'
<1> SUFFICES ASSUME FlowInv, [NextFlow]_flowVars PROVE FlowInv'
  OBVIOUS
<1>1. ASSUME NEW o \in Orders, OrderCall(o) PROVE FlowInv'
  BY <1>1, OrderCallInv
<1>2. CASE ApplyBatchResult
  BY <1>2, ApplyBatchResultInv
<1>3. CASE CommitBatch
  BY <1>3, CommitBatchInv
<1>4. CASE OrderFlowRestarts
  BY <1>4, OrderFlowRestartsInv
<1>5. CASE OnOrderEvent
  BY <1>5, OnOrderEventInv
<1>6. CASE LoadActiveFlowOrders
  BY <1>6, LoadActiveFlowOrdersInv
<1>7. ASSUME NEW exec \in [DOMAIN batch.loaded -> Executions],
             NEW out \in BOOLEAN, NEW ok \in BOOLEAN, Execute(exec, out, ok)
      PROVE  FlowInv'
  BY <1>7, ExecuteInv
<1>8. CASE RefreshIndex
  BY <1>8, RefreshIndexInv
<1>9. CASE UpdateFilledVolumes
  BY <1>9, UpdateFilledVolumesInv
<1>10. CASE MatchingRestarts
  BY <1>10, MatchingRestartsInv
<1>11. CASE UNCHANGED flowVars
  <2>1. FlowTyped'
    BY <1>11 DEF FlowInv, FlowTyped, FlowTypeOK, QueuesTyped, BatchTyped, Shaped,
                 flowVars, orderFlow, matching
  <2>2. CallsInOrder' /\ RollbackInOrder'
    BY <1>11 DEF FlowInv, CallsInOrder, RollbackInOrder, flowVars, orderFlow, matching
  <2>3. LoadedCurrent' /\ VolumePaid'
    BY <1>11, BatchKept DEF flowVars, orderFlow, matching
  <2> QED
    BY <2>1, <2>2, <2>3 DEF FlowInv
<1> QED
  BY <1>1, <1>2, <1>3, <1>4, <1>5, <1>6, <1>7, <1>8, <1>9, <1>10, <1>11
  DEF NextFlow, TimerThread

LEMMA FlowInvariant == FlowSpec => []FlowInv
BY FlowInit, FlowStep, PTL DEF FlowSpec
-----------------------------------------------------------------------------
(* The types of FlowOrders: rows and views of an order within its          *)
(* quantity, whatever the solver, the failures and the restarts.           *)
THEOREM FlowTypeCorrect == FlowSpec => []FlowTypeOK
<1>1. FlowInv => FlowTypeOK
  BY DEF FlowInv, FlowTyped
<1> QED
  BY <1>1, FlowInvariant, PTL

(* CapFillsAgainstRemaining bounds the published volume of an order by its *)
(* quantity and as much again for every failure of matching.               *)
THEOREM OverfillIsBounded == FlowSpec => []OverfillBounded
<1>1. FlowInv => OverfillBounded
  <2> SUFFICES ASSUME FlowInv, NEW o \in Orders
               PROVE  published[o] <= Qty[o] * (1 + faults)
    BY DEF OverfillBounded
  <2>1. /\ published[o] \in Nat /\ flow_orders[o].filled \in Nat /\ Qty[o] \in Nat
        /\ flow_orders[o].filled <= Qty[o]
    BY FlowAssumption DEF FlowInv, FlowTyped, FlowTypeOK
  <2>2. flow_orders[o].filled + Pending(o) <= Qty[o] /\ Pending(o) \in Nat
    <3>1. CASE Pending(o) = 0
      BY <2>1, <3>1
    <3>2. CASE o \in Executed(batch) /\ Pending(o) = Volume(Fills(batch, o))
      <4>1. /\ o \in DOMAIN batch.loaded
            /\ Volume(Fills(batch, o)) \in 0 .. (Qty[o] - batch.loaded[o])
        BY <3>2, BatchOrder DEF FlowInv, FlowTyped, BatchTyped
      <4>2. flow_orders[o].filled = batch.loaded[o]
        BY <4>1 DEF FlowInv, LoadedCurrent
      <4> QED
        BY <2>1, <3>2, <4>1, <4>2
    <3> QED
      BY <3>1, <3>2 DEF Pending
  <2>3. published[o] <= flow_orders[o].filled + Qty[o] * faults + Pending(o)
    BY DEF FlowInv, VolumePaid
  <2>4. FlowTypeOK
    BY DEF FlowInv, FlowTyped
  <2> QED
    BY <2>1, <2>2, <2>3, <2>4, FaultSteps
<1> QED
  BY <1>1, FlowInvariant, PTL

(* The rollback of CreateFlowOrder after a failed insert is complete, also *)
(* when the order is cancelled in the middle of it.                        *)
THEOREM RefusalIsClean == FlowSpec => []RefusedLeavesNothing
<1>1. FlowInv => RefusedLeavesNothing
  BY DEF FlowInv, RollbackInOrder, RefusedLeavesNothing
<1> QED
  BY <1>1, FlowInvariant, PTL

(* No batch, late, repeated or prepared before the cancel, overwrites the  *)
(* cancellation of an order in orders_.                                    *)
THEOREM CancelStays == FlowSpec => CancelIsFinal
<1> DEFINE Final == \A o \in Orders :
             orders[o].status = "CANCELED" => orders'[o].status \in {"CANCELED", "NONE"}
<1>1. FlowInv /\ [NextFlow]_flowVars => [Final]_flowVars
  <2> SUFFICES ASSUME FlowInv, NextFlow PROVE Final
    OBVIOUS
  <2> USE DEF orderFlow, matching
  <2>a. FlowTypeOK /\ QueuesTyped /\ CallsInOrder
    BY DEF FlowInv, FlowTyped
  <2>1. CASE orders' = orders
    BY <2>1
  <2>2. CASE \E p \in Orders : StoreOrder(p) \/ EraseFailed(p) \/ CancelFlowOrder(p)
    <3>1. PICK p \in Orders : StoreOrder(p) \/ EraseFailed(p) \/ CancelFlowOrder(p)
      BY <2>2
    <3>2. \A o \in Orders \ {p} : orders'[o] = orders[o]
      BY <3>1, <2>a DEF StoreOrder, EraseFailed, CancelFlowOrder, FlowTypeOK
    <3>3. CASE StoreOrder(p)
      BY <3>2, <3>3, <2>a DEF StoreOrder, CallsInOrder, Absent
    <3>4. CASE EraseFailed(p)
      BY <3>2, <3>4, <2>a DEF EraseFailed, Absent, FlowTypeOK
    <3>5. CASE CancelFlowOrder(p)
      BY <3>2, <3>5, <2>a DEF CancelFlowOrder, FlowTypeOK
    <3> QED
      BY <3>1, <3>3, <3>4, <3>5
  <2>3. CASE OrderFlowRestarts
    BY <2>3 DEF OrderFlowRestarts, Absent
  <2>4. CASE ApplyBatchResult
    <3>1. Head(outputs) \in Messages
      BY <2>4, <2>a, SeqSteps DEF ApplyBatchResult, QueuesTyped
    <3>2. \A o \in Orders : orders[o].status = "CANCELED" => orders'[o] = orders[o]
      BY <2>4, <2>a, <3>1, AppliedOrder DEF ApplyBatchResult
    <3> QED
      BY <3>2
  <2> QED
    BY <2>1, <2>2, <2>3, <2>4
    DEF NextFlow, OrderCall, TimerThread, ReserveFunds, InsertFlowOrder, ReleaseFailed,
        PublishCreate, PublishCancel, ReleaseCancelled, CommitBatch, OnOrderEvent,
        LoadActiveFlowOrders, Execute, RefreshIndex, UpdateFilledVolumes, MatchingRestarts
<1> QED
  BY <1>1, FlowInvariant, PTL DEF FlowSpec, CancelIsFinal
-----------------------------------------------------------------------------
(* The three views of an order: what order_flow shows, the row and the     *)
(* index of matching.                                                      *)

(* What is filled of an order when the batch under way is done.            *)
Target(o) == flow_orders[o].filled + Pending(o)

(* What order_flow shows of an order that is filled up to q.               *)
Shown(o, q) == [status |-> StatusOf(o, q), remaining |-> Qty[o] - q]

(* A full row is closed, and an order that is in a message has a row.      *)
RowsTrue ==
  /\ \A o \in Orders : flow_orders[o].filled = Qty[o] => flow_orders[o].status = "filled"
  /\ \A n \in DOMAIN outputs : \A o \in DOMAIN outputs[n].updates : flow_orders[o].status # "none"

(* Without failures a batch that has left the solver was published, and    *)
(* what was published is in the rows or under way.                         *)
PublishedTrue ==
  faults = 0 => /\ batch.pc = "index" /\ ~batch.ok => DOMAIN batch.loaded = {}
                /\ \A o \in Orders : published[o] = Target(o)

(* The order after the messages up to n of the topic, if the message n is  *)
(* about it; 0 is what order_flow holds.                                   *)
Mentions(n, o) == o \in DOMAIN outputs[n].updates
Seen(n, o) == [status |-> outputs[n].updates[o].status, remaining |-> outputs[n].updates[o].remaining]

(* The last message about an order, or what order_flow holds when there is *)
(* none, shows the order as it will be filled; a message that was handled  *)
(* and not committed is what order_flow shows.                             *)
LiveOrder(o) == orders[o].status \notin {"NONE", "CANCELED"}
ShownTrue ==
  faults = 0 =>
    \A o \in Orders : LiveOrder(o) =>
      /\ (\A k \in DOMAIN outputs : ~Mentions(k, o)) => orders[o] = Shown(o, Target(o))
      /\ \A n \in DOMAIN outputs :
           Mentions(n, o) /\ (\A k \in DOMAIN outputs : k > n => ~Mentions(k, o))
             => Seen(n, o) = Shown(o, Target(o))
      /\ handled /\ Mentions(1, o) => orders[o] = Seen(1, o)

(* The index is ahead of the rows only while these wait for the fills.     *)
IndexTarget(o) == IF batch.pc = "persist" THEN Target(o) ELSE flow_orders[o].filled
IndexTrue ==
  faults = 0 =>
    \A o \in Orders :
      /\ order_index[o].status = "filled" => IndexTarget(o) = Qty[o]
      /\ order_index[o].status = "partial" => order_index[o].filled = IndexTarget(o)
      /\ order_index[o].status = "pending" => order_index[o].filled = 0

ViewsInv == RowsTrue /\ PublishedTrue /\ ShownTrue /\ IndexTrue

LEMMA MessagesOfOrders ==
  ASSUME FlowInv
  PROVE  /\ outputs \in Seq(Messages) /\ Len(outputs) \in Nat /\ DOMAIN outputs = 1 .. Len(outputs)
         /\ \A n \in DOMAIN outputs : /\ DOMAIN outputs[n].updates \subseteq Orders
                                      /\ DOMAIN outputs[n].fills = DOMAIN outputs[n].updates
<1>1. outputs \in Seq(Messages)
  BY DEF FlowInv, FlowTyped, QueuesTyped
<1>2. \A m \in Messages : DOMAIN m.updates \subseteq Orders /\ DOMAIN m.fills = DOMAIN m.updates
  BY DEF Messages, Partially
<1> QED
  BY <1>1, <1>2

(* A row that is not loaded has nothing under way; what the rows are going *)
(* to hold fits the order.                                                 *)
LEMMA TargetFits ==
  ASSUME FlowInv, NEW o \in Orders
  PROVE  /\ flow_orders[o].filled \in Nat /\ Qty[o] \in Nat \ {0}
         /\ Pending(o) \in Nat /\ Target(o) \in 0 .. Qty[o]
         /\ o \notin DOMAIN batch.loaded => Pending(o) = 0
         /\ flow_orders[o].status = "none" => Pending(o) = 0
<1>1. /\ flow_orders[o].filled \in Nat /\ Qty[o] \in Nat \ {0} /\ flow_orders[o].filled <= Qty[o]
  BY FlowAssumption DEF FlowInv, FlowTyped, FlowTypeOK
<1>2. CASE Pending(o) = 0 /\ ~(o \in Executed(batch))
  BY <1>1, <1>2 DEF Target
<1>3. CASE Pending(o) = 0 /\ o \in Executed(batch)
  <2>1. o \in DOMAIN batch.loaded
    BY <1>3, BatchOrder DEF FlowInv, FlowTyped, BatchTyped
  <2> QED
    BY <1>1, <1>3, <2>1 DEF Target
<1>4. CASE o \in Executed(batch) /\ Pending(o) = Volume(Fills(batch, o))
  <2>1. /\ o \in DOMAIN batch.loaded
        /\ Volume(Fills(batch, o)) \in 0 .. (Qty[o] - batch.loaded[o])
    BY <1>4, BatchOrder DEF FlowInv, FlowTyped, BatchTyped
  <2>2. flow_orders[o].filled = batch.loaded[o] /\ flow_orders[o].status # "none"
    BY <2>1 DEF FlowInv, LoadedCurrent
  <2>3. Volume(Fills(batch, o)) \in Nat /\ flow_orders[o].filled + Volume(Fills(batch, o)) <= Qty[o]
    BY <1>1, <2>1, <2>2
  <2> QED
    BY <1>1, <1>4, <2>1, <2>2, <2>3 DEF Target
<1> QED
  BY <1>2, <1>3, <1>4 DEF Pending

LEMMA TargetKept ==
  ASSUME UNCHANGED batch, NEW o, flow_orders'[o].filled = flow_orders[o].filled
  PROVE  Target(o)' = Target(o) /\ IndexTarget(o)' = IndexTarget(o)
<1>1. Pending(o)' = Pending(o)
  BY DEF Pending, Executed, Fills
<1> QED
  BY <1>1 DEF Target, IndexTarget

(* The order_update of the solver, which is made from the fills before     *)
(* they are capped, says what the capped fills make of the order.          *)
LEMMA UpdateShown ==
  ASSUME NEW b, Shaped(b), NEW o \in Executed(b), NEW t, t = b.loaded[o] + Volume(Fills(b, o))
  PROVE  /\ t \in 1 .. Qty[o] /\ Volume(Fills(b, o)) \in Nat
         /\ [status |-> Update(b, o).status, remaining |-> Update(b, o).remaining] = Shown(o, t)
         /\ Update(b, o).status = "FILLED" <=> t = Qty[o]
         /\ Update(b, o).status # "FILLED" => Update(b, o).total = t
<1> DEFINE f == b.exec[o]
           d == b.loaded[o]
           i == f.internal
           e == f.external
<1>1. /\ o \in Orders /\ d \in 0 .. Qty[o] /\ Qty[o] \in Nat \ {0} /\ i \in Nat /\ e \in Nat /\ i + e > 0
  BY BatchOrder, FlowAssumption DEF FillPairs, Executed, Volume
<1>2. Volume(Fills(b, o)) = IF i + e <= Qty[o] - d THEN i + e ELSE Qty[o] - d
  BY <1>1 DEF Volume, Fills, Capped, Lower
<1>3. /\ Update(b, o).remaining = (IF Qty[o] - d - (i + e) < 0 THEN 0 ELSE Qty[o] - d - (i + e))
      /\ Update(b, o).status = (IF Update(b, o).remaining = 0 THEN "FILLED" ELSE "PARTIALLY_FILLED")
      /\ Update(b, o).total = d + (i + e)
  BY DEF Update, OrderUpdate, AtLeastZero, Volume
<1> HIDE DEF f, d, i, e
<1>4. t = d + Volume(Fills(b, o))
  BY DEF d
<1>5. /\ t \in 1 .. Qty[o] /\ Volume(Fills(b, o)) \in Nat
      /\ Update(b, o).remaining = Qty[o] - t
      /\ Update(b, o).status = (IF t = Qty[o] THEN "FILLED" ELSE "PARTIALLY_FILLED")
      /\ t # Qty[o] => Update(b, o).total = t
  BY <1>1, <1>2, <1>3, <1>4
<1>6. StatusOf(o, t) = IF t = Qty[o] THEN "FILLED" ELSE "PARTIALLY_FILLED"
  BY <1>1, <1>5 DEF StatusOf
<1> QED
  BY <1>5, <1>6 DEF Shown

LEMMA ViewsInit == InitFlow => ViewsInv
<1> SUFFICES ASSUME InitFlow PROVE ViewsInv
  OBVIOUS
<1>1. /\ \A o \in Orders : flow_orders[o] = NoRow /\ order_index[o] = NoRow /\ ~LiveOrder(o)
                           /\ published[o] = 0 /\ Qty[o] # 0
      /\ DOMAIN outputs = {} /\ batch.pc = "idle"
  BY FlowAssumption DEF InitFlow, LiveOrder, Absent, Idle
<1>2. \A o \in Orders : Pending(o) = 0
  BY <1>1 DEF Pending
<1> QED
  BY <1>1, <1>2 DEF ViewsInv, RowsTrue, PublishedTrue, ShownTrue, IndexTrue, Target, IndexTarget, NoRow

(* Steps that leave matching and the topic alone: a row may appear, an     *)
(* order may be stored before it has a row, cancelled or erased.           *)
LEMMA CallKeepsViews ==
  ASSUME FlowInv, ViewsInv,
         UNCHANGED <<batch, published, faults, outputs, order_index>>,
         handled' => handled,
         \A o \in Orders : \/ flow_orders'[o] = flow_orders[o]
                           \/ flow_orders[o] = NoRow /\ flow_orders'[o].filled = 0
                              /\ flow_orders'[o].status # "none",
         \A o \in Orders : \/ orders'[o] = orders[o]
                           \/ orders'[o].status \in {"NONE", "CANCELED"}
                           \/ flow_orders[o] = NoRow /\ orders'[o] = [status |-> "NEW", remaining |-> Qty[o]]
  PROVE  ViewsInv'
<1>0. ASSUME NEW o \in Orders PROVE flow_orders'[o].filled = flow_orders[o].filled
  BY DEF NoRow
<1>1. ASSUME NEW o \in Orders PROVE Target(o)' = Target(o) /\ IndexTarget(o)' = IndexTarget(o)
  BY <1>0, TargetKept
<1>2. RowsTrue'
  <2>1. ASSUME NEW o \in Orders, flow_orders'[o].filled = Qty[o] PROVE flow_orders'[o].status = "filled"
    <3>1. Qty[o] # 0
      BY FlowAssumption
    <3> QED
      BY <2>1, <3>1 DEF ViewsInv, RowsTrue
  <2>2. ASSUME NEW n \in DOMAIN outputs, NEW o \in DOMAIN outputs[n].updates
        PROVE  flow_orders'[o].status # "none"
    <3>1. o \in Orders /\ flow_orders[o].status # "none"
      BY MessagesOfOrders DEF ViewsInv, RowsTrue
    <3> QED
      BY <3>1 DEF NoRow
  <2> QED
    BY <2>1, <2>2 DEF RowsTrue
<1>3. PublishedTrue'
  BY <1>1 DEF ViewsInv, PublishedTrue
<1>4. IndexTrue'
  BY <1>1 DEF ViewsInv, IndexTrue
<1>5. ShownTrue'
  <2> SUFFICES ASSUME faults = 0, NEW o \in Orders, LiveOrder(o)'
      PROVE /\ (\A k \in DOMAIN outputs : ~Mentions(k, o)) => orders'[o] = Shown(o, Target(o))
            /\ \A n \in DOMAIN outputs :
                 Mentions(n, o) /\ (\A k \in DOMAIN outputs : k > n => ~Mentions(k, o))
                   => Seen(n, o) = Shown(o, Target(o))
            /\ handled' /\ Mentions(1, o) => orders'[o] = Seen(1, o)
    BY <1>1 DEF ShownTrue, Mentions, Seen, Shown, StatusOf
  <2>1. CASE orders'[o] = orders[o]
    BY <2>1 DEF LiveOrder, ViewsInv, ShownTrue
  <2>2. CASE flow_orders[o] = NoRow /\ orders'[o] = [status |-> "NEW", remaining |-> Qty[o]]
    <3>1. \A k \in DOMAIN outputs : ~Mentions(k, o)
      BY <2>2 DEF ViewsInv, RowsTrue, Mentions, NoRow
    <3>2. handled => 1 \in DOMAIN outputs
      BY MessagesOfOrders DEF FlowInv, FlowTyped, FlowTypeOK
    <3>3. Target(o) = 0 /\ Qty[o] \in Nat \ {0}
      BY <2>2, TargetFits DEF Target, NoRow
    <3>a. StatusOf(o, 0) = "NEW" /\ Qty[o] - 0 = Qty[o]
      BY <3>3 DEF StatusOf
    <3>4. orders'[o] = Shown(o, Target(o))
      BY <2>2, <3>3, <3>a DEF Shown
    <3> QED
      BY <3>1, <3>2, <3>4
  <2> QED
    BY <2>1, <2>2 DEF LiveOrder
<1> QED
  BY <1>2, <1>3, <1>4, <1>5 DEF ViewsInv

LEMMA OrderCallViews ==
  ASSUME FlowInv, ViewsInv, NEW o \in Orders, OrderCall(o)
  PROVE  ViewsInv'
<1> USE DEF orderFlow, matching
<1>1. /\ UNCHANGED <<batch, published, faults, outputs, order_index, handled>>
  BY DEF OrderCall, ReserveFunds, StoreOrder, InsertFlowOrder, ReleaseFailed, EraseFailed,
         PublishCreate, CancelFlowOrder, PublishCancel, ReleaseCancelled
<1>a. FlowTypeOK /\ CallsInOrder
  BY DEF FlowInv, FlowTyped
<1>2. ASSUME NEW p \in Orders
      PROVE  \/ flow_orders'[p] = flow_orders[p]
             \/ flow_orders[p] = NoRow /\ flow_orders'[p].filled = 0 /\ flow_orders'[p].status # "none"
  <2>1. CASE UNCHANGED flow_orders
    BY <2>1
  <2>2. CASE \E done, ok \in BOOLEAN : InsertFlowOrder(o, done, ok)
    BY <2>2, <1>a DEF InsertFlowOrder, CallsInOrder, FlowTypeOK
  <2> QED
    BY <2>1, <2>2
    DEF OrderCall, ReserveFunds, StoreOrder, ReleaseFailed, EraseFailed,
        PublishCreate, CancelFlowOrder, PublishCancel, ReleaseCancelled
<1>3. ASSUME NEW p \in Orders
      PROVE  \/ orders'[p] = orders[p]
             \/ orders'[p].status \in {"NONE", "CANCELED"}
             \/ flow_orders[p] = NoRow /\ orders'[p] = [status |-> "NEW", remaining |-> Qty[p]]
  <2>1. CASE UNCHANGED orders
    BY <2>1
  <2>2. CASE StoreOrder(o)
    BY <2>2, <1>a DEF StoreOrder, CallsInOrder, FlowTypeOK
  <2>3. CASE EraseFailed(o)
    BY <2>3, <1>a DEF EraseFailed, Absent, FlowTypeOK
  <2>4. CASE CancelFlowOrder(o)
    BY <2>4, <1>a DEF CancelFlowOrder, FlowTypeOK
  <2> QED
    BY <2>1, <2>2, <2>3, <2>4
    DEF OrderCall, ReserveFunds, InsertFlowOrder, ReleaseFailed,
        PublishCreate, PublishCancel, ReleaseCancelled
<1> QED
  BY <1>1, <1>2, <1>3, CallKeepsViews

LEMMA RestartViews ==
  ASSUME FlowInv, ViewsInv, OrderFlowRestarts
  PROVE  ViewsInv'
<1>1. /\ UNCHANGED <<batch, published, faults, outputs, order_index, flow_orders>> /\ ~handled'
      /\ \A o \in Orders : orders'[o].status = "NONE"
  BY DEF OrderFlowRestarts, matching, Absent
<1> QED
  BY <1>1, CallKeepsViews

(* The message that is applied is what order_flow shows of its orders.     *)
LEMMA ApplyViews ==
  ASSUME FlowInv, ViewsInv, ApplyBatchResult
  PROVE  ViewsInv'
<1> USE DEF orderFlow, matching
<1>1. /\ UNCHANGED <<batch, published, faults, outputs, order_index, flow_orders>> /\ outputs # <<>>
  BY DEF ApplyBatchResult
<1>2. ASSUME NEW o \in Orders PROVE Target(o)' = Target(o) /\ IndexTarget(o)' = IndexTarget(o)
  BY <1>1, TargetKept
<1>3. RowsTrue' /\ PublishedTrue' /\ IndexTrue'
  BY <1>1, <1>2 DEF ViewsInv, RowsTrue, PublishedTrue, IndexTrue
<1>4. 1 \in DOMAIN outputs /\ Head(outputs) = outputs[1] /\ DOMAIN outputs[1].fills = DOMAIN outputs[1].updates
  BY <1>1, MessagesOfOrders
<1>5. ASSUME NEW o \in Orders, LiveOrder(o)'
      PROVE  /\ LiveOrder(o)
             /\ ~Mentions(1, o) => orders'[o] = orders[o]
             /\ Mentions(1, o) => orders'[o] = Seen(1, o)
  <2>1. orders'[o] = IF o \in DOMAIN outputs[1].updates /\ orders[o].status # "NONE"
                     THEN ApplyUpdate(ApplyFill(orders[o], outputs[1].id, o, outputs[1].fills[o]),
                                      outputs[1].updates[o])
                     ELSE orders[o]
    BY <1>4 DEF ApplyBatchResult
  <2>2. CASE ~(Mentions(1, o) /\ orders[o].status # "NONE")
    BY <1>5, <2>1, <2>2 DEF LiveOrder, Mentions
  <2>3. CASE Mentions(1, o) /\ orders[o].status # "NONE"
    <3> DEFINE a == ApplyFill(orders[o], outputs[1].id, o, outputs[1].fills[o])
    <3>1. orders'[o] = ApplyUpdate(a, outputs[1].updates[o])
      BY <2>1, <2>3 DEF Mentions
    <3>2. a.status # "CANCELED" \/ a = orders[o]
      BY DEF ApplyFill
    <3>3. orders[o].status = "CANCELED" => a = orders[o]
      BY DEF ApplyFill
    <3> HIDE DEF a
    <3>4. a.status # "CANCELED"
      BY <1>5, <3>1 DEF LiveOrder, ApplyUpdate
    <3>5. orders'[o] = Seen(1, o)
      BY <3>1, <3>4 DEF ApplyUpdate, Seen
    <3> QED
      BY <2>3, <3>3, <3>4, <3>5 DEF LiveOrder
  <2> QED
    BY <2>2, <2>3
<1>6. ShownTrue'
  <2> SUFFICES ASSUME faults = 0, NEW o \in Orders, LiveOrder(o)'
      PROVE /\ (\A k \in DOMAIN outputs : ~Mentions(k, o)) => orders'[o] = Shown(o, Target(o))
            /\ \A n \in DOMAIN outputs :
                 Mentions(n, o) /\ (\A k \in DOMAIN outputs : k > n => ~Mentions(k, o))
                   => Seen(n, o) = Shown(o, Target(o))
            /\ Mentions(1, o) => orders'[o] = Seen(1, o)
    BY <1>1, <1>2 DEF ShownTrue, Mentions, Seen, Shown, StatusOf
  <2> QED
    BY <1>4, <1>5 DEF ViewsInv, ShownTrue
<1> QED
  BY <1>3, <1>6 DEF ViewsInv

LEMMA CommitViews ==
  ASSUME FlowInv, ViewsInv, CommitBatch
  PROVE  ViewsInv'
<1> USE DEF orderFlow, matching
<1>1. /\ UNCHANGED <<batch, published, faults, orders, order_index, flow_orders>>
      /\ handled /\ ~handled' /\ outputs # <<>> /\ outputs' = Tail(outputs)
  BY DEF CommitBatch, FlowInv, FlowTyped, FlowTypeOK
<1> DEFINE L == Len(outputs)
<1>2. /\ L \in Nat /\ L > 0 /\ DOMAIN outputs = 1 .. L /\ DOMAIN outputs' = 1 .. (L - 1)
      /\ \A n \in 1 .. (L - 1) : outputs'[n] = outputs[n + 1]
  BY <1>1, MessagesOfOrders
<1>3. ASSUME NEW o \in Orders PROVE Target(o)' = Target(o) /\ IndexTarget(o)' = IndexTarget(o)
  BY <1>1, TargetKept
<1>4. PublishedTrue' /\ IndexTrue'
  BY <1>1, <1>3 DEF ViewsInv, PublishedTrue, IndexTrue
<1> HIDE DEF L
<1>5. \A n \in 1 .. (L - 1) : n + 1 \in 1 .. L
  BY <1>2
<1>6. RowsTrue'
  BY <1>1, <1>2, <1>5 DEF ViewsInv, RowsTrue
<1>7. ASSUME NEW o PROVE \A n \in 1 .. (L - 1) : /\ Mentions(n, o)' <=> Mentions(n + 1, o)
                                                 /\ Seen(n, o)' = Seen(n + 1, o)
  BY <1>2 DEF Mentions, Seen
<1>8. ShownTrue'
  <2> SUFFICES ASSUME faults = 0, NEW o \in Orders, LiveOrder(o)
      PROVE /\ (\A k \in 1 .. (L - 1) : ~Mentions(k + 1, o)) => orders[o] = Shown(o, Target(o))
            /\ \A n \in 1 .. (L - 1) :
                 Mentions(n + 1, o) /\ (\A k \in 1 .. (L - 1) : k > n => ~Mentions(k + 1, o))
                   => Seen(n + 1, o) = Shown(o, Target(o))
    BY <1>1, <1>2, <1>3, <1>7 DEF ShownTrue, LiveOrder, Shown, StatusOf
  <2>0. \A j \in 1 .. L : j # 1 => j - 1 \in 1 .. (L - 1) /\ (j - 1) + 1 = j
    BY <1>2
  <2>a. /\ (\A k \in 1 .. L : ~Mentions(k, o)) => orders[o] = Shown(o, Target(o))
        /\ \A n \in 1 .. L : Mentions(n, o) /\ (\A k \in 1 .. L : k > n => ~Mentions(k, o))
             => Seen(n, o) = Shown(o, Target(o))
        /\ Mentions(1, o) => orders[o] = Seen(1, o)
    BY <1>1, <1>2 DEF ViewsInv, ShownTrue
  <2>1. ASSUME \A k \in 1 .. (L - 1) : ~Mentions(k + 1, o) PROVE orders[o] = Shown(o, Target(o))
    <3>1. \A k \in 1 .. L : k # 1 => ~Mentions(k, o)
      BY <2>0, <2>1
    <3>2. 1 \in 1 .. L /\ \A k \in 1 .. L : k > 1 => k # 1
      BY <1>2
    <3> QED
      BY <2>a, <3>1, <3>2
  <2>2. ASSUME NEW n \in 1 .. (L - 1), Mentions(n + 1, o), \A k \in 1 .. (L - 1) : k > n => ~Mentions(k + 1, o)
        PROVE  Seen(n + 1, o) = Shown(o, Target(o))
    <3>1. ASSUME NEW k \in 1 .. L, k > n + 1 PROVE ~Mentions(k, o)
      <4>1. k - 1 \in 1 .. (L - 1) /\ k - 1 > n /\ (k - 1) + 1 = k
        BY <1>2, <3>1
      <4> QED
        BY <2>2, <4>1
    <3> QED
      BY <1>5, <2>a, <2>2, <3>1
  <2> QED
    BY <2>1, <2>2
<1> QED
  BY <1>4, <1>6, <1>8 DEF ViewsInv

LEMMA EventViews ==
  ASSUME FlowInv, ViewsInv, OnOrderEvent
  PROVE  ViewsInv'
<1> USE DEF orderFlow, matching
<1>1. UNCHANGED <<batch, published, faults, outputs, orders, handled, flow_orders>>
  BY DEF OnOrderEvent
<1>2. ASSUME NEW o \in Orders PROVE Target(o)' = Target(o) /\ IndexTarget(o)' = IndexTarget(o)
  BY <1>1, TargetKept
<1>3. RowsTrue' /\ PublishedTrue'
  BY <1>1, <1>2 DEF ViewsInv, RowsTrue, PublishedTrue
<1>4. ShownTrue'
  BY <1>1, <1>2 DEF ViewsInv, ShownTrue, LiveOrder, Mentions, Seen, Shown, StatusOf
<1>5. ASSUME NEW o \in Orders
      PROVE  \/ order_index'[o] = order_index[o]
             \/ order_index'[o] = [status |-> "pending", filled |-> 0]
             \/ order_index'[o].status \in {"cancelled", "none"}
  BY DEF OnOrderEvent, NoRow, FlowInv, FlowTyped, FlowTypeOK
<1>6. IndexTrue'
  BY <1>1, <1>2, <1>5 DEF ViewsInv, IndexTrue
<1> QED
  BY <1>3, <1>4, <1>6 DEF ViewsInv

LEMMA LoadViews ==
  ASSUME FlowInv, ViewsInv, LoadActiveFlowOrders
  PROVE  ViewsInv'
<1> USE DEF orderFlow
<1>1. /\ UNCHANGED <<published, faults, outputs, orders, handled, flow_orders, order_index>>
      /\ batch.pc = "idle" /\ batch'.pc \in {"index", "solve"} /\ ~batch'.ok
      /\ batch'.pc = "index" => DOMAIN batch'.loaded = {}
  BY DEF LoadActiveFlowOrders, FlowInv, FlowTyped, BatchTyped, Shaped
<1>2. ASSUME NEW o \in Orders PROVE Target(o)' = Target(o) /\ IndexTarget(o)' = IndexTarget(o)
  <2>1. Pending(o)' = 0 /\ Pending(o) = 0
    BY <1>1 DEF Pending
  <2> QED
    BY <1>1, <2>1 DEF Target, IndexTarget
<1>3. RowsTrue' /\ PublishedTrue' /\ IndexTrue'
  BY <1>1, <1>2 DEF ViewsInv, RowsTrue, PublishedTrue, IndexTrue
<1>4. ShownTrue'
  BY <1>1, <1>2 DEF ViewsInv, ShownTrue, LiveOrder, Mentions, Seen, Shown, StatusOf
<1> QED
  BY <1>3, <1>4 DEF ViewsInv

LEMMA ExecuteViews ==
  ASSUME FlowInv, FlowInv', ViewsInv, NEW exec \in [DOMAIN batch.loaded -> Executions],
         NEW out \in BOOLEAN, NEW ok \in BOOLEAN, Execute(exec, out, ok)
  PROVE  ViewsInv'
<1> USE DEF orderFlow
<1> DEFINE b == [batch EXCEPT !.pc = "index", !.exec = exec, !.ok = ok]
           L == Len(outputs)
<1>1. /\ batch' = b /\ batch.pc = "solve" /\ batch'.pc = "index" /\ batch'.ok = ok
      /\ batch'.loaded = batch.loaded /\ Shaped(b)
      /\ UNCHANGED <<orders, handled, flow_orders, order_index>>
  BY DEF Execute, FlowInv, FlowTyped, BatchTyped, Shaped
<1>2. /\ outputs' = (IF out THEN Append(outputs, Message(b)) ELSE outputs)
      /\ published' = [o \in Orders |-> published[o] +
                         IF out /\ o \in Executed(b) THEN Volume(Fills(b, o)) ELSE 0]
      /\ faults' = 0 => ok /\ out /\ faults = 0
  BY DEF Execute, Fault, FlowInv, FlowTyped, FlowTypeOK
<1> HIDE DEF b
<1>3. /\ L \in Nat /\ DOMAIN outputs = 1 .. L
      /\ out => /\ DOMAIN outputs' = 1 .. (L + 1) /\ outputs'[L + 1] = Message(b)
                /\ \A n \in 1 .. L : outputs'[n] = outputs[n]
  BY <1>2, MessagesOfOrders, AppendProperties
<1>4. DOMAIN Message(b).updates = Executed(b) /\ \A o \in Executed(b) : Message(b).updates[o] = Update(b, o)
  BY DEF Message
<1>5. \A o \in Executed(b) : o \in Orders /\ o \in DOMAIN batch.loaded
  BY <1>1, BatchOrder
<1>6. RowsTrue'
  <2>1. ASSUME NEW n \in DOMAIN outputs', NEW o \in DOMAIN outputs'[n].updates
        PROVE  flow_orders[o].status # "none"
    <3>1. CASE n \in 1 .. L /\ outputs'[n] = outputs[n]
      BY <1>3, <2>1, <3>1 DEF ViewsInv, RowsTrue
    <3>2. CASE outputs'[n] = Message(b)
      BY <1>4, <1>5, <2>1, <3>2 DEF FlowInv, LoadedCurrent
    <3> QED
      BY <1>2, <1>3, <3>1, <3>2
  <2> QED
    BY <1>1, <2>1 DEF ViewsInv, RowsTrue
<1> HIDE DEF L
<1>7. CASE faults' # 0
  BY <1>6, <1>7 DEF ViewsInv, PublishedTrue, ShownTrue, IndexTrue
<1>8. CASE faults' = 0
  <2>0. ok /\ out /\ faults = 0 /\ Executed(batch') = Executed(b)
    BY <1>1, <1>2, <1>8
  <2>1. ASSUME NEW o \in Orders, o \notin Executed(b)
        PROVE  Target(o)' = Target(o) /\ published'[o] = published[o] + 0
    <3>1. Pending(o)' = 0 /\ Pending(o) = 0
      BY <1>1, <2>0, <2>1 DEF Pending
    <3> QED
      BY <1>1, <1>2, <2>1, <3>1 DEF Target
  <2>2. ASSUME NEW o \in Executed(b)
        PROVE  /\ Target(o)' = batch.loaded[o] + Volume(Fills(b, o))
               /\ Target(o) = batch.loaded[o] + 0
               /\ published'[o] = published[o] + Volume(Fills(b, o))
               /\ batch.loaded[o] \in Nat /\ Volume(Fills(b, o)) \in Nat
               /\ [status |-> Update(b, o).status, remaining |-> Update(b, o).remaining]
                    = Shown(o, Target(o)')
    <3>1. /\ Pending(o)' = Volume(Fills(b, o)) /\ Pending(o) = 0
      BY <1>1, <2>0, <2>2 DEF Pending
    <3>2. flow_orders[o].filled = batch.loaded[o] /\ b.loaded = batch.loaded
      BY <1>1, <1>5 DEF FlowInv, LoadedCurrent
    <3>3. Target(o)' = batch.loaded[o] + Volume(Fills(b, o)) /\ Target(o) = batch.loaded[o] + 0
      BY <1>1, <3>1, <3>2 DEF Target
    <3>4. /\ batch.loaded[o] \in Nat /\ Volume(Fills(b, o)) \in Nat
      BY <1>1, <1>5, <3>2, BatchOrder, FlowAssumption
    <3>5. [status |-> Update(b, o).status, remaining |-> Update(b, o).remaining] = Shown(o, Target(o)')
      BY <1>1, <3>2, <3>3, UpdateShown
    <3>6. published'[o] = published[o] + Volume(Fills(b, o))
      BY <1>2, <1>5, <2>0
    <3> QED
      BY <3>3, <3>4, <3>5, <3>6
  <2>3. PublishedTrue'
    <3> SUFFICES ASSUME NEW o \in Orders PROVE published'[o] = Target(o)'
      BY <1>1, <2>0 DEF PublishedTrue
    <3>1. published[o] = Target(o) /\ Target(o) \in Nat
      BY <2>0, TargetFits DEF ViewsInv, PublishedTrue
    <3> QED
      BY <2>1, <2>2, <3>1
  <2>4. IndexTrue'
    <3>1. \A o \in Orders : IndexTarget(o)' = IndexTarget(o)
      BY <1>1 DEF IndexTarget
    <3> QED
      BY <1>1, <2>0, <3>1 DEF ViewsInv, IndexTrue
  <2>6. handled => 1 \in 1 .. L
    BY <1>3 DEF L, FlowInv, FlowTyped, FlowTypeOK, QueuesTyped
  <2>7. ShownTrue'
    <3> SUFFICES ASSUME NEW o \in Orders, LiveOrder(o)
        PROVE /\ (\A k \in DOMAIN outputs' : o \notin DOMAIN outputs'[k].updates)
                   => orders[o] = Shown(o, Target(o)')
              /\ \A n \in DOMAIN outputs' :
                   /\ o \in DOMAIN outputs'[n].updates
                   /\ \A k \in DOMAIN outputs' : k > n => o \notin DOMAIN outputs'[k].updates
                   => [status |-> outputs'[n].updates[o].status,
                       remaining |-> outputs'[n].updates[o].remaining] = Shown(o, Target(o)')
              /\ handled /\ o \in DOMAIN outputs'[1].updates
                   => orders[o] = [status |-> outputs'[1].updates[o].status,
                                   remaining |-> outputs'[1].updates[o].remaining]
      BY <1>1 DEF ShownTrue, LiveOrder, Shown, StatusOf, Mentions, Seen
    <3> DEFINE last == L + 1
               upd == outputs'
    <3>1. /\ DOMAIN upd = 1 .. last /\ last \in 1 .. last /\ \A n \in 1 .. last : n \in 1 .. L \/ n = last
          /\ \A n \in 1 .. L : n \in 1 .. last /\ last > n
      BY <1>3, <2>0
    <3>2. /\ \A n \in 1 .. L : upd[n] = outputs[n]
          /\ upd[last] = Message(b)
      BY <1>3, <2>0
    <3>3. /\ (\A k \in 1 .. L : o \notin DOMAIN outputs[k].updates) => orders[o] = Shown(o, Target(o))
          /\ \A n \in 1 .. L :
               /\ o \in DOMAIN outputs[n].updates
               /\ \A k \in 1 .. L : k > n => o \notin DOMAIN outputs[k].updates
               => [status |-> outputs[n].updates[o].status,
                   remaining |-> outputs[n].updates[o].remaining] = Shown(o, Target(o))
          /\ handled /\ o \in DOMAIN outputs[1].updates
               => orders[o] = [status |-> outputs[1].updates[o].status,
                               remaining |-> outputs[1].updates[o].remaining]
      BY <1>3, <2>0 DEF ViewsInv, ShownTrue, Mentions, Seen
    <3> HIDE DEF last, upd
    <3>4. handled /\ o \in DOMAIN upd[1].updates
            => orders[o] = [status |-> upd[1].updates[o].status, remaining |-> upd[1].updates[o].remaining]
      BY <2>6, <3>2, <3>3
    <3>5. CASE o \in Executed(b)
      <4>1. /\ o \in DOMAIN upd[last].updates
            /\ [status |-> upd[last].updates[o].status, remaining |-> upd[last].updates[o].remaining]
                 = Shown(o, Target(o)')
        BY <1>4, <2>2, <3>2, <3>5
      <4>2. ASSUME NEW n \in 1 .. last, \A k \in 1 .. last : k > n => o \notin DOMAIN upd[k].updates
            PROVE  n = last
        BY <3>1, <4>1, <4>2
      <4> QED
        BY <3>1, <3>4, <4>1, <4>2 DEF upd
    <3>6. CASE o \notin Executed(b)
      <4>1. o \notin DOMAIN upd[last].updates /\ Target(o)' = Target(o)
        BY <1>4, <2>1, <3>2, <3>6
      <4>2. (\A k \in 1 .. last : o \notin DOMAIN upd[k].updates) => orders[o] = Shown(o, Target(o))
        BY <3>1, <3>2, <3>3
      <4>3. ASSUME NEW n \in 1 .. last, o \in DOMAIN upd[n].updates,
                   \A k \in 1 .. last : k > n => o \notin DOMAIN upd[k].updates
            PROVE  [status |-> upd[n].updates[o].status, remaining |-> upd[n].updates[o].remaining]
                     = Shown(o, Target(o))
        <5>1. n \in 1 .. L
          BY <3>1, <4>1, <4>3
        <5>2. \A k \in 1 .. L : k > n => o \notin DOMAIN outputs[k].updates
          BY <3>1, <3>2, <4>3
        <5> QED
          BY <3>2, <3>3, <4>3, <5>1, <5>2
      <4> QED
        BY <3>1, <3>4, <4>1, <4>2, <4>3 DEF upd
    <3> QED
      BY <3>5, <3>6
  <2> QED
    BY <1>6, <2>3, <2>4, <2>7 DEF ViewsInv
<1> QED
  BY <1>7, <1>8

LEMMA RefreshViews ==
  ASSUME FlowInv, ViewsInv, RefreshIndex
  PROVE  ViewsInv'
<1> USE DEF orderFlow
<1>1. /\ UNCHANGED <<published, faults, outputs, orders, handled, flow_orders>> /\ batch.pc = "index"
      /\ batch' = (IF batch.ok THEN [batch EXCEPT !.pc = "persist"] ELSE [Idle EXCEPT !.id = batch.id])
      /\ Shaped(batch) /\ batch.ok \in BOOLEAN
  BY DEF RefreshIndex, FlowInv, FlowTyped, BatchTyped, Shaped
<1>2. /\ batch.ok => /\ batch'.pc = "persist" /\ batch'.ok /\ batch'.exec = batch.exec /\ batch'.loaded = batch.loaded
      /\ ~batch.ok => batch'.pc = "idle"
  BY <1>1 DEF Shaped, Idle
<1>3. ASSUME NEW o \in Orders PROVE Target(o)' = Target(o)
  <2>1. Pending(o)' = Pending(o)
    BY <1>1, <1>2 DEF Pending, Executed, Fills
  <2> QED
    BY <1>1, <2>1 DEF Target
<1>4. RowsTrue' /\ PublishedTrue'
  BY <1>1, <1>2, <1>3 DEF ViewsInv, RowsTrue, PublishedTrue
<1>5. ShownTrue'
  BY <1>1, <1>3 DEF ViewsInv, ShownTrue, LiveOrder, Mentions, Seen, Shown, StatusOf
<1>6. IndexTrue'
  <2> SUFFICES ASSUME faults = 0, NEW o \in Orders
      PROVE /\ order_index'[o].status = "filled" => IndexTarget(o)' = Qty[o]
            /\ order_index'[o].status = "partial" => order_index'[o].filled = IndexTarget(o)'
            /\ order_index'[o].status = "pending" => order_index'[o].filled = 0
    BY <1>1 DEF IndexTrue
  <2>1. /\ order_index[o].status = "filled" => flow_orders[o].filled = Qty[o]
        /\ order_index[o].status = "partial" => order_index[o].filled = flow_orders[o].filled
        /\ order_index[o].status = "pending" => order_index[o].filled = 0
    BY <1>1 DEF ViewsInv, IndexTrue, IndexTarget
  <2>2. /\ flow_orders[o].filled \in Nat /\ Qty[o] \in Nat \ {0} /\ flow_orders[o].filled <= Qty[o]
        /\ Pending(o) \in Nat /\ (o \notin DOMAIN batch.loaded => Pending(o) = 0)
    BY TargetFits DEF FlowInv, FlowTyped, FlowTypeOK
  <2>3. ~batch.ok => DOMAIN batch.loaded = {}
    BY <1>1 DEF ViewsInv, PublishedTrue
  <2>4. IndexTarget(o)' = flow_orders[o].filled + Pending(o)
    <3>1. CASE batch.ok
      BY <1>2, <1>3, <3>1 DEF IndexTarget, Target
    <3>2. CASE ~batch.ok
      BY <1>1, <1>2, <2>2, <2>3, <3>2 DEF IndexTarget
    <3> QED
      BY <3>1, <3>2
  <2>5. order_index'[o] = IF order_index[o] = NoRow THEN NoRow
                          ELSE IF o \in DOMAIN After(batch) THEN Partial(After(batch)[o])
                          ELSE Missing(o, Indexed(batch, o, order_index[o]))
    BY DEF RefreshIndex
  <2>6. CASE order_index'[o] = NoRow
    BY <2>6 DEF NoRow
  <2>7. CASE o \in Executed(batch)
    <3> DEFINE t == batch.loaded[o] + Volume(Fills(batch, o))
    <3>1. o \in DOMAIN batch.loaded /\ batch.ok
      BY <1>1, <2>3, <2>7, BatchOrder
    <3>2. flow_orders[o].filled = batch.loaded[o] /\ Pending(o) = Volume(Fills(batch, o))
      BY <1>1, <2>7, <3>1 DEF FlowInv, LoadedCurrent, Pending
    <3>3. /\ t \in 1 .. Qty[o] /\ (Update(batch, o).status = "FILLED" <=> t = Qty[o])
          /\ Update(batch, o).status # "FILLED" => Update(batch, o).total = t
      BY <1>1, <2>7, UpdateShown
    <3>4. IndexTarget(o)' = t
      BY <2>4, <3>2
    <3> HIDE DEF t
    <3>5. CASE Update(batch, o).status = "FILLED"
      <4>1. o \notin DOMAIN After(batch)
        BY <2>7, <3>1, <3>5 DEF After
      <4>2. Indexed(batch, o, order_index[o]) = [status |-> "filled", filled |-> Update(batch, o).total]
        BY <2>7, <3>5 DEF Indexed
      <4>3. order_index'[o].status \in {"none", "filled"}
        BY <2>5, <4>1, <4>2 DEF Missing, NoRow
      <4> QED
        BY <3>3, <3>4, <3>5, <4>3
    <3>6. CASE Update(batch, o).status # "FILLED"
      <4>1. o \in DOMAIN After(batch) /\ After(batch)[o] = t
        BY <2>7, <3>1, <3>3, <3>6 DEF After
      <4>2. order_index'[o] = NoRow \/ order_index'[o] = [status |-> "partial", filled |-> t]
        BY <2>2, <2>5, <3>3, <4>1 DEF Partial
      <4> QED
        BY <3>4, <4>2 DEF NoRow
    <3> QED
      BY <3>5, <3>6
  <2>8. CASE o \notin Executed(batch) /\ o \in DOMAIN batch.loaded
    <3>1. o \in DOMAIN After(batch) /\ After(batch)[o] = batch.loaded[o]
      BY <2>8 DEF After
    <3>2. flow_orders[o].filled = batch.loaded[o] /\ Pending(o) = 0
      BY <2>8 DEF FlowInv, LoadedCurrent, Pending
    <3>3. order_index'[o] = NoRow \/ order_index'[o] = Partial(flow_orders[o].filled)
      BY <2>5, <3>1, <3>2
    <3> QED
      BY <2>2, <2>4, <3>2, <3>3 DEF NoRow, Partial
  <2>9. CASE o \notin DOMAIN batch.loaded
    <3>1. o \notin DOMAIN After(batch) /\ o \notin Executed(batch)
      BY <1>1, <2>9, BatchOrder DEF After
    <3>2. order_index'[o] = NoRow \/ order_index'[o] = Missing(o, order_index[o])
      BY <2>5, <3>1 DEF Indexed
    <3>3. IndexTarget(o)' = flow_orders[o].filled
      BY <2>2, <2>4, <2>9
    <3> QED
      BY <2>1, <2>2, <3>2, <3>3 DEF NoRow, Missing
  <2> QED
    BY <2>7, <2>8, <2>9
<1> QED
  BY <1>4, <1>5, <1>6 DEF ViewsInv

LEMMA PersistViews ==
  ASSUME FlowInv, ViewsInv, UpdateFilledVolumes
  PROVE  ViewsInv'
<1> USE DEF orderFlow
<1>1. /\ UNCHANGED <<published, outputs, orders, handled, order_index>>
      /\ batch.pc = "persist" /\ batch'.pc = "idle" /\ batch.ok /\ Shaped(batch) /\ faults \in Nat
  BY DEF UpdateFilledVolumes, FlowInv, FlowTyped, FlowTypeOK, BatchTyped, Shaped, Idle
<1>2. CASE Fault /\ UNCHANGED flow_orders
  <2>1. faults' # 0
    BY <1>1, <1>2 DEF Fault
  <2>2. RowsTrue'
    BY <1>1, <1>2 DEF ViewsInv, RowsTrue
  <2> QED
    BY <2>1, <2>2 DEF ViewsInv, PublishedTrue, ShownTrue, IndexTrue
<1>3. CASE /\ flow_orders' = [o \in Orders |->
                IF o \in Executed(batch) /\ Volume(Fills(batch, o)) > 0
                THEN FilledVolume(o, Volume(Fills(batch, o))) ELSE flow_orders[o]]
           /\ UNCHANGED faults
  <2>1. ASSUME NEW o \in Orders
        PROVE  /\ flow_orders'[o].filled = Target(o)
               /\ flow_orders'[o] = flow_orders[o] \/
                    flow_orders'[o].status = IF Target(o) = Qty[o] THEN "filled" ELSE "partially_filled"
    <3>1. /\ flow_orders[o].filled \in Nat /\ Qty[o] \in Nat /\ Pending(o) \in Nat
          /\ Target(o) = flow_orders[o].filled + Pending(o) /\ Target(o) <= Qty[o]
      BY TargetFits DEF Target
    <3>2. CASE o \in Executed(batch) /\ Volume(Fills(batch, o)) > 0
      <4>1. Pending(o) = Volume(Fills(batch, o))
        BY <1>1, <3>2 DEF Pending
      <4>2. flow_orders'[o] = FilledVolume(o, Pending(o))
        BY <1>3, <3>2, <4>1
      <4> QED
        BY <3>1, <4>2 DEF FilledVolume, Lower
    <3>3. CASE ~(o \in Executed(batch) /\ Volume(Fills(batch, o)) > 0)
      <4>1. Pending(o) = 0
        BY <3>1, <3>3 DEF Pending
      <4>2. flow_orders'[o] = flow_orders[o]
        BY <1>3, <3>3
      <4> QED
        BY <3>1, <4>1, <4>2
    <3> QED
      BY <3>2, <3>3
  <2>2. ASSUME NEW o \in Orders PROVE Target(o)' = Target(o) /\ IndexTarget(o)' = IndexTarget(o)
    <3>1. Pending(o)' = 0
      BY <1>1 DEF Pending
    <3>2. Target(o) \in Nat
      BY TargetFits
    <3> QED
      BY <1>1, <2>1, <3>1, <3>2 DEF Target, IndexTarget
  <2>3. RowsTrue'
    <3>1. ASSUME NEW o \in Orders, flow_orders'[o].filled = Qty[o] PROVE flow_orders'[o].status = "filled"
      BY <2>1, <3>1 DEF ViewsInv, RowsTrue
    <3>2. ASSUME NEW n \in DOMAIN outputs, NEW o \in DOMAIN outputs[n].updates
          PROVE  flow_orders'[o].status # "none"
      <4>1. o \in Orders /\ flow_orders[o].status # "none"
        BY MessagesOfOrders DEF ViewsInv, RowsTrue
      <4> QED
        BY <2>1, <4>1
    <3> QED
      BY <1>1, <3>1, <3>2 DEF RowsTrue
  <2>4. PublishedTrue' /\ IndexTrue'
    BY <1>1, <1>3, <2>2 DEF ViewsInv, PublishedTrue, IndexTrue
  <2>5. ShownTrue'
    BY <1>1, <1>3, <2>2 DEF ViewsInv, ShownTrue, LiveOrder, Mentions, Seen, Shown, StatusOf
  <2> QED
    BY <2>3, <2>4, <2>5 DEF ViewsInv
<1> QED
  BY <1>2, <1>3 DEF UpdateFilledVolumes

LEMMA ViewsStep == FlowInv /\ FlowInv' /\ ViewsInv /\ [NextFlow]_flowVars => ViewsInv'
<1> SUFFICES ASSUME FlowInv, FlowInv', ViewsInv, [NextFlow]_flowVars PROVE ViewsInv'
  OBVIOUS
<1>1. ASSUME NEW o \in Orders, OrderCall(o) PROVE ViewsInv'
  BY <1>1, OrderCallViews
<1>2. ASSUME NEW exec \in [DOMAIN batch.loaded -> Executions],
             NEW out \in BOOLEAN, NEW ok \in BOOLEAN, Execute(exec, out, ok)
      PROVE  ViewsInv'
  BY <1>2, ExecuteViews
<1>3. CASE MatchingRestarts
  <2>1. faults' # 0 /\ UNCHANGED <<flow_orders, outputs>>
    BY <1>3 DEF MatchingRestarts, Fault, FlowInv, FlowTyped, FlowTypeOK
  <2> QED
    BY <2>1 DEF ViewsInv, RowsTrue, PublishedTrue, ShownTrue, IndexTrue
<1>4. CASE UNCHANGED flowVars
  BY <1>4, CallKeepsViews DEF flowVars, orderFlow, matching
<1> QED
  BY <1>1, <1>2, <1>3, <1>4, RestartViews, ApplyViews, CommitViews, EventViews, LoadViews,
     RefreshViews, PersistViews
  DEF NextFlow, TimerThread

(* At rest and without failures order_flow, flow_orders, order_index_ and  *)
(* the published volume agree, for any orders, fills and batches: the      *)
(* update of the solver, made from uncapped fills, says what the capped    *)
(* ones make of the row, though order_flow applies only the first fill of  *)
(* an order and may see a batch twice.                                     *)
THEOREM ViewsAreHonest == FlowSpec => []ViewsHonest
<1>1. FlowInv /\ ViewsInv => ViewsHonest
  <2> SUFFICES ASSUME FlowInv, ViewsInv PROVE ViewsHonest
    OBVIOUS
  <2>1. FlowTypeOK
    BY DEF FlowInv, FlowTyped
  <2>2. ASSUME batch.pc = "idle", NEW o \in Orders
        PROVE  Target(o) = flow_orders[o].filled /\ IndexTarget(o) = flow_orders[o].filled
    <3>1. Pending(o) = 0 /\ flow_orders[o].filled \in Nat
      BY <2>2, TargetFits DEF Pending
    <3> QED
      BY <2>2, <3>1 DEF Target, IndexTarget
  <2>3. ViewsAgree
    <3> SUFFICES ASSUME batch.pc = "idle", outputs = <<>>, faults = 0,
                        NEW o \in Orders, orders[o].status \notin {"NONE", "CANCELED"}
                 PROVE  /\ published[o] = flow_orders[o].filled
                        /\ orders[o] = Shown(o, flow_orders[o].filled)
      BY DEF ViewsAgree, Shown
    <3>1. DOMAIN outputs = {}
      OBVIOUS
    <3> QED
      BY <2>2, <3>1 DEF ViewsInv, PublishedTrue, ShownTrue, LiveOrder
  <2>4. IndexHonest
    BY <2>2 DEF IndexHonest, ViewsInv, IndexTrue, RowsTrue
  <2> QED
    BY <2>1, <2>3, <2>4 DEF ViewsHonest
<1> QED
  BY <1>1, ViewsInit, ViewsStep, FlowInvariant, PTL DEF FlowSpec
=============================================================================

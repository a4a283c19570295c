------------------------------- MODULE Ledger -------------------------------
(***************************************************************************)
(* The settlement ledger (cpp/ledger): in-memory balances, reservations    *)
(* and positions guarded by one mutex, and the PostgreSQL tables written   *)
(* outside that mutex.                                                     *)
(*                                                                         *)
(* Threads:                                                                *)
(*   - gRPC threads run ReserveFunds / ReleaseFunds.  The in-memory part   *)
(*     is one critical section; the mirror into the PG table `accounts'    *)
(*     follows after the unlock (`mirrors' holds the calls in between);    *)
(*   - the batch.outputs consumer runs ApplyBatchResult: the idempotency   *)
(*     check before the lock, a critical section (fills, then terminal     *)
(*     order updates, then the sweep), then the PG writes fill by fill,    *)
(*     then MarkBatchProcessed.  `worker' is its program counter;          *)
(*   - the execution.groups consumer runs ApplyExecutionGroup, one         *)
(*     critical section over the legs (`gworker').                         *)
(* Kafka delivers at least once: a batch or a group may be delivered any   *)
(* number of times.  A crash loses everything but the PG tables.           *)
(***************************************************************************)
EXTENDS Integers, Sequences, FiniteSets, Functions, Positions

CONSTANTS
  Users, Instruments, Currencies,
  BaseOf,       \* Instruments -> Currencies
  QuoteOf,      \* Instruments -> Currencies
  Orders,       \* reservation ids; order_flow uses the order id
  OrderInfo,    \* Orders -> [user, ins, side, qty, price_high]
  BatchSet,     \* the BatchResult messages that may arrive
  GroupSet,     \* the ExecutionGroup messages that may arrive
  InitBalance,  \* Users -> Currencies -> Nat, the seeded available balance
  InitPosition, \* Users -> Instruments -> Position, the seeded positions
  MaxPgFaults,  \* bound on PG transactions that fail
  MaxCrashes    \* bound on restarts of the service

(* One fill of BatchResult.fills; the notional is qty * price.             *)
Fill == [order : Orders, user : Users, ins : Instruments, side : Sides,
         qty : Nat \ {0}, price : Nat \ {0}, fee : Nat]

Leg == [ins : Instruments, side : Sides, qty : Nat \ {0}, price : Nat \ {0}]

ASSUME ConstantsAssumption ==
  /\ BaseOf \in [Instruments -> Currencies]
  /\ QuoteOf \in [Instruments -> Currencies]
  /\ OrderInfo \in [Orders -> [user : Users, ins : Instruments, side : Sides,
                               qty : Nat \ {0}, price_high : Nat \ {0}]]
  /\ InitBalance \in [Users -> [Currencies -> Nat]]
  /\ InitPosition \in [Users -> [Instruments -> Position]]
  /\ MaxPgFaults \in Nat
  /\ MaxCrashes \in Nat

(* Each instrument has its own base, and no base is a quote currency.      *)
ASSUME BaseAssumption ==
  /\ \A i, j \in Instruments : BaseOf[i] = BaseOf[j] => i = j
  /\ \A i, j \in Instruments : BaseOf[i] # QuoteOf[j]

ASSUME BatchAssumption ==
  /\ \A b \in BatchSet : /\ b.fills \in Seq(Fill)
                         /\ b.terminal \in Seq(Orders)
  /\ \A a, b \in BatchSet : a.id = b.id => a = b

(* The solver copies user, instrument and side of a fill from its order.   *)
ASSUME FillAssumption ==
  \A b \in BatchSet : \A i \in DOMAIN b.fills :
    LET f == b.fills[i]
        o == OrderInfo[f.order]
    IN  f.user = o.user /\ f.ins = o.ins /\ f.side = o.side

ASSUME GroupAssumption == \A g \in GroupSet : /\ g.user \in Users
                                              /\ g.legs \in Seq(Leg)

BatchIds == {b.id : b \in BatchSet}
GroupIds == {g.id : g \in GroupSet}

(* The PG tables that record a fill.                                       *)
Tables == {"ledger_positions", "ledger_entries", "accounts"}
Postings == UNION {Tables \X {b} \X DOMAIN b.fills : b \in BatchSet}

VARIABLES
  balances,       \* Users -> Currencies -> [available, reserved]
  reservations,   \* open reservations: order id -> amount left
  positions,      \* Users -> Instruments -> Position
  seen_execution_group_ids,
  requested,      \* order ids order_flow has sent to ReserveFunds
  worker,         \* batch consumer: [pc, batch, i]
  gworker,        \* group consumer: [pc, group, i]
  mirrors,        \* gRPC calls between unlock and their PG mirror
  accounts,       \* PG accounts: Users -> Currencies -> [free, reserved]
  posted,         \* PG: how often <<table, batch, fill>> was written
  processed_batches,  \* PG processed_batches
  positions_update,   \* positions.update topic: <<user, batch id>>
  pgFaults,       \* PG failures so far
  crashes         \* restarts so far

mem == <<balances, reservations, positions, seen_execution_group_ids>>
pg  == <<accounts, posted, processed_batches>>
vars == <<mem, requested, worker, gworker, mirrors, pg, positions_update,
          pgFaults, crashes>>
-----------------------------------------------------------------------------
(* The critical sections of the two consumers.                             *)
LockedPCs == {"fills", "updates", "sweep"}
Locked == worker.pc \in LockedPCs \/ gworker.pc = "legs"

Idle  == [pc |-> "idle"]
Total(u, c) == balances[u][c].available + balances[u][c].reserved

ReserveCurrency(o) ==
  IF OrderInfo[o].side = "BUY" THEN QuoteOf[OrderInfo[o].ins]
                               ELSE BaseOf[OrderInfo[o].ins]
ReserveAmount(o) ==
  IF OrderInfo[o].side = "BUY" THEN OrderInfo[o].qty * OrderInfo[o].price_high
                               ELSE OrderInfo[o].qty

(* A posting on one balance of the table b.                                *)
Post(b, u, c, dAvailable, dReserved) ==
  [b EXCEPT ![u][c] = [available |-> @.available + dAvailable,
                       reserved  |-> @.reserved + dReserved]]

ToReserved(b, u, c, x)  == Post(b, u, c, -x, x)
(* Mutation: credited, not taken from reserved.                          *)
CreditAvailable(b, u, c, x) == Post(b, u, c, x, 0)
ToAvailable(b, u, c, x) == Post(b, u, c, x, -x)

(* The same on the PG table `accounts'.                                    *)
PostAccount(a, u, c, dFree, dReserved) ==
  [a EXCEPT ![u][c] = [free |-> @.free + dFree, reserved |-> @.reserved + dReserved]]

(* CHECK constraints accounts_*_nonneg.                                    *)
(* Mutation: no CHECK constraint.                                        *)
NoCheck(free, reserved) == TRUE
CheckNonNeg(free, reserved) == free >= 0 /\ reserved >= 0

Remove(f, o) == [x \in DOMAIN f \ {o} |-> f[x]]

(* A PG transaction commits, or fails within the fault budget.             *)
PgCommits == UNCHANGED pgFaults
PgFails   == pgFaults < MaxPgFaults /\ pgFaults' = pgFaults + 1

InitMem(b, r, p, s) ==
  /\ b = [u \in Users |-> [c \in Currencies |->
             [available |-> InitBalance[u][c], reserved |-> 0]]]
  /\ r = [o \in {} |-> 0]
  /\ p = InitPosition
  /\ s = {}

Init ==
  /\ InitMem(balances, reservations, positions, seen_execution_group_ids)
  /\ requested = {}
  /\ worker = Idle
  /\ gworker = Idle
  /\ mirrors = {}
  /\ accounts = [u \in Users |-> [c \in Currencies |->
                   [free |-> InitBalance[u][c], reserved |-> 0]]]
  /\ posted = [k \in Postings |-> 0]
  /\ processed_batches = {}
  /\ positions_update = {}
  /\ pgFaults = 0
  /\ crashes = 0
-----------------------------------------------------------------------------
(* Mutation: the funds check is dropped.                                 *)
NeverShort(o) == FALSE
Short(o) ==
  balances[OrderInfo[o].user][ReserveCurrency(o)].available < ReserveAmount(o)

(* gRPC ReserveFunds with answer `ok': idempotent on the reservation id,   *)
(* refused when the available balance is short, otherwise available ->     *)
(* reserved and the PG mirror is due.  order_flow makes a new id for every *)
(* order, so a reservation that is gone is never asked for again.          *)
ReserveFunds(o, ok) ==
  LET u == OrderInfo[o].user
      c == ReserveCurrency(o)
      want == ReserveAmount(o)
  IN
  /\ ~Locked
  /\ o \in requested => o \in DOMAIN reservations
  /\ requested' = requested \cup {o}
  /\ \/ /\ o \in DOMAIN reservations
        /\ ok
        /\ UNCHANGED <<balances, reservations, mirrors>>
     \/ /\ o \notin DOMAIN reservations
        /\ Short(o)
        /\ ~ok
        /\ UNCHANGED <<balances, reservations, mirrors>>
     \/ /\ o \notin DOMAIN reservations
        /\ ~Short(o)
        /\ ok
        /\ balances' = ToReserved(balances, u, c, want)
        /\ reservations' = [x \in DOMAIN reservations \cup {o} |->
                               IF x = o THEN want ELSE reservations[x]]
        /\ mirrors' = mirrors \cup {[op |-> "reserve", order |-> o, amount |-> want]}
  /\ UNCHANGED <<positions, seen_execution_group_ids, worker, gworker, pg,
                 positions_update, pgFaults, crashes>>

(* gRPC ReleaseFunds: nothing when the reservation is gone, otherwise what *)
(* is left of it goes back to available.  order_flow releases a            *)
(* reservation only after its ReserveFunds call has returned.              *)
ReleaseFunds(o) ==
  LET u == OrderInfo[o].user
      c == ReserveCurrency(o)
  IN
  /\ ~Locked
  /\ \A m \in mirrors : m.op = "reserve" => m.order # o
  /\ \/ /\ o \notin DOMAIN reservations
        /\ UNCHANGED vars
     \/ /\ o \in DOMAIN reservations
        /\ balances' = ToAvailable(balances, u, c, reservations[o])
        /\ reservations' = Remove(reservations, o)
        /\ mirrors' = mirrors \cup {[op |-> "release", order |-> o,
                                     amount |-> reservations[o]]}
        /\ UNCHANGED <<positions, seen_execution_group_ids, worker, gworker, pg,
                       positions_update, pgFaults, crashes, requested>>

(* AccountReserveTxPort::ReserveTx / ReleaseTx after the unlock: one       *)
(* UPDATE of `accounts' that the CHECK constraints (both balances >= 0)    *)
(* reject as a whole.  A rejected or failed mirror is logged and dropped.  *)
MirrorToAccounts(m) ==
  LET u == OrderInfo[m.order].user
      c == ReserveCurrency(m.order)
      d == IF m.op = "reserve" THEN m.amount ELSE -m.amount
      valid == CheckNonNeg(accounts[u][c].free - d, accounts[u][c].reserved + d)
  IN
  /\ m \in mirrors
  /\ mirrors' = mirrors \ {m}
  /\ \/ /\ PgCommits
        /\ accounts' = IF valid THEN PostAccount(accounts, u, c, -d, d) ELSE accounts
     \/ PgFails /\ UNCHANGED accounts
  /\ UNCHANGED <<mem, worker, gworker, posted, processed_batches,
                 positions_update, crashes, requested>>
-----------------------------------------------------------------------------
(* Mutation: the idempotency check is dropped.                           *)
NeverProcessed(b) == FALSE
IsBatchProcessed(b) == b.id \in processed_batches

(* ApplyBatchResult, step by step.  The idempotency check runs before the  *)
(* lock; a PG error there counts as "not processed".                       *)
BeginBatch(b) ==
  /\ worker.pc = "idle"
  /\ \/ PgCommits /\ ~IsBatchProcessed(b)
     \/ PgFails
  /\ worker' = [pc |-> "enter", batch |-> b, i |-> 1]
  /\ UNCHANGED <<mem, gworker, mirrors, pg, positions_update, crashes, requested>>

WorkerAt(pc) == worker.pc = pc
Goto(pc, i)  == worker' = [pc |-> pc, batch |-> worker.batch, i |-> i]

LockForBatch ==
  /\ WorkerAt("enter") /\ ~Locked
  /\ Goto("fills", 1)
  /\ UNCHANGED <<mem, gworker, mirrors, pg, positions_update, pgFaults, crashes, requested>>

(* What a fill takes out of reserved and what it adds to available.        *)
SpendCurrency(f) == IF f.side = "BUY" THEN QuoteOf[f.ins] ELSE BaseOf[f.ins]
GainCurrency(f)  == IF f.side = "BUY" THEN BaseOf[f.ins] ELSE QuoteOf[f.ins]
Spend(f) == IF f.side = "BUY" THEN f.qty * f.price ELSE f.qty
Gain(f)  == IF f.side = "BUY" THEN f.qty ELSE f.qty * f.price

(* One fill: reserved pays whether or not the reservation is still open,   *)
(* the position moves, the fee comes out of available and realised PnL.    *)
SettleFill ==
  LET f == worker.batch.fills[worker.i]
      spent  == Post(balances, f.user, SpendCurrency(f), 0, -Spend(f))
      gained == Post(spent, f.user, GainCurrency(f), Gain(f), 0)
      p == ApplySignedFill(positions[f.user][f.ins], f.side, f.qty, f.price)
  IN
  /\ WorkerAt("fills")
  /\ worker.i \in DOMAIN worker.batch.fills
  /\ balances' = Post(gained, f.user, QuoteOf[f.ins], -f.fee, 0)
  /\ reservations' = [x \in DOMAIN reservations |->
        IF x = f.order THEN reservations[x] - Spend(f) ELSE reservations[x]]
  /\ positions' = [positions EXCEPT ![f.user][f.ins] =
                     [amount |-> p.amount, avg |-> p.avg, pnl |-> p.pnl - f.fee]]
  /\ Goto("fills", worker.i + 1)
  /\ UNCHANGED <<seen_execution_group_ids, gworker, mirrors, pg,
                 positions_update, pgFaults, crashes, requested>>

EndFills ==
  /\ WorkerAt("fills")
  /\ worker.i \notin DOMAIN worker.batch.fills
  /\ Goto("updates", 1)
  /\ UNCHANGED <<mem, gworker, mirrors, pg, positions_update, pgFaults, crashes, requested>>

(* Mutation: the leftover is not given back.                             *)
NoLeftover(o) == 0
Leftover(o) == IF o \in DOMAIN reservations /\ reservations[o] > 0
               THEN reservations[o] ELSE 0

(* A terminal order_update gives the leftover of the reservation back and  *)
(* erases it, in memory only.                                              *)
ReleaseTerminal ==
  LET o == worker.batch.terminal[worker.i]
      u == OrderInfo[o].user
      c == ReserveCurrency(o)
  IN
  /\ WorkerAt("updates")
  /\ worker.i \in DOMAIN worker.batch.terminal
  /\ balances' = ToAvailable(balances, u, c, Leftover(o))
  /\ reservations' = Remove(reservations, o)
  /\ Goto("updates", worker.i + 1)
  /\ UNCHANGED <<positions, seen_execution_group_ids, gworker, mirrors, pg,
                 positions_update, pgFaults, crashes, requested>>

EndUpdates ==
  /\ WorkerAt("updates")
  /\ worker.i \notin DOMAIN worker.batch.terminal
  /\ Goto("sweep", 1)
  /\ UNCHANGED <<mem, gworker, mirrors, pg, positions_update, pgFaults, crashes, requested>>

(* Erase the reservations that are used up, then unlock.                   *)
SweepConsumed ==
  /\ WorkerAt("sweep")
  /\ reservations' = [x \in {o \in DOMAIN reservations : reservations[o] > 0} |->
                         reservations[x]]
  /\ Goto("ledger_positions", 1)
  /\ UNCHANGED <<balances, positions, seen_execution_group_ids, gworker, mirrors,
                 pg, positions_update, pgFaults, crashes, requested>>

(* Persistence of fill i, outside the lock: three transactions in a row,   *)
(* each of which may fail on its own (logged, and the batch goes on).      *)
Persisting == worker.i \in DOMAIN worker.batch.fills

Posted(t) ==
  posted' = [posted EXCEPT ![<<t, worker.batch, worker.i>>] = @ + 1]

PersistLegacy(t, next) ==
  /\ WorkerAt(t) /\ Persisting
  /\ \/ PgCommits /\ Posted(t)
     \/ PgFails /\ UNCHANGED posted
  /\ Goto(next, worker.i)
  /\ UNCHANGED <<mem, gworker, mirrors, accounts, processed_batches,
                 positions_update, crashes, requested>>

(* PositionsRepositoryPort::ApplyFill, then CreateEntriesForFill.          *)
PersistPosition == PersistLegacy("ledger_positions", "ledger_entries")
PersistEntries  == PersistLegacy("ledger_entries", "accounts")

(* PositionAccountTxPort::ApplyFillTx: the account deltas of the fill in   *)
(* one transaction, rejected as a whole by the CHECK constraints.  The     *)
(* position row it upserts is a snapshot taken under the mutex.            *)
ApplyFillTx ==
  LET f == worker.batch.fills[worker.i]
      paid   == PostAccount(accounts, f.user, SpendCurrency(f), 0, -Spend(f))
      after  == PostAccount(paid, f.user, GainCurrency(f), Gain(f), 0)
      valid  == CheckNonNeg(0, accounts[f.user][SpendCurrency(f)].reserved - Spend(f))
  IN
  /\ WorkerAt("accounts") /\ Persisting /\ ~Locked
  /\ \/ /\ PgCommits
        /\ valid
        /\ accounts' = after
        /\ Posted("accounts")
     \/ /\ (PgCommits /\ ~valid) \/ PgFails
        /\ UNCHANGED <<accounts, posted>>
  /\ Goto("ledger_positions", worker.i + 1)
  /\ UNCHANGED <<mem, gworker, mirrors, processed_batches,
                 positions_update, crashes, requested>>

(* MarkBatchProcessed (best effort), then one positions.update signal per  *)
(* user of the batch; the handler returns and the offset is committed.     *)
MarkBatchProcessed ==
  LET b == worker.batch IN
  /\ WorkerAt("ledger_positions") /\ ~Persisting
  /\ \/ PgCommits /\ processed_batches' = processed_batches \cup {b.id}
     \/ PgFails /\ UNCHANGED processed_batches
  /\ positions_update' = positions_update \cup
        {<<b.fills[i].user, b.id>> : i \in DOMAIN b.fills}
  /\ worker' = Idle
  /\ UNCHANGED <<mem, gworker, mirrors, accounts, posted, crashes, requested>>

BatchThread ==
  \/ LockForBatch \/ SettleFill \/ EndFills \/ ReleaseTerminal \/ EndUpdates
  \/ SweepConsumed \/ PersistPosition \/ PersistEntries \/ ApplyFillTx
  \/ MarkBatchProcessed
-----------------------------------------------------------------------------
(* ApplyExecutionGroup: an empty group and a group seen before are         *)
(* skipped; the legs settle straight from available, inside the lock.      *)
BeginGroup(g) ==
  /\ gworker.pc = "idle" /\ ~Locked
  /\ g.legs # << >>
  /\ g.id \notin seen_execution_group_ids
  /\ seen_execution_group_ids' = seen_execution_group_ids \cup {g.id}
  /\ gworker' = [pc |-> "legs", group |-> g, i |-> 1]
  /\ UNCHANGED <<balances, reservations, positions, worker, mirrors, pg,
                 positions_update, pgFaults, crashes, requested>>

SettleLeg ==
  LET g == gworker.group
      l == g.legs[gworker.i]
      spent == Post(balances, g.user, SpendCurrency(l), -Spend(l), 0)
  IN
  /\ gworker.pc = "legs"
  /\ gworker.i \in DOMAIN g.legs
  /\ balances' = Post(spent, g.user, GainCurrency(l), Gain(l), 0)
  /\ positions' = [positions EXCEPT ![g.user][l.ins] =
                     ApplySignedFill(@, l.side, l.qty, l.price)]
  /\ gworker' = [pc |-> "legs", group |-> g, i |-> gworker.i + 1]
  /\ UNCHANGED <<reservations, seen_execution_group_ids, worker, mirrors, pg,
                 positions_update, pgFaults, crashes, requested>>

EndGroup ==
  /\ gworker.pc = "legs"
  /\ gworker.i \notin DOMAIN gworker.group.legs
  /\ gworker' = Idle
  /\ UNCHANGED <<mem, worker, mirrors, pg, positions_update, pgFaults, crashes, requested>>

(* A restart: every thread dies and the in-memory state is seeded again;   *)
(* nothing is read back from PG.                                           *)
Crash ==
  /\ crashes < MaxCrashes
  /\ crashes' = crashes + 1
  /\ InitMem(balances', reservations', positions', seen_execution_group_ids')
  /\ worker' = Idle
  /\ gworker' = Idle
  /\ mirrors' = {}
  /\ UNCHANGED <<pg, positions_update, pgFaults, requested>>

Next ==
  \/ \E o \in Orders : \E ok \in BOOLEAN : ReserveFunds(o, ok)
  \/ \E o \in Orders : ReleaseFunds(o)
  \/ \E m \in mirrors : MirrorToAccounts(m)
  \/ \E b \in BatchSet : BeginBatch(b)
  \/ BatchThread
  \/ \E g \in GroupSet : BeginGroup(g)
  \/ SettleLeg
  \/ EndGroup
  \/ Crash

Spec == Init /\ [][Next]_vars
-----------------------------------------------------------------------------
Balance == [available : Int, reserved : Int]
Account == [free : Nat, reserved : Nat]
BatchPCs == {"enter"} \cup LockedPCs \cup Tables
Mirror == [op : {"reserve", "release"}, order : Orders, amount : Int]

(* Types of the in-memory state and of the PG tables; the CHECK            *)
(* constraints accounts_*_nonneg make both account columns naturals.       *)
TypeOK ==
  /\ balances \in [Users -> [Currencies -> Balance]]
  /\ DOMAIN reservations \subseteq Orders
  /\ reservations \in [DOMAIN reservations -> Int]
  /\ positions \in [Users -> [Instruments -> Position]]
  /\ seen_execution_group_ids \subseteq GroupIds
  /\ requested \subseteq Orders
  /\ worker \in {Idle} \cup [pc : BatchPCs, batch : BatchSet, i : Nat \ {0}]
  /\ gworker \in {Idle} \cup [pc : {"legs"}, group : GroupSet, i : Nat \ {0}]
  /\ mirrors \subseteq Mirror
  /\ accounts \in [Users -> [Currencies -> Account]]
  /\ posted \in [Postings -> Nat]
  /\ processed_batches \subseteq BatchIds
  /\ positions_update \subseteq Users \X BatchIds
  /\ pgFaults \in 0 .. MaxPgFaults
  /\ crashes \in 0 .. MaxCrashes

(* What the open reservations of an account add up to.                     *)
SumReserved(u, c) ==
  SumFunctionOnSet(reservations,
    {o \in DOMAIN reservations : OrderInfo[o].user = u /\ ReserveCurrency(o) = c})

(* T-F06-023 (buy-reserve-leak): outside the critical sections no money    *)
(* stays in `reserved' without an open reservation behind it, whatever the *)
(* order of reserve, release, cancelled-then-filled and terminal updates.  *)
ReservedNeverLeaks ==
  ~Locked => \A u \in Users, c \in Currencies :
               balances[u][c].reserved <= SumReserved(u, c)

(* Without fees and combo groups, which debit `available' unchecked, no    *)
(* interleaving of reserve, release and settlement overdraws a user.       *)
AvailableNonNegative ==
  (/\ seen_execution_group_ids = {}
   /\ \A b \in BatchSet : \A i \in DOMAIN b.fills : b.fills[i].fee = 0)
  => \A u \in Users, c \in Currencies : balances[u][c].available >= 0

(* The position of an instrument and the holdings of its base currency are *)
(* kept by different code paths, and since the seed they have moved by the *)
(* same amount: fills, combo legs, cancels and restarts included.          *)
PositionTracksHoldings ==
  \A u \in Users, i \in Instruments :
    positions[u][i].amount - InitPosition[u][i].amount =
      Total(u, BaseOf[i]) - InitBalance[u][BaseOf[i]]

(* ApplyBatchResult is idempotent up to faults: a fill is written to a     *)
(* table more than once only if a PG call failed or the service restarted, *)
(* once more for each of them.                                             *)
PostedAtMostOncePlusFaults ==
  \A k \in Postings : posted[k] <= 1 + pgFaults + crashes

(* ADR-044: accounts.reserved_balance is the sum of the open reservations. *)
(* Stated only where every thread has finished its call, nothing failed    *)
(* and nothing restarted.                                                  *)
Quiescent == worker = Idle /\ gworker = Idle /\ mirrors = {}
AccountsMirrorReservations ==
  (Quiescent /\ pgFaults = 0 /\ crashes = 0) =>
     \A u \in Users, c \in Currencies :
        accounts[u][c].reserved = SumReserved(u, c)

(* Reserving, releasing, terminal release and the PG writes move money     *)
(* between available and reserved; only a fill, a combo leg or a restart   *)
(* changes what a user owns.                                               *)
FundsMoveOnlyOnSettlement ==
  [][(worker.pc # "fills" /\ gworker.pc # "legs" /\ crashes' = crashes)
     => \A u \in Users, c \in Currencies : Total(u, c)' = Total(u, c)]_vars
=============================================================================

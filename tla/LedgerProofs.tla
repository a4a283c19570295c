---------------------------- MODULE LedgerProofs ----------------------------
(***************************************************************************)
(* Theorems about Ledger and HedgeBook, for every set of users, hedges,    *)
(* instruments, orders, batches and groups and every bound on faults and   *)
(* restarts.                                                               *)
(***************************************************************************)
EXTENDS Ledger, HedgeBook, InductionLemmas

(* Decimal::div at a fixed scale yields a number of that scale.            *)
LEMMA DivHalfUpType ==
  ASSUME NEW n \in Int, NEW d \in Nat \ {0}
  PROVE  DivHalfUp(n, d) \in Int
  BY DEF DivHalfUp

(* apply_signed_fill keeps a position well formed and moves the net        *)
(* amount by exactly the signed quantity, through every case of the code.  *)
LEMMA ApplySignedFillType ==
  ASSUME NEW p \in Position, NEW s \in Sides, NEW q \in Nat \ {0}, NEW x \in Nat \ {0}
  PROVE  /\ ApplySignedFill(p, s, q, x) \in Position
         /\ ApplySignedFill(p, s, q, x).amount = p.amount + Dir(s) * q
<1> DEFINE d == Dir(s)
<1>1. d \in {1, -1}
  BY DEF Dir
<1>2. Abs(p.amount) \in Nat
  BY DEF Position, Abs
<1>3. CASE p.amount * d >= 0
  <2>1. Abs(p.amount) * p.avg + q * x \in Int
    BY <1>2 DEF Position
  <2>2. Abs(p.amount) + q \in Nat \ {0}
    BY <1>2
  <2>3. DivHalfUp(Abs(p.amount) * p.avg + q * x, Abs(p.amount) + q) \in Int
    BY <2>1, <2>2, DivHalfUpType
  <2>4. p.amount + d * q \in Int
    BY <1>1 DEF Position
  <2>5. ApplySignedFill(p, s, q, x) = Increase(p, d, q, x)
    BY <1>3 DEF ApplySignedFill
  <2> QED
    BY <2>3, <2>4, <2>5 DEF Increase, Position
<1>4. CASE ~(p.amount * d >= 0)
  <2>1. ApplySignedFill(p, s, q, x) = Reduce(p, d, q, x)
    BY <1>4 DEF ApplySignedFill
  <2>2. Lesser(q, Abs(p.amount)) \in Int
    BY <1>2 DEF Lesser
  <2>3. Realised(p, Lesser(q, Abs(p.amount)), x) \in Int
    BY <2>2 DEF Realised, Position
  <2>4. p.amount + d * q \in Int
    BY <1>1 DEF Position
  <2> QED
    BY <2>1, <2>3, <2>4 DEF Reduce, NewAmount, Position
<1> QED
  BY <1>3, <1>4

BalanceTable == [Users -> [Currencies -> Balance]]
WorkerType == [pc : BatchPCs, batch : BatchSet, i : Nat \ {0}]
GWorkerType == [pc : {"legs"}, group : GroupSet, i : Nat \ {0}]

(* A posting changes one balance of the table, by the two amounts.         *)
LEMMA PostSpec ==
  ASSUME NEW b \in BalanceTable, NEW u \in Users, NEW c \in Currencies,
         NEW x \in Int, NEW y \in Int
  PROVE  /\ Post(b, u, c, x, y) \in BalanceTable
         /\ \A v \in Users, k \in Currencies :
              Post(b, u, c, x, y)[v][k] =
                IF v = u /\ k = c
                THEN [available |-> b[u][c].available + x, reserved |-> b[u][c].reserved + y]
                ELSE b[v][k]
<1>1. b[u][c].available \in Int /\ b[u][c].reserved \in Int
  BY DEF BalanceTable, Balance
<1>2. [available |-> b[u][c].available + x, reserved |-> b[u][c].reserved + y] \in Balance
  BY <1>1 DEF Balance
<1> QED
  BY <1>2 DEF Post, BalanceTable

AccountTable == [Users -> [Currencies -> Account]]

LEMMA PostAccountType ==
  ASSUME NEW a \in AccountTable, NEW u \in Users, NEW c \in Currencies,
         NEW x \in Int, NEW y \in Int,
         a[u][c].free + x >= 0, a[u][c].reserved + y >= 0
  PROVE  PostAccount(a, u, c, x, y) \in AccountTable
<1>1. a[u][c].free \in Nat /\ a[u][c].reserved \in Nat
  BY DEF AccountTable, Account
<1>2. [free |-> a[u][c].free + x, reserved |-> a[u][c].reserved + y] \in Account
  BY <1>1 DEF Account
<1> QED
  BY <1>1, <1>2 DEF PostAccount, AccountTable, Account

(* The kinds of record the consumers and the constants hold.               *)
LEMMA FillType ==
  ASSUME NEW b \in BatchSet, NEW i \in DOMAIN b.fills
  PROVE  b.fills[i] \in Fill
  BY BatchAssumption

LEMMA LegType ==
  ASSUME NEW g \in GroupSet, NEW i \in DOMAIN g.legs
  PROVE  g.user \in Users /\ g.legs[i] \in Leg
  BY GroupAssumption

LEMMA TerminalType ==
  ASSUME NEW b \in BatchSet, NEW i \in DOMAIN b.terminal
  PROVE  b.terminal[i] \in Orders
  BY BatchAssumption

LEMMA FillAmounts ==
  ASSUME NEW f, f \in Fill \/ f \in Leg
  PROVE  /\ f.ins \in Instruments /\ f.side \in Sides
         /\ f.qty \in Nat \ {0} /\ f.price \in Nat \ {0}
         /\ SpendCurrency(f) \in Currencies
         /\ GainCurrency(f) \in Currencies
         /\ Spend(f) \in Nat \ {0} /\ -Spend(f) \in Int
         /\ Gain(f) \in Nat \ {0} /\ Gain(f) \in Int
<1>1. /\ f.ins \in Instruments /\ f.side \in Sides
      /\ f.qty \in Nat \ {0} /\ f.price \in Nat \ {0}
  BY DEF Fill, Leg
<1>2. f.qty * f.price \in Nat \ {0}
  BY <1>1
<1> QED
  BY <1>1, <1>2, ConstantsAssumption DEF SpendCurrency, GainCurrency, Spend, Gain

LEMMA ReserveType ==
  ASSUME NEW o \in Orders
  PROVE  /\ OrderInfo[o].user \in Users
         /\ ReserveCurrency(o) \in Currencies
         /\ ReserveAmount(o) \in Nat \ {0} /\ ReserveAmount(o) \in Int
         /\ -ReserveAmount(o) \in Int
<1>1. /\ OrderInfo[o].user \in Users /\ OrderInfo[o].ins \in Instruments
      /\ OrderInfo[o].qty \in Nat \ {0} /\ OrderInfo[o].price_high \in Nat \ {0}
  BY ConstantsAssumption
<1>2. OrderInfo[o].qty * OrderInfo[o].price_high \in Nat \ {0}
  BY <1>1
<1> QED
  BY <1>1, <1>2, ConstantsAssumption DEF ReserveCurrency, ReserveAmount

LEMMA WorkerBusy ==
  ASSUME TypeOK, worker.pc # "idle"
  PROVE  worker \in WorkerType /\ worker.batch \in BatchSet
  BY DEF TypeOK, Idle, WorkerType

LEMMA GWorkerBusy ==
  ASSUME TypeOK, gworker.pc # "idle"
  PROVE  gworker \in GWorkerType /\ gworker.group \in GroupSet
  BY DEF TypeOK, Idle, GWorkerType

(* A posting of a fill that is being persisted is a key of the table.      *)
LEMMA PostingKey ==
  ASSUME NEW t \in Tables, NEW b \in BatchSet, NEW i \in DOMAIN b.fills
  PROVE  <<t, b, i>> \in Postings
<1>1. <<t, b, i>> \in Tables \X {b} \X DOMAIN b.fills
  OBVIOUS
<1> QED
  BY <1>1 DEF Postings

LEMMA PostedType ==
  ASSUME TypeOK, worker \in WorkerType, Persisting, NEW t \in Tables, Posted(t)
  PROVE  posted' \in [Postings -> Nat]
<1> DEFINE k == <<t, worker.batch, worker.i>>
<1>1. k \in Postings
  BY PostingKey DEF WorkerType, Persisting
<1>2. posted' = [posted EXCEPT ![k] = @ + 1]
  BY DEF Posted
<1> HIDE DEF k
<1>3. posted[k] + 1 \in Nat
  BY <1>1 DEF TypeOK
<1> QED
  BY <1>1, <1>2, <1>3 DEF TypeOK

LEMMA InitType == Init => TypeOK
<1> SUFFICES ASSUME Init PROVE TypeOK
  OBVIOUS
<1>1. balances \in BalanceTable
  BY ConstantsAssumption DEF Init, InitMem, BalanceTable, Balance
<1>2. DOMAIN reservations \subseteq Orders /\ reservations \in [DOMAIN reservations -> Int]
  BY DEF Init, InitMem
<1>3. positions \in [Users -> [Instruments -> Position]]
  BY ConstantsAssumption DEF Init, InitMem
<1>4. accounts \in [Users -> [Currencies -> Account]]
  BY ConstantsAssumption DEF Init, Account
<1>5. posted \in [Postings -> Nat]
  BY DEF Init
<1> QED
  BY <1>1, <1>2, <1>3, <1>4, <1>5, ConstantsAssumption
  DEF Init, InitMem, TypeOK, Idle, BalanceTable

(* Every step keeps the types.                                             *)
LEMMA NextType == TypeOK /\ [Next]_vars => TypeOK'
<1> SUFFICES ASSUME TypeOK, [Next]_vars PROVE TypeOK'
  OBVIOUS
<1>bal. balances \in BalanceTable
  BY DEF TypeOK, BalanceTable
<1>1. ASSUME NEW o \in Orders, NEW ok \in BOOLEAN, ReserveFunds(o, ok)
      PROVE  TypeOK'
  <2>1. CASE UNCHANGED <<balances, reservations, mirrors>>
    BY <1>1, <2>1 DEF ReserveFunds, TypeOK, pg
  <2>2. CASE ~UNCHANGED <<balances, reservations, mirrors>>
    <3>1. balances' \in BalanceTable
      <4>1. balances' = Post(balances, OrderInfo[o].user, ReserveCurrency(o),
                             -ReserveAmount(o), ReserveAmount(o))
        BY <1>1, <2>2 DEF ReserveFunds, ToReserved
      <4> QED
        BY <4>1, <1>bal, ReserveType, PostSpec
    <3>2. DOMAIN reservations' \subseteq Orders /\ reservations' \in [DOMAIN reservations' -> Int]
      BY <1>1, <2>2, ReserveType DEF ReserveFunds, TypeOK
    <3>3. mirrors' \subseteq Mirror
      BY <1>1, <2>2, ReserveType DEF ReserveFunds, TypeOK, Mirror
    <3> QED
      BY <1>1, <3>1, <3>2, <3>3 DEF ReserveFunds, TypeOK, pg, BalanceTable
  <2> QED
    BY <2>1, <2>2
<1>2. ASSUME NEW o \in Orders, ReleaseFunds(o)
      PROVE  TypeOK'
  <2>1. CASE UNCHANGED vars
    BY <2>1 DEF vars, mem, pg, TypeOK
  <2>2. CASE ~UNCHANGED vars
    <3>0. /\ o \in DOMAIN reservations
          /\ reservations[o] \in Int /\ -reservations[o] \in Int
      BY <1>2, <2>2 DEF ReleaseFunds, TypeOK
    <3>1. balances' \in BalanceTable
      <4>1. balances' = Post(balances, OrderInfo[o].user, ReserveCurrency(o),
                             reservations[o], -reservations[o])
        BY <1>2, <2>2 DEF ReleaseFunds, ToAvailable
      <4> QED
        BY <4>1, <3>0, <1>bal, ReserveType, PostSpec
    <3>2. DOMAIN reservations' \subseteq Orders /\ reservations' \in [DOMAIN reservations' -> Int]
      BY <1>2, <2>2 DEF ReleaseFunds, TypeOK, Remove
    <3>3. mirrors' \subseteq Mirror
      BY <1>2, <2>2, <3>0 DEF ReleaseFunds, TypeOK, Mirror
    <3> QED
      BY <1>2, <2>2, <3>1, <3>2, <3>3 DEF ReleaseFunds, TypeOK, pg, BalanceTable
  <2> QED
    BY <2>1, <2>2
<1>3. ASSUME NEW m \in mirrors, MirrorToAccounts(m)
      PROVE  TypeOK'
  <2>1. m \in Mirror /\ m.order \in Orders /\ m.amount \in Int
    BY DEF TypeOK, Mirror
  <2>2. accounts' \in [Users -> [Currencies -> Account]]
    <3> DEFINE u == OrderInfo[m.order].user
               c == ReserveCurrency(m.order)
               d == IF m.op = "reserve" THEN m.amount ELSE -m.amount
    <3>1. d \in Int /\ u \in Users /\ c \in Currencies
      BY <2>1, ReserveType
    <3>2. \/ accounts' = accounts
          \/ /\ accounts[u][c].free - d >= 0 /\ accounts[u][c].reserved + d >= 0
             /\ accounts' = PostAccount(accounts, u, c, -d, d)
      BY <1>3 DEF MirrorToAccounts, CheckNonNeg
    <3>3. accounts \in AccountTable /\ accounts[u][c].free \in Nat
      BY <3>1 DEF TypeOK, AccountTable, Account
    <3> HIDE DEF u, c, d
    <3>4. accounts' \in AccountTable
      BY <3>1, <3>2, <3>3, PostAccountType
    <3> QED
      BY <3>4 DEF AccountTable
  <2>3. pgFaults' \in 0 .. MaxPgFaults
    BY <1>3, ConstantsAssumption DEF MirrorToAccounts, PgCommits, PgFails, TypeOK
  <2> QED
    BY <1>3, <2>2, <2>3 DEF MirrorToAccounts, TypeOK, mem
<1>4. ASSUME NEW b \in BatchSet, BeginBatch(b)
      PROVE  TypeOK'
  <2>1. worker' \in WorkerType
    BY <1>4 DEF BeginBatch, WorkerType, BatchPCs
  <2>2. pgFaults' \in 0 .. MaxPgFaults
    BY <1>4, ConstantsAssumption DEF BeginBatch, PgCommits, PgFails, TypeOK
  <2> QED
    BY <1>4, <2>1, <2>2 DEF BeginBatch, TypeOK, mem, pg, WorkerType
<1>5. CASE LockForBatch \/ EndFills \/ EndUpdates
  <2>1. worker \in WorkerType
    BY <1>5, WorkerBusy DEF LockForBatch, EndFills, EndUpdates, WorkerAt
  <2>2. worker' \in WorkerType
    BY <1>5, <2>1 DEF LockForBatch, EndFills, EndUpdates, Goto, WorkerType, BatchPCs, LockedPCs
  <2> QED
    BY <1>5, <2>2 DEF LockForBatch, EndFills, EndUpdates, TypeOK, mem, pg, WorkerType
<1>6. CASE SettleFill
  <2> DEFINE f == worker.batch.fills[worker.i]
  <2>1. worker \in WorkerType /\ worker.batch \in BatchSet
    BY <1>6, WorkerBusy DEF SettleFill, WorkerAt
  <2>2. f \in Fill /\ f.user \in Users /\ f.fee \in Nat
    BY <1>6, <2>1, FillType DEF SettleFill, Fill
  <2>3. /\ f.ins \in Instruments /\ f.side \in Sides
        /\ f.qty \in Nat \ {0} /\ f.price \in Nat \ {0}
        /\ SpendCurrency(f) \in Currencies /\ GainCurrency(f) \in Currencies
        /\ Spend(f) \in Nat \ {0} /\ -Spend(f) \in Int
        /\ Gain(f) \in Nat \ {0} /\ Gain(f) \in Int
    BY <2>2, FillAmounts
  <2>4. QuoteOf[f.ins] \in Currencies /\ -f.fee \in Int
    BY <2>2, <2>3, ConstantsAssumption
  <2>5. balances' \in BalanceTable
    <3> DEFINE spent  == Post(balances, f.user, SpendCurrency(f), 0, -Spend(f))
               gained == Post(spent, f.user, GainCurrency(f), Gain(f), 0)
    <3>0. 0 \in Int
      OBVIOUS
    <3> HIDE DEF f
    <3>1. spent \in BalanceTable
      BY <3>0, <1>bal, <2>2, <2>3, PostSpec
    <3> HIDE DEF spent
    <3>2. gained \in BalanceTable
      BY <3>0, <3>1, <2>2, <2>3, PostSpec
    <3> HIDE DEF gained
    <3>3. Post(gained, f.user, QuoteOf[f.ins], -f.fee, 0) \in BalanceTable
      BY <3>0, <3>2, <2>2, <2>4, PostSpec
    <3> QED
      BY <1>6, <3>3 DEF SettleFill, f, gained, spent
  <2>6. DOMAIN reservations' \subseteq Orders /\ reservations' \in [DOMAIN reservations' -> Int]
    <3>1. reservations' = [x \in DOMAIN reservations |->
              IF x = f.order THEN reservations[x] - Spend(f) ELSE reservations[x]]
      BY <1>6 DEF SettleFill
    <3> HIDE DEF f
    <3> QED
      BY <3>1, <2>3 DEF TypeOK
  <2>7. positions' \in [Users -> [Instruments -> Position]]
    <3> DEFINE p == ApplySignedFill(positions[f.user][f.ins], f.side, f.qty, f.price)
    <3>1. positions[f.user][f.ins] \in Position
      BY <2>2, <2>3 DEF TypeOK
    <3>2. p \in Position
      BY <3>1, <2>3, ApplySignedFillType
    <3> DEFINE new == [amount |-> p.amount, avg |-> p.avg, pnl |-> p.pnl - f.fee]
    <3>3. new \in Position
      <4> HIDE DEF p, f
      <4> QED
        BY <3>2, <2>2 DEF Position
    <3>4. positions' = [positions EXCEPT ![f.user][f.ins] = new]
      BY <1>6 DEF SettleFill
    <3> HIDE DEF new
    <3> QED
      BY <3>3, <3>4, <2>2, <2>3 DEF TypeOK
  <2>8. worker' \in WorkerType
    <3>1. worker.i + 1 \in Nat \ {0}
      BY <2>1 DEF WorkerType
    <3> QED
      BY <1>6, <2>1, <3>1 DEF SettleFill, Goto, WorkerType, BatchPCs, LockedPCs
  <2> QED
    BY <1>6, <2>5, <2>6, <2>7, <2>8 DEF SettleFill, TypeOK, pg, WorkerType, BalanceTable
<1>7. CASE ReleaseTerminal
  <2> DEFINE o == worker.batch.terminal[worker.i]
             leftover == Leftover(o)
  <2>1. worker \in WorkerType /\ worker.batch \in BatchSet
    BY <1>7, WorkerBusy DEF ReleaseTerminal, WorkerAt
  <2>2. o \in Orders
    BY <1>7, <2>1, TerminalType DEF ReleaseTerminal
  <2>3. leftover \in Int /\ -leftover \in Int
    BY DEF TypeOK, Leftover
  <2>4. balances' = Post(balances, OrderInfo[o].user, ReserveCurrency(o), leftover, -leftover)
    BY <1>7 DEF ReleaseTerminal, ToAvailable
  <2>5. balances' \in BalanceTable
    <3> HIDE DEF leftover, o
    <3> QED
      BY <1>bal, <2>2, <2>3, <2>4, ReserveType, PostSpec
  <2>6. DOMAIN reservations' \subseteq Orders /\ reservations' \in [DOMAIN reservations' -> Int]
    BY <1>7 DEF ReleaseTerminal, TypeOK, Remove
  <2>7. worker' \in WorkerType
    <3>1. worker.i + 1 \in Nat \ {0}
      BY <2>1 DEF WorkerType
    <3> QED
      BY <1>7, <2>1, <3>1 DEF ReleaseTerminal, Goto, WorkerType, BatchPCs, LockedPCs
  <2> QED
    BY <1>7, <2>5, <2>6, <2>7 DEF ReleaseTerminal, TypeOK, pg, WorkerType, BalanceTable
<1>8. CASE SweepConsumed
  <2>1. worker \in WorkerType
    BY <1>8, WorkerBusy DEF SweepConsumed, WorkerAt
  <2>2. worker' \in WorkerType
    BY <1>8, <2>1 DEF SweepConsumed, Goto, WorkerType, BatchPCs, Tables
  <2>3. DOMAIN reservations' \subseteq Orders /\ reservations' \in [DOMAIN reservations' -> Int]
    BY <1>8 DEF SweepConsumed, TypeOK
  <2> QED
    BY <1>8, <2>2, <2>3 DEF SweepConsumed, TypeOK, pg, WorkerType
<1>9. CASE PersistPosition \/ PersistEntries
  <2>1. PICK t \in Tables, next \in Tables : PersistLegacy(t, next)
    BY <1>9 DEF PersistPosition, PersistEntries, Tables
  <2>2. worker \in WorkerType
    BY <2>1, WorkerBusy DEF PersistLegacy, WorkerAt, Tables
  <2>3. worker' \in WorkerType
    BY <2>1, <2>2 DEF PersistLegacy, Goto, WorkerType, BatchPCs
  <2>4. posted' \in [Postings -> Nat]
    BY <2>1, <2>2, PostedType DEF PersistLegacy, TypeOK
  <2>5. pgFaults' \in 0 .. MaxPgFaults
    BY <2>1, ConstantsAssumption DEF PersistLegacy, PgCommits, PgFails, TypeOK
  <2> QED
    BY <2>1, <2>3, <2>4, <2>5 DEF PersistLegacy, TypeOK, mem, WorkerType
<1>10. CASE ApplyFillTx
  <2> DEFINE f == worker.batch.fills[worker.i]
  <2>1. worker \in WorkerType /\ worker.batch \in BatchSet
    BY <1>10, WorkerBusy DEF ApplyFillTx, WorkerAt
  <2>2. f \in Fill /\ f.user \in Users
    BY <1>10, <2>1, FillType DEF ApplyFillTx, Persisting, Fill
  <2>3. /\ SpendCurrency(f) \in Currencies /\ GainCurrency(f) \in Currencies
        /\ Spend(f) \in Nat \ {0} /\ -Spend(f) \in Int
        /\ Gain(f) \in Nat \ {0} /\ Gain(f) \in Int
    BY <2>2, FillAmounts
  <2>4. worker' \in WorkerType
    BY <1>10, <2>1 DEF ApplyFillTx, Goto, WorkerType, BatchPCs, Tables
  <2>5. posted' \in [Postings -> Nat]
    BY <1>10, <2>1, PostedType DEF ApplyFillTx, Tables, TypeOK
  <2>6. pgFaults' \in 0 .. MaxPgFaults
    BY <1>10, ConstantsAssumption DEF ApplyFillTx, PgCommits, PgFails, TypeOK
  <2>7. accounts' \in [Users -> [Currencies -> Account]]
    <3>1. CASE UNCHANGED accounts
      BY <3>1 DEF TypeOK
    <3>2. CASE ~UNCHANGED accounts
      <4> DEFINE paid == PostAccount(accounts, f.user, SpendCurrency(f), 0, -Spend(f))
                 after == PostAccount(paid, f.user, GainCurrency(f), Gain(f), 0)
      <4>1. accounts' = after /\ accounts[f.user][SpendCurrency(f)].reserved >= Spend(f)
        <5>1. accounts' = after /\ accounts[f.user][SpendCurrency(f)].reserved - Spend(f) >= 0
          BY <1>10, <3>2 DEF ApplyFillTx, CheckNonNeg
        <5>2. accounts[f.user][SpendCurrency(f)].reserved \in Nat
          BY <2>2, <2>3 DEF TypeOK, Account
        <5> HIDE DEF f, paid, after
        <5> QED
          BY <5>1, <5>2, <2>3
      <4>2. accounts \in AccountTable
        BY DEF TypeOK, AccountTable
      <4> HIDE DEF f
      <4>3. /\ accounts[f.user][SpendCurrency(f)].free + 0 >= 0
            /\ accounts[f.user][SpendCurrency(f)].reserved + (-Spend(f)) >= 0
        BY <4>1, <4>2, <2>2, <2>3 DEF AccountTable, Account
      <4>4. paid \in AccountTable
        BY <4>2, <4>3, <2>2, <2>3, PostAccountType
      <4>5. /\ paid[f.user][GainCurrency(f)].free + Gain(f) >= 0
            /\ paid[f.user][GainCurrency(f)].reserved + 0 >= 0
        <5> HIDE DEF paid
        <5> QED
          BY <4>4, <2>2, <2>3 DEF AccountTable, Account
      <4>6. after \in AccountTable
        <5> HIDE DEF paid
        <5> QED
          BY <4>4, <4>5, <2>2, <2>3, PostAccountType
      <4> QED
        BY <4>1, <4>6 DEF AccountTable
    <3> QED
      BY <3>1, <3>2
  <2> QED
    BY <1>10, <2>4, <2>5, <2>6, <2>7 DEF ApplyFillTx, TypeOK, mem, WorkerType
<1>11. CASE MarkBatchProcessed
  <2>1. worker \in WorkerType /\ worker.batch \in BatchSet
    BY <1>11, WorkerBusy DEF MarkBatchProcessed, WorkerAt
  <2>2. \A i \in DOMAIN worker.batch.fills : worker.batch.fills[i].user \in Users
    BY <2>1, FillType DEF Fill
  <2>3. positions_update' \subseteq Users \X BatchIds
    BY <1>11, <2>1, <2>2 DEF MarkBatchProcessed, TypeOK, BatchIds
  <2>4. processed_batches' \subseteq BatchIds
    BY <1>11, <2>1 DEF MarkBatchProcessed, TypeOK, BatchIds
  <2>5. pgFaults' \in 0 .. MaxPgFaults
    BY <1>11, ConstantsAssumption DEF MarkBatchProcessed, PgCommits, PgFails, TypeOK
  <2> QED
    BY <1>11, <2>3, <2>4, <2>5 DEF MarkBatchProcessed, TypeOK, mem
<1>12. ASSUME NEW g \in GroupSet, BeginGroup(g)
       PROVE  TypeOK'
  BY <1>12 DEF BeginGroup, TypeOK, pg, GroupIds
<1>13. CASE SettleLeg
  <2> DEFINE g == gworker.group
             l == gworker.group.legs[gworker.i]
  <2>1. gworker \in GWorkerType /\ g \in GroupSet
    BY <1>13, GWorkerBusy DEF SettleLeg
  <2>2. g.user \in Users /\ l \in Leg
    BY <1>13, <2>1, LegType DEF SettleLeg
  <2>3. /\ l.ins \in Instruments /\ l.side \in Sides
        /\ l.qty \in Nat \ {0} /\ l.price \in Nat \ {0}
        /\ SpendCurrency(l) \in Currencies /\ GainCurrency(l) \in Currencies
        /\ Spend(l) \in Nat \ {0} /\ -Spend(l) \in Int
        /\ Gain(l) \in Nat \ {0} /\ Gain(l) \in Int
    BY <2>2, FillAmounts
  <2>4. balances' \in BalanceTable
    <3> DEFINE spent == Post(balances, g.user, SpendCurrency(l), -Spend(l), 0)
    <3>0. 0 \in Int
      OBVIOUS
    <3> HIDE DEF g, l
    <3>1. spent \in BalanceTable
      BY <3>0, <1>bal, <2>2, <2>3, PostSpec
    <3> HIDE DEF spent
    <3>2. Post(spent, g.user, GainCurrency(l), Gain(l), 0) \in BalanceTable
      BY <3>0, <3>1, <2>2, <2>3, PostSpec
    <3> QED
      BY <1>13, <3>2 DEF SettleLeg, g, l, spent
  <2>5. positions' \in [Users -> [Instruments -> Position]]
    <3> DEFINE p == ApplySignedFill(positions[g.user][l.ins], l.side, l.qty, l.price)
    <3>1. positions[g.user][l.ins] \in Position
      BY <2>2, <2>3 DEF TypeOK
    <3>2. p \in Position
      BY <3>1, <2>3, ApplySignedFillType
    <3>3. positions' = [positions EXCEPT ![g.user][l.ins] = p]
      BY <1>13 DEF SettleLeg
    <3> HIDE DEF p
    <3> QED
      BY <3>2, <3>3, <2>2, <2>3 DEF TypeOK
  <2>6. gworker' \in GWorkerType
    BY <1>13, <2>1 DEF SettleLeg, GWorkerType
  <2> QED
    BY <1>13, <2>4, <2>5, <2>6 DEF SettleLeg, TypeOK, pg, GWorkerType, BalanceTable
<1>14. CASE EndGroup
  BY <1>14 DEF EndGroup, TypeOK, mem, pg
<1>15. CASE Crash
  <2>1. balances' \in BalanceTable
    BY <1>15, ConstantsAssumption DEF Crash, InitMem, BalanceTable, Balance
  <2>2. DOMAIN reservations' \subseteq Orders /\ reservations' \in [DOMAIN reservations' -> Int]
    BY <1>15 DEF Crash, InitMem
  <2>3. positions' \in [Users -> [Instruments -> Position]]
    BY <1>15, ConstantsAssumption DEF Crash, InitMem
  <2>4. crashes' \in 0 .. MaxCrashes
    BY <1>15, ConstantsAssumption DEF Crash, TypeOK
  <2> QED
    BY <1>15, <2>1, <2>2, <2>3, <2>4 DEF Crash, InitMem, TypeOK, pg, BalanceTable
<1>16. CASE UNCHANGED vars
  BY <1>16 DEF vars, mem, pg, TypeOK
<1> QED
  BY <1>1, <1>2, <1>3, <1>4, <1>5, <1>6, <1>7, <1>8, <1>9, <1>10, <1>11, <1>12,
     <1>13, <1>14, <1>15, <1>16 DEF Next, BatchThread

(* Type correctness of the in-memory state and of every PG table; in       *)
(* particular the CHECK constraints accounts_*_nonneg hold by the guards.  *)
THEOREM TypeCorrect == Spec => []TypeOK
  BY InitType, NextType, PTL DEF Spec

-----------------------------------------------------------------------------
(* What an account of the table b holds, reserved or not.                  *)
Holdings(b, u, c) == b[u][c].available + b[u][c].reserved

LEMMA PostHoldings ==
  ASSUME NEW b \in BalanceTable, NEW u \in Users, NEW c \in Currencies,
         NEW x \in Int, NEW y \in Int, NEW v \in Users, NEW k \in Currencies
  PROVE  /\ Holdings(b, v, k) \in Int
         /\ Holdings(Post(b, u, c, x, y), v, k) =
              Holdings(b, v, k) + (IF v = u /\ k = c THEN x + y ELSE 0)
<1>1. b[v][k].available \in Int /\ b[v][k].reserved \in Int
  BY DEF BalanceTable, Balance
<1>2. Post(b, u, c, x, y)[v][k] =
        IF v = u /\ k = c
        THEN [available |-> b[u][c].available + x, reserved |-> b[u][c].reserved + y]
        ELSE b[v][k]
  BY PostSpec
<1>3. CASE v = u /\ k = c
  BY <1>1, <1>2, <1>3 DEF Holdings
<1>4. CASE ~(v = u /\ k = c)
  BY <1>1, <1>2, <1>4 DEF Holdings
<1> QED
  BY <1>3, <1>4

(* A trade of qty at price moves the base currency of its own instrument   *)
(* by the signed quantity, and the base of no other instrument.            *)
LEMMA TradeMovesBase ==
  ASSUME NEW b \in BalanceTable, NEW u \in Users, NEW f, f \in Fill \/ f \in Leg,
         NEW x \in Int, NEW y \in Int, x + y = -Spend(f),
         NEW v \in Users, NEW j \in Instruments
  PROVE  Holdings(Post(Post(b, u, SpendCurrency(f), x, y),
                       u, GainCurrency(f), Gain(f), 0), v, BaseOf[j]) =
           Holdings(b, v, BaseOf[j]) +
             (IF v = u /\ j = f.ins THEN Dir(f.side) * f.qty ELSE 0)
<1> DEFINE b2 == Post(b, u, SpendCurrency(f), x, y)
           b3 == Post(b2, u, GainCurrency(f), Gain(f), 0)
           k  == BaseOf[j]
<1>1. /\ f.ins \in Instruments /\ f.side \in Sides /\ f.qty \in Nat
      /\ SpendCurrency(f) \in Currencies /\ GainCurrency(f) \in Currencies
      /\ Gain(f) \in Int /\ Spend(f) \in Nat /\ 0 \in Int
  BY FillAmounts
<1>2. k \in Currencies
  BY ConstantsAssumption
<1>3. b2 \in BalanceTable
  BY <1>1, PostSpec
<1>4. /\ Holdings(b, v, k) \in Int
      /\ Holdings(b2, v, k) = Holdings(b, v, k) +
           (IF v = u /\ k = SpendCurrency(f) THEN x + y ELSE 0)
  BY <1>1, <1>2, PostHoldings
<1> HIDE DEF b2
<1>5. Holdings(b3, v, k) = Holdings(b2, v, k) +
        (IF v = u /\ k = GainCurrency(f) THEN Gain(f) + 0 ELSE 0)
  BY <1>1, <1>2, <1>3, PostHoldings
<1> HIDE DEF b3
<1>6. CASE f.side = "BUY"
  <2>1. /\ SpendCurrency(f) = QuoteOf[f.ins] /\ GainCurrency(f) = BaseOf[f.ins]
        /\ Gain(f) = f.qty /\ Dir(f.side) = 1
    BY <1>6 DEF SpendCurrency, GainCurrency, Gain, Dir
  <2>2. k # SpendCurrency(f) /\ (k = GainCurrency(f) <=> j = f.ins)
    BY <1>1, <2>1, BaseAssumption
  <2>3. Holdings(b3, v, k) = Holdings(b, v, k) + (IF v = u /\ j = f.ins THEN f.qty ELSE 0)
    BY <1>1, <1>4, <1>5, <2>1, <2>2
  <2> QED
    BY <1>1, <2>1, <2>3 DEF b2, b3
<1>7. CASE f.side = "SELL"
  <2>1. /\ SpendCurrency(f) = BaseOf[f.ins] /\ GainCurrency(f) = QuoteOf[f.ins]
        /\ Spend(f) = f.qty /\ Dir(f.side) = -1
    BY <1>7 DEF SpendCurrency, GainCurrency, Spend, Dir
  <2>2. k # GainCurrency(f) /\ (k = SpendCurrency(f) <=> j = f.ins)
    BY <1>1, <2>1, BaseAssumption
  <2>3. Holdings(b3, v, k) = Holdings(b, v, k) + (IF v = u /\ j = f.ins THEN -f.qty ELSE 0)
    BY <1>1, <1>4, <1>5, <2>1, <2>2
  <2>4. Dir(f.side) * f.qty = -f.qty
    BY <1>1, <2>1
  <2> QED
    BY <2>3, <2>4 DEF b2, b3
<1> QED
  BY <1>1, <1>6, <1>7 DEF Sides

(* Every step but a fill, a combo leg and a restart keeps what each user   *)
(* holds: reserve, release and terminal release only move it between the   *)
(* two columns.                                                            *)
LEMMA TransferKeepsHoldings ==
  ASSUME TypeOK, [Next]_vars, ~SettleFill, ~SettleLeg, ~Crash
  PROVE  /\ \A u \in Users, c \in Currencies :
              Holdings(balances', u, c) = Holdings(balances, u, c)
         /\ positions' = positions
<1>bal. balances \in BalanceTable
  BY DEF TypeOK, BalanceTable
<1>move. ASSUME NEW u \in Users, NEW c \in Currencies, NEW x \in Int,
                balances' = Post(balances, u, c, x, -x) \/ balances' = Post(balances, u, c, -x, x)
         PROVE  \A v \in Users, k \in Currencies :
                  Holdings(balances', v, k) = Holdings(balances, v, k)
  <2> TAKE v \in Users, k \in Currencies
  <2>1. -x \in Int /\ x + (-x) = 0 /\ (-x) + x = 0
    OBVIOUS
  <2>2. Holdings(balances, v, k) \in Int
    BY <2>1, <1>bal, PostHoldings
  <2>3. CASE balances' = Post(balances, u, c, x, -x)
    BY <2>1, <2>2, <2>3, <1>bal, PostHoldings
  <2>4. CASE balances' = Post(balances, u, c, -x, x)
    BY <2>1, <2>2, <2>4, <1>bal, PostHoldings
  <2> QED
    BY <1>move, <2>3, <2>4
<1>1. ASSUME NEW o \in Orders, NEW ok \in BOOLEAN, ReserveFunds(o, ok)
      PROVE  /\ \A u \in Users, c \in Currencies :
                  Holdings(balances', u, c) = Holdings(balances, u, c)
             /\ positions' = positions
  <2>1. \/ balances' = balances
        \/ balances' = Post(balances, OrderInfo[o].user, ReserveCurrency(o),
                            -ReserveAmount(o), ReserveAmount(o))
    BY <1>1 DEF ReserveFunds, ToReserved
  <2>2. positions' = positions
    BY <1>1 DEF ReserveFunds
  <2> QED
    BY <2>1, <2>2, <1>move, ReserveType
<1>2. ASSUME NEW o \in Orders, ReleaseFunds(o)
      PROVE  /\ \A u \in Users, c \in Currencies :
                  Holdings(balances', u, c) = Holdings(balances, u, c)
             /\ positions' = positions
  <2>1. \/ balances' = balances
        \/ /\ reservations[o] \in Int
           /\ balances' = Post(balances, OrderInfo[o].user, ReserveCurrency(o),
                               reservations[o], -reservations[o])
    BY <1>2 DEF ReleaseFunds, ToAvailable, TypeOK, vars, mem
  <2>2. positions' = positions
    BY <1>2 DEF ReleaseFunds, vars, mem
  <2> QED
    BY <2>1, <2>2, <1>move, ReserveType
<1>3. ASSUME ReleaseTerminal
      PROVE  /\ \A u \in Users, c \in Currencies :
                  Holdings(balances', u, c) = Holdings(balances, u, c)
             /\ positions' = positions
  <2> DEFINE o == worker.batch.terminal[worker.i]
             leftover == Leftover(o)
  <2>1. worker.batch \in BatchSet
    BY <1>3, WorkerBusy DEF ReleaseTerminal, WorkerAt
  <2>2. o \in Orders
    BY <1>3, <2>1, TerminalType DEF ReleaseTerminal
  <2>3. leftover \in Int
    BY DEF TypeOK, Leftover
  <2>4. balances' = Post(balances, OrderInfo[o].user, ReserveCurrency(o), leftover, -leftover)
    BY <1>3 DEF ReleaseTerminal, ToAvailable
  <2>5. positions' = positions
    BY <1>3 DEF ReleaseTerminal
  <2> HIDE DEF o, leftover
  <2> QED
    BY <2>2, <2>3, <2>4, <2>5, <1>move, ReserveType
<1>4. CASE UNCHANGED <<balances, positions>>
  BY <1>4
<1>5. \/ \E o \in Orders : \E ok \in BOOLEAN : ReserveFunds(o, ok)
      \/ \E o \in Orders : ReleaseFunds(o)
      \/ ReleaseTerminal
      \/ UNCHANGED <<balances, positions>>
  BY DEF Next, BatchThread, MirrorToAccounts, BeginBatch, LockForBatch, EndFills,
         EndUpdates, SweepConsumed, PersistPosition, PersistEntries, PersistLegacy,
         ApplyFillTx, MarkBatchProcessed, BeginGroup, EndGroup, vars, mem
<1> QED
  BY <1>1, <1>2, <1>3, <1>4, <1>5

(* Reserve, release, terminal release, the PG writes and the start and end *)
(* of every handler leave what a user owns alone.                          *)
THEOREM FundsConserved == Spec => FundsMoveOnlyOnSettlement
<1>1. ASSUME TypeOK, [Next]_vars,
             worker.pc # "fills", gworker.pc # "legs", crashes' = crashes
      PROVE  \A u \in Users, c \in Currencies : Total(u, c)' = Total(u, c)
  <2>1. ~SettleFill /\ ~SettleLeg
    BY <1>1 DEF SettleFill, WorkerAt, SettleLeg
  <2>2. ~Crash
    BY <1>1 DEF Crash, TypeOK
  <2> QED
    BY <1>1, <2>1, <2>2, TransferKeepsHoldings DEF Holdings, Total
<1> QED
  BY <1>1, TypeCorrect, PTL DEF Spec, FundsMoveOnlyOnSettlement

-----------------------------------------------------------------------------
(* A trade and any charge in the quote currency (the fee) keep position    *)
(* and base holdings in agreement.                                         *)
LEMMA TradeKeepsTracking ==
  ASSUME TypeOK, PositionTracksHoldings,
         NEW f, f \in Fill \/ f \in Leg, NEW u \in Users, NEW x \in Int, NEW y \in Int,
         x + y = -Spend(f), NEW z \in Int,
         balances' = Post(Post(Post(balances, u, SpendCurrency(f), x, y),
                               u, GainCurrency(f), Gain(f), 0),
                          u, QuoteOf[f.ins], z, 0),
         \A v \in Users, j \in Instruments :
           positions'[v][j].amount =
             IF v = u /\ j = f.ins
             THEN ApplySignedFill(positions[u][j], f.side, f.qty, f.price).amount
             ELSE positions[v][j].amount
  PROVE  PositionTracksHoldings'
<1> SUFFICES ASSUME NEW v \in Users, NEW j \in Instruments
             PROVE  positions'[v][j].amount - InitPosition[v][j].amount =
                      Holdings(balances', v, BaseOf[j]) - InitBalance[v][BaseOf[j]]
  BY DEF PositionTracksHoldings, Total, Holdings
<1> DEFINE k  == BaseOf[j]
           b2 == Post(balances, u, SpendCurrency(f), x, y)
           b3 == Post(b2, u, GainCurrency(f), Gain(f), 0)
           d  == IF v = u /\ j = f.ins THEN Dir(f.side) * f.qty ELSE 0
<1>1. /\ f.ins \in Instruments /\ f.side \in Sides
      /\ f.qty \in Nat \ {0} /\ f.price \in Nat \ {0}
      /\ SpendCurrency(f) \in Currencies /\ GainCurrency(f) \in Currencies
      /\ Gain(f) \in Int /\ 0 \in Int
  BY FillAmounts
<1>2. k \in Currencies /\ QuoteOf[f.ins] \in Currencies /\ k # QuoteOf[f.ins]
  BY <1>1, ConstantsAssumption, BaseAssumption
<1>3. balances \in BalanceTable
  BY DEF TypeOK, BalanceTable
<1>4. b2 \in BalanceTable
  BY <1>1, <1>3, PostSpec
<1>5. Holdings(b3, v, k) = Holdings(balances, v, k) + d
  BY <1>3, TradeMovesBase
<1>6. Holdings(balances, v, k) \in Int
  BY <1>2, <1>3, <1>1, PostHoldings
<1> HIDE DEF b2
<1>7. b3 \in BalanceTable
  BY <1>1, <1>4, PostSpec
<1> HIDE DEF b3
<1>8. balances' = Post(b3, u, QuoteOf[f.ins], z, 0)
  BY DEF b3, b2
<1>9. Holdings(balances', v, k) = Holdings(b3, v, k) /\ Holdings(b3, v, k) \in Int
  <2>1. Holdings(balances', v, k) = Holdings(b3, v, k) + 0
    BY <1>1, <1>2, <1>7, <1>8, PostHoldings
  <2> QED
    BY <2>1, <1>1, <1>2, <1>7, PostHoldings
<1>10. positions[v][j] \in Position
  BY DEF TypeOK
<1>11. positions'[v][j].amount = positions[v][j].amount + d
  <2>1. CASE v = u /\ j = f.ins
    BY <2>1, <1>1, <1>10, ApplySignedFillType
  <2>2. CASE ~(v = u /\ j = f.ins)
    BY <2>2, <1>10 DEF Position
  <2> QED
    BY <2>1, <2>2
<1>12. positions[v][j].amount - InitPosition[v][j].amount = Holdings(balances, v, k) - InitBalance[v][k]
  BY DEF PositionTracksHoldings, Total, Holdings
<1>13. /\ InitBalance[v][k] \in Nat /\ d \in Int
       /\ InitPosition[v][j].amount \in Int /\ positions[v][j].amount \in Int
  BY <1>1, <1>2, <1>10, ConstantsAssumption DEF Dir, Position
<1> HIDE DEF d
<1> QED
  BY <1>5, <1>6, <1>9, <1>11, <1>12, <1>13

(* The position of an instrument and the holdings of its base currency     *)
(* agree in every reachable state: fills, combo legs, reservations,        *)
(* cancels and restarts, for any number of users and instruments.          *)
THEOREM PositionsTrackHoldings == Spec => []PositionTracksHoldings
<1>1. Init => PositionTracksHoldings
  <2> SUFFICES ASSUME Init, NEW u \in Users, NEW i \in Instruments
               PROVE  positions[u][i].amount - InitPosition[u][i].amount =
                        Total(u, BaseOf[i]) - InitBalance[u][BaseOf[i]]
    BY DEF PositionTracksHoldings
  <2>1. /\ BaseOf[i] \in Currencies /\ InitBalance[u][BaseOf[i]] \in Nat
        /\ InitPosition[u][i].amount \in Int
    BY ConstantsAssumption DEF Position
  <2> QED
    BY <2>1 DEF Init, InitMem, Total
<1>2. TypeOK /\ PositionTracksHoldings /\ [Next]_vars => PositionTracksHoldings'
  <2> SUFFICES ASSUME TypeOK, PositionTracksHoldings, [Next]_vars
               PROVE  PositionTracksHoldings'
    OBVIOUS
  <2>1. CASE ~SettleFill /\ ~SettleLeg /\ ~Crash
    <3>1. /\ \A u \in Users, c \in Currencies :
               Holdings(balances', u, c) = Holdings(balances, u, c)
          /\ positions' = positions
      BY <2>1, TransferKeepsHoldings
    <3> QED
      BY <3>1, ConstantsAssumption DEF PositionTracksHoldings, Holdings, Total
  <2>2. CASE SettleFill
    <3> DEFINE f == worker.batch.fills[worker.i]
               p == ApplySignedFill(positions[f.user][f.ins], f.side, f.qty, f.price)
               new == [amount |-> p.amount, avg |-> p.avg, pnl |-> p.pnl - f.fee]
    <3>1. worker.batch \in BatchSet
      BY <2>2, WorkerBusy DEF SettleFill, WorkerAt
    <3>2. f \in Fill /\ f.user \in Users /\ -f.fee \in Int /\ f.ins \in Instruments
      <4>1. f \in Fill
        BY <2>2, <3>1, FillType DEF SettleFill
      <4> HIDE DEF f
      <4>2. f.user \in Users /\ f.fee \in Nat /\ f.ins \in Instruments
        BY <4>1 DEF Fill
      <4> QED
        BY <4>1, <4>2
    <3>3. balances' = Post(Post(Post(balances, f.user, SpendCurrency(f), 0, -Spend(f)),
                                f.user, GainCurrency(f), Gain(f), 0),
                           f.user, QuoteOf[f.ins], -f.fee, 0)
      BY <2>2 DEF SettleFill
    <3>4. positions' = [positions EXCEPT ![f.user][f.ins] = new]
      BY <2>2 DEF SettleFill
    <3>5. new.amount = p.amount
      OBVIOUS
    <3>6. /\ Spend(f) \in Nat /\ -Spend(f) \in Int /\ 0 \in Int
          /\ 0 + (-Spend(f)) = -Spend(f)
      BY <3>2, FillAmounts
    <3> HIDE DEF new
    <3>7. \A v \in Users, j \in Instruments :
            positions'[v][j].amount =
              IF v = f.user /\ j = f.ins THEN p.amount ELSE positions[v][j].amount
      <4> HIDE DEF f, p
      <4> QED
        BY <3>2, <3>4, <3>5 DEF TypeOK
    <3> HIDE DEF f
    <3> QED
      BY <3>2, <3>3, <3>6, <3>7, TradeKeepsTracking
  <2>3. CASE SettleLeg
    <3> DEFINE g == gworker.group
               l == gworker.group.legs[gworker.i]
               p == ApplySignedFill(positions[g.user][l.ins], l.side, l.qty, l.price)
               b3 == Post(Post(balances, g.user, SpendCurrency(l), -Spend(l), 0),
                          g.user, GainCurrency(l), Gain(l), 0)
    <3>1. g \in GroupSet
      BY <2>3, GWorkerBusy DEF SettleLeg
    <3>2. g.user \in Users /\ l \in Leg /\ l.ins \in Instruments
      BY <2>3, <3>1, LegType DEF SettleLeg, Leg
    <3>3. balances' = b3
      BY <2>3 DEF SettleLeg
    <3>4. positions' = [positions EXCEPT ![g.user][l.ins] = p]
      BY <2>3 DEF SettleLeg
    <3>6. /\ Spend(l) \in Nat /\ -Spend(l) \in Int /\ 0 \in Int
          /\ (-Spend(l)) + 0 = -Spend(l)
          /\ SpendCurrency(l) \in Currencies /\ GainCurrency(l) \in Currencies
          /\ Gain(l) \in Int /\ QuoteOf[l.ins] \in Currencies
      BY <3>2, FillAmounts, ConstantsAssumption
    <3>7. \A v \in Users, j \in Instruments :
            positions'[v][j].amount =
              IF v = g.user /\ j = l.ins THEN p.amount ELSE positions[v][j].amount
      <4> HIDE DEF g, l, p
      <4> QED
        BY <3>2, <3>4 DEF TypeOK
    <3> HIDE DEF g, l
    <3>8. b3 = Post(b3, g.user, QuoteOf[l.ins], 0, 0)
      <4>1. balances \in BalanceTable
        BY DEF TypeOK, BalanceTable
      <4>2. Post(balances, g.user, SpendCurrency(l), -Spend(l), 0) \in BalanceTable
        BY <3>2, <3>6, <4>1, PostSpec
      <4>3. b3 \in BalanceTable
        <5> DEFINE b2 == Post(balances, g.user, SpendCurrency(l), -Spend(l), 0)
        <5> HIDE DEF b2
        <5>1. Post(b2, g.user, GainCurrency(l), Gain(l), 0) \in BalanceTable
          BY <3>2, <3>6, <4>2, PostSpec DEF b2
        <5> QED
          BY <5>1 DEF b2
      <4> HIDE DEF b3
      <4>4. [available |-> b3[g.user][QuoteOf[l.ins]].available + 0,
             reserved |-> b3[g.user][QuoteOf[l.ins]].reserved + 0]
              = b3[g.user][QuoteOf[l.ins]]
        BY <3>2, <3>6, <4>3 DEF BalanceTable, Balance
      <4> QED
        BY <3>2, <3>6, <4>3, <4>4 DEF Post, BalanceTable
    <3>9. balances' = Post(Post(Post(balances, g.user, SpendCurrency(l), -Spend(l), 0),
                                g.user, GainCurrency(l), Gain(l), 0),
                           g.user, QuoteOf[l.ins], 0, 0)
      BY <3>3, <3>8
    <3>10. \A v \in Users, j \in Instruments :
             positions'[v][j].amount =
               IF v = g.user /\ j = l.ins
               THEN ApplySignedFill(positions[g.user][j], l.side, l.qty, l.price).amount
               ELSE positions[v][j].amount
      BY <3>7
    <3> HIDE DEF p, b3
    <3>11. PICK x \in Int, y \in Int, z \in Int :
             /\ x + y = -Spend(l)
             /\ balances' = Post(Post(Post(balances, g.user, SpendCurrency(l), x, y),
                                      g.user, GainCurrency(l), Gain(l), 0),
                                 g.user, QuoteOf[l.ins], z, 0)
      BY <3>6, <3>9
    <3> QED
      BY <3>2, <3>10, <3>11, TradeKeepsTracking
  <2>4. CASE Crash
    <3> SUFFICES ASSUME NEW u \in Users, NEW i \in Instruments
                 PROVE  positions'[u][i].amount - InitPosition[u][i].amount =
                          Total(u, BaseOf[i])' - InitBalance[u][BaseOf[i]]
      BY DEF PositionTracksHoldings
    <3>1. /\ BaseOf[i] \in Currencies /\ InitBalance[u][BaseOf[i]] \in Nat
          /\ InitPosition[u][i].amount \in Int
      BY ConstantsAssumption DEF Position
    <3> QED
      BY <2>4, <3>1 DEF Crash, InitMem, Total
  <2> QED
    BY <2>1, <2>2, <2>3, <2>4
<1> QED
  BY <1>1, <1>2, TypeCorrect, PTL DEF Spec

-----------------------------------------------------------------------------
(* The strengthening behind AvailableNonNegative: outside the settlement   *)
(* section every open reservation still holds something, so that a release *)
(* can only add to `available', and a combo leg runs only after its group  *)
(* was recorded.                                                           *)
NoFees == \A b \in BatchSet : \A i \in DOMAIN b.fills : b.fills[i].fee = 0
OpenReservationsPositive ==
  worker.pc \notin LockedPCs => \A o \in DOMAIN reservations : reservations[o] > 0
LegsRecorded == gworker.pc = "legs" => seen_execution_group_ids # {}
Solvent == \A u \in Users, c \in Currencies : balances[u][c].available >= 0
SolvencyInv ==
  /\ OpenReservationsPositive
  /\ LegsRecorded
  /\ (NoFees /\ seen_execution_group_ids = {}) => Solvent

(* A posting that does not take more than is available keeps a table       *)
(* solvent.                                                                *)
LEMMA PostSolvent ==
  ASSUME NEW b \in BalanceTable, NEW u \in Users, NEW c \in Currencies,
         NEW x \in Int, NEW y \in Int, b[u][c].available + x >= 0,
         \A v \in Users, k \in Currencies : b[v][k].available >= 0
  PROVE  \A v \in Users, k \in Currencies : Post(b, u, c, x, y)[v][k].available >= 0
<1> TAKE v \in Users, k \in Currencies
<1>1. Post(b, u, c, x, y)[v][k] =
        IF v = u /\ k = c
        THEN [available |-> b[u][c].available + x, reserved |-> b[u][c].reserved + y]
        ELSE b[v][k]
  BY PostSpec
<1> QED
  BY <1>1

LEMMA ReservationsStayPositive ==
  ASSUME TypeOK, OpenReservationsPositive, [Next]_vars
  PROVE  OpenReservationsPositive'
<1>1. ASSUME NEW o \in Orders, NEW ok \in BOOLEAN, ReserveFunds(o, ok)
      PROVE  OpenReservationsPositive'
  <2>1. worker' = worker /\ worker.pc \notin LockedPCs
    BY <1>1 DEF ReserveFunds, Locked
  <2>2. \/ reservations' = reservations
        \/ reservations' = [x \in DOMAIN reservations \cup {o} |->
                              IF x = o THEN ReserveAmount(o) ELSE reservations[x]]
    BY <1>1 DEF ReserveFunds
  <2> QED
    BY <2>1, <2>2, ReserveType DEF OpenReservationsPositive
<1>2. ASSUME NEW o \in Orders, ReleaseFunds(o)
      PROVE  OpenReservationsPositive'
  BY <1>2 DEF ReleaseFunds, Remove, OpenReservationsPositive, vars, mem
<1>3. CASE \/ LockForBatch \/ SettleFill \/ EndFills \/ ReleaseTerminal \/ EndUpdates
  <2>1. PICK pc \in LockedPCs : \E i : Goto(pc, i)
    BY <1>3 DEF LockForBatch, SettleFill, EndFills, ReleaseTerminal, EndUpdates, LockedPCs
  <2>2. worker'.pc \in LockedPCs
    BY <2>1 DEF Goto
  <2> QED
    BY <2>2 DEF OpenReservationsPositive
<1>4. CASE SweepConsumed
  BY <1>4 DEF SweepConsumed, OpenReservationsPositive
<1>5. CASE Crash
  BY <1>5 DEF Crash, InitMem, OpenReservationsPositive
<1>6. CASE PersistPosition \/ PersistEntries \/ ApplyFillTx \/ MarkBatchProcessed
  <2>1. reservations' = reservations /\ worker.pc \notin LockedPCs
    BY <1>6 DEF PersistPosition, PersistEntries, PersistLegacy, ApplyFillTx,
                MarkBatchProcessed, WorkerAt, LockedPCs, mem
  <2> QED
    BY <2>1 DEF OpenReservationsPositive
<1>7. ASSUME NEW b \in BatchSet, BeginBatch(b)
      PROVE  OpenReservationsPositive'
  BY <1>7 DEF BeginBatch, LockedPCs, OpenReservationsPositive, mem
<1>8. CASE UNCHANGED <<reservations, worker>>
  BY <1>8 DEF OpenReservationsPositive
<1>9. \/ \E o \in Orders : \E ok \in BOOLEAN : ReserveFunds(o, ok)
      \/ \E o \in Orders : ReleaseFunds(o)
      \/ \E b \in BatchSet : BeginBatch(b)
      \/ BatchThread
      \/ Crash
      \/ UNCHANGED <<reservations, worker>>
  BY DEF Next, MirrorToAccounts, BeginGroup, SettleLeg, EndGroup, vars, mem
<1> QED
  BY <1>1, <1>2, <1>3, <1>4, <1>5, <1>6, <1>7, <1>8, <1>9 DEF BatchThread

LEMMA LegsStayRecorded ==
  ASSUME TypeOK, LegsRecorded, [Next]_vars
  PROVE  LegsRecorded'
<1>1. CASE Crash \/ EndGroup
  BY <1>1 DEF Crash, EndGroup, Idle, LegsRecorded
<1>2. CASE SettleLeg
  BY <1>2 DEF SettleLeg, LegsRecorded
<1>3. ASSUME NEW g \in GroupSet, BeginGroup(g)
      PROVE  LegsRecorded'
  BY <1>3 DEF BeginGroup, LegsRecorded
<1>4. CASE UNCHANGED <<gworker, seen_execution_group_ids>>
  BY <1>4 DEF LegsRecorded
<1>5. \/ Crash \/ EndGroup \/ SettleLeg
      \/ \E g \in GroupSet : BeginGroup(g)
      \/ UNCHANGED <<gworker, seen_execution_group_ids>>
  BY DEF Next, BatchThread, ReserveFunds, ReleaseFunds, MirrorToAccounts, BeginBatch,
         LockForBatch, SettleFill, EndFills, ReleaseTerminal, EndUpdates, SweepConsumed,
         PersistPosition, PersistEntries, PersistLegacy, ApplyFillTx,
         MarkBatchProcessed, vars, mem
<1> QED
  BY <1>1, <1>2, <1>3, <1>4, <1>5

LEMMA StaysSolvent ==
  ASSUME TypeOK, SolvencyInv, NoFees, seen_execution_group_ids' = {}, [Next]_vars
  PROVE  Solvent'
<1>bal. balances \in BalanceTable
  BY DEF TypeOK, BalanceTable
<1>0. CASE Crash
  BY <1>0, ConstantsAssumption DEF Crash, InitMem, Solvent
<1>a. ASSUME ~Crash PROVE seen_execution_group_ids = {}
  BY <1>a DEF Next, BatchThread, ReserveFunds, ReleaseFunds, MirrorToAccounts, BeginBatch,
         LockForBatch, SettleFill, EndFills, ReleaseTerminal, EndUpdates, SweepConsumed,
         PersistPosition, PersistEntries, PersistLegacy, ApplyFillTx,
         MarkBatchProcessed, BeginGroup, SettleLeg, EndGroup, vars, mem
<1> SUFFICES ASSUME ~Crash PROVE Solvent'
  BY <1>0
<1>sol. \A v \in Users, k \in Currencies :
          balances[v][k].available >= 0 /\ balances[v][k].available \in Int
  BY <1>a, <1>bal DEF SolvencyInv, Solvent, BalanceTable, Balance
<1>1. ASSUME NEW o \in Orders, NEW ok \in BOOLEAN, ReserveFunds(o, ok)
      PROVE  Solvent'
  <2> DEFINE u == OrderInfo[o].user
             c == ReserveCurrency(o)
             want == ReserveAmount(o)
  <2>1. \/ balances' = balances
        \/ /\ balances[u][c].available >= want
           /\ balances' = Post(balances, u, c, -want, want)
    <3>1. u \in Users /\ c \in Currencies /\ want \in Int
      BY ReserveType
    <3>2. ~Short(o) => balances[u][c].available >= want
      BY <3>1, <1>sol DEF Short
    <3> QED
      BY <1>1, <3>2 DEF ReserveFunds, ToReserved
  <2>2. u \in Users /\ c \in Currencies /\ want \in Int /\ -want \in Int
    BY ReserveType
  <2> HIDE DEF u, c, want
  <2>3. CASE balances' = balances
    BY <2>3, <1>sol DEF Solvent
  <2>4. CASE balances[u][c].available >= want /\ balances' = Post(balances, u, c, -want, want)
    <3>1. balances[u][c].available + (-want) >= 0
      BY <2>2, <2>4, <1>sol
    <3> QED
      BY <3>1, <2>2, <2>4, <1>bal, <1>sol, PostSolvent DEF Solvent
  <2> QED
    BY <2>1, <2>3, <2>4
<1>rel. ASSUME NEW u \in Users, NEW c \in Currencies, NEW x \in Nat, NEW y \in Int,
               balances' = Post(balances, u, c, x, y)
        PROVE  Solvent'
  <2>1. balances[u][c].available + x >= 0 /\ x \in Int
    BY <1>sol
  <2> QED
    BY <2>1, <1>rel, <1>bal, <1>sol, PostSolvent DEF Solvent
<1>2. ASSUME NEW o \in Orders, ReleaseFunds(o)
      PROVE  Solvent'
  <2>1. CASE balances' = balances
    BY <2>1, <1>sol DEF Solvent
  <2>2. CASE balances' # balances
    <3>1. /\ o \in DOMAIN reservations /\ worker.pc \notin LockedPCs
          /\ balances' = Post(balances, OrderInfo[o].user, ReserveCurrency(o),
                              reservations[o], -reservations[o])
      BY <1>2, <2>2 DEF ReleaseFunds, ToAvailable, Locked, vars, mem
    <3>2. reservations[o] \in Nat /\ -reservations[o] \in Int
      BY <3>1 DEF SolvencyInv, OpenReservationsPositive, TypeOK
    <3> QED
      BY <3>1, <3>2, <1>rel, ReserveType
  <2> QED
    BY <2>1, <2>2
<1>3. CASE ReleaseTerminal
  <2> DEFINE o == worker.batch.terminal[worker.i]
             leftover == Leftover(o)
  <2>1. worker.batch \in BatchSet
    BY <1>3, WorkerBusy DEF ReleaseTerminal, WorkerAt
  <2>2. o \in Orders
    BY <1>3, <2>1, TerminalType DEF ReleaseTerminal
  <2>3. leftover \in Nat /\ -leftover \in Int
    BY DEF TypeOK, Leftover
  <2>4. balances' = Post(balances, OrderInfo[o].user, ReserveCurrency(o), leftover, -leftover)
    BY <1>3 DEF ReleaseTerminal, ToAvailable
  <2> HIDE DEF o, leftover
  <2> QED
    BY <2>2, <2>3, <2>4, <1>rel, ReserveType
<1>4. CASE SettleFill
  <2> DEFINE f == worker.batch.fills[worker.i]
             b2 == Post(balances, f.user, SpendCurrency(f), 0, -Spend(f))
             b3 == Post(b2, f.user, GainCurrency(f), Gain(f), 0)
  <2>1. worker.batch \in BatchSet
    BY <1>4, WorkerBusy DEF SettleFill, WorkerAt
  <2>2. f \in Fill
    BY <1>4, <2>1, FillType DEF SettleFill
  <2>3. f.fee = 0
    BY <1>4, <2>1 DEF SettleFill, NoFees
  <2>4. balances' = Post(b3, f.user, QuoteOf[f.ins], -f.fee, 0)
    BY <1>4 DEF SettleFill
  <2> HIDE DEF f
  <2>5. /\ f.user \in Users /\ QuoteOf[f.ins] \in Currencies /\ 0 \in Int
        /\ SpendCurrency(f) \in Currencies /\ GainCurrency(f) \in Currencies
        /\ -Spend(f) \in Int /\ Gain(f) \in Nat /\ Gain(f) \in Int
    BY <2>2, FillAmounts, ConstantsAssumption DEF Fill
  <2>6. b2 \in BalanceTable
    BY <2>5, <1>bal, PostSpec
  <2>7. \A v \in Users, k \in Currencies : b2[v][k].available >= 0
    <3>1. balances[f.user][SpendCurrency(f)].available + 0 >= 0
      BY <2>5, <1>sol
    <3> QED
      BY <3>1, <2>5, <1>bal, <1>sol, PostSolvent
  <2> HIDE DEF b2
  <2>8. b3 \in BalanceTable
    BY <2>5, <2>6, PostSpec
  <2>9. \A v \in Users, k \in Currencies : b3[v][k].available >= 0
    <3>1. b2[f.user][GainCurrency(f)].available + Gain(f) >= 0
      BY <2>5, <2>6, <2>7 DEF BalanceTable, Balance
    <3> QED
      BY <3>1, <2>5, <2>6, <2>7, PostSolvent
  <2> HIDE DEF b3
  <2>10. b3[f.user][QuoteOf[f.ins]].available + 0 >= 0
    BY <2>5, <2>8, <2>9 DEF BalanceTable, Balance
  <2>11. balances' = Post(b3, f.user, QuoteOf[f.ins], 0, 0)
    BY <2>3, <2>4
  <2> QED
    BY <2>5, <2>8, <2>9, <2>10, <2>11, PostSolvent DEF Solvent
<1>5. CASE balances' = balances
  BY <1>5, <1>sol DEF Solvent
<1>6. ~SettleLeg
  BY <1>a DEF SettleLeg, SolvencyInv, LegsRecorded
<1>7. \/ \E o \in Orders : \E ok \in BOOLEAN : ReserveFunds(o, ok)
      \/ \E o \in Orders : ReleaseFunds(o)
      \/ ReleaseTerminal \/ SettleFill
      \/ balances' = balances
  BY <1>6 DEF Next, BatchThread, MirrorToAccounts, BeginBatch, LockForBatch, EndFills,
         EndUpdates, SweepConsumed, PersistPosition, PersistEntries, PersistLegacy,
         ApplyFillTx, MarkBatchProcessed, BeginGroup, EndGroup, vars, mem
<1> QED
  BY <1>1, <1>2, <1>3, <1>4, <1>5, <1>7

(* Without fees and combo groups no interleaving of reserve, release,      *)
(* settlement, terminal release and restarts overdraws a user.             *)
THEOREM NeverOverdrawn == Spec => []AvailableNonNegative
<1>1. Init => SolvencyInv
  BY ConstantsAssumption DEF Init, InitMem, Idle, SolvencyInv, OpenReservationsPositive,
     LegsRecorded, Solvent
<1>2. TypeOK /\ SolvencyInv /\ [Next]_vars => SolvencyInv'
  <2> SUFFICES ASSUME TypeOK, SolvencyInv, [Next]_vars PROVE SolvencyInv'
    OBVIOUS
  <2>1. OpenReservationsPositive'
    BY ReservationsStayPositive DEF SolvencyInv
  <2>2. LegsRecorded'
    BY LegsStayRecorded DEF SolvencyInv
  <2>3. (NoFees /\ seen_execution_group_ids = {})' => Solvent'
    BY StaysSolvent DEF NoFees
  <2> QED
    BY <2>1, <2>2, <2>3 DEF SolvencyInv
<1>3. SolvencyInv => AvailableNonNegative
  BY DEF SolvencyInv, AvailableNonNegative, NoFees, Solvent
<1> QED
  BY <1>1, <1>2, <1>3, TypeCorrect, PTL DEF Spec

-----------------------------------------------------------------------------
(* The strengthening behind PostedAtMostOncePlusFaults.  A posting may     *)
(* exceed the number of faults by one only once this pass over its batch   *)
(* has written it, or when the batch is marked processed and the consumer  *)
(* is not working on it.                                                   *)
Rank(t) == IF t = "ledger_positions" THEN 1 ELSE IF t = "ledger_entries" THEN 2 ELSE 3
WorkingOn(b) == worker # Idle /\ worker.batch = b
Passed(t, b, i) ==
  /\ WorkingOn(b)
  /\ worker.pc \in Tables
  /\ i < worker.i \/ (i = worker.i /\ Rank(t) < Rank(worker.pc))
Written(t, b, i) ==
  Passed(t, b, i) \/ (b.id \in processed_batches /\ ~WorkingOn(b))
Faults == pgFaults + crashes
PostedInv ==
  \A t \in Tables, b \in BatchSet : \A i \in DOMAIN b.fills :
    /\ posted[<<t, b, i>>] <= Faults + 1
    /\ ~Written(t, b, i) => posted[<<t, b, i>>] <= Faults

(* The keys of the posting table are exactly these triples.                *)
LEMMA PostingShape ==
  ASSUME NEW k \in Postings
  PROVE  \E t \in Tables, b \in BatchSet : \E i \in DOMAIN b.fills : k = <<t, b, i>>
  BY DEF Postings

LEMMA PostedNat ==
  ASSUME TypeOK, NEW t \in Tables, NEW b \in BatchSet, NEW i \in DOMAIN b.fills
  PROVE  /\ <<t, b, i>> \in Postings
         /\ posted[<<t, b, i>>] \in Nat
         /\ Faults \in Nat
         /\ i \in Nat
<1>1. <<t, b, i>> \in Postings
  BY PostingKey
<1>2. i \in Nat
  BY BatchAssumption
<1> QED
  BY <1>1, <1>2, ConstantsAssumption DEF TypeOK, Faults

(* A failed call or a restart raises the bound enough for every posting.   *)
LEMMA FaultAbsorbs ==
  ASSUME TypeOK, PostedInv, posted' = posted, Faults' = Faults + 1
  PROVE  PostedInv'
<1> SUFFICES ASSUME NEW t \in Tables, NEW b \in BatchSet, NEW i \in DOMAIN b.fills
             PROVE  posted'[<<t, b, i>>] <= Faults'
  <2>1. ASSUME NEW t \in Tables, NEW b \in BatchSet, NEW i \in DOMAIN b.fills,
               posted'[<<t, b, i>>] <= Faults'
        PROVE  posted'[<<t, b, i>>] <= Faults' + 1
    BY <2>1, PostedNat
  <2> QED
    BY <2>1 DEF PostedInv
<1> QED
  BY PostedNat DEF PostedInv

(* A step that writes no posting and loses no Written triple is harmless.  *)
LEMMA WrittenKept ==
  ASSUME TypeOK, PostedInv, posted' = posted, Faults' = Faults,
         \A t \in Tables, b \in BatchSet : \A i \in DOMAIN b.fills :
           Written(t, b, i) => Written(t, b, i)'
  PROVE  PostedInv'
  BY DEF PostedInv

(* One transaction of the persistence phase: it either fails or writes the *)
(* posting the program counter then leaves behind.                         *)
LEMMA PersistStep ==
  ASSUME TypeOK, PostedInv, NEW t \in Tables, worker \in WorkerType, worker.pc = t,
         Persisting, NEW pc \in Tables, NEW n \in Nat \ {0},
         worker' = [pc |-> pc, batch |-> worker.batch, i |-> n],
         \/ n = worker.i /\ Rank(t) < Rank(pc)
         \/ n = worker.i + 1 /\ t = "accounts" /\ pc = "ledger_positions",
         processed_batches' = processed_batches,
         Faults' = Faults, posted' = posted \/ Posted(t)
  PROVE  PostedInv'
<1> DEFINE k == <<t, worker.batch, worker.i>>
<1>1. /\ worker.batch \in BatchSet /\ worker.i \in DOMAIN worker.batch.fills
      /\ worker # Idle /\ worker' # Idle /\ worker.i \in Nat \ {0}
      /\ worker'.batch = worker.batch /\ worker'.pc = pc /\ worker'.i = n
  BY DEF WorkerType, Persisting, Idle, Tables
<1>2. \A x \in Tables : Rank(x) \in 1 .. 3
  BY DEF Rank
<1>3. Rank("accounts") = 3
  BY DEF Rank
<1>4. ASSUME NEW x \in Tables, NEW b \in BatchSet, NEW i \in DOMAIN b.fills,
             Written(x, b, i) \/ <<x, b, i>> = k
      PROVE  Written(x, b, i)'
  <2>1. i \in Nat
    BY PostedNat
  <2>2. CASE b.id \in processed_batches /\ ~WorkingOn(b)
    BY <1>1, <2>2 DEF Written, WorkingOn
  <2>3. CASE <<x, b, i>> = k
    <3>1. x = t /\ b = worker.batch /\ i = worker.i
      BY <2>3
    <3> QED
      BY <1>1, <2>1, <3>1 DEF Written, Passed, WorkingOn
  <2>4. CASE Passed(x, b, i)
    <3>1. /\ b = worker.batch /\ WorkingOn(b)'
          /\ i < worker.i \/ (i = worker.i /\ Rank(x) < Rank(t))
      BY <1>1, <2>4 DEF Passed, WorkingOn
    <3>2. i < n \/ (i = n /\ Rank(x) < Rank(pc))
      BY <1>1, <1>2, <2>1, <3>1
    <3> QED
      BY <1>1, <3>1, <3>2 DEF Written, Passed
  <2> QED
    BY <1>4, <2>2, <2>3, <2>4 DEF Written
<1>5. CASE posted' = posted
  BY <1>4, <1>5, WrittenKept
<1>6. CASE Posted(t)
  <2> SUFFICES ASSUME NEW x \in Tables, NEW b \in BatchSet, NEW i \in DOMAIN b.fills
               PROVE  /\ posted'[<<x, b, i>>] <= Faults' + 1
                      /\ ~Written(x, b, i)' => posted'[<<x, b, i>>] <= Faults'
    BY DEF PostedInv
  <2>1. posted' = [posted EXCEPT ![k] = @ + 1]
    BY <1>6 DEF Posted
  <2>2. <<x, b, i>> \in Postings /\ posted[<<x, b, i>>] \in Nat /\ Faults \in Nat
    BY PostedNat
  <2>3. CASE <<x, b, i>> = k
    <3>1. x = t /\ b = worker.batch /\ i = worker.i
      BY <2>3
    <3>2. ~Written(t, b, i)
      <4>1. worker.i \in Nat /\ Rank(t) \in Int
        BY <1>1, <1>2
      <4> QED
        BY <1>1, <3>1, <4>1 DEF Written, Passed, WorkingOn
    <3>3. posted[<<x, b, i>>] <= Faults
      BY <3>1, <3>2 DEF PostedInv
    <3>4. posted'[<<x, b, i>>] = posted[<<x, b, i>>] + 1
      BY <2>1, <2>2, <2>3 DEF TypeOK
    <3>5. Written(x, b, i)'
      BY <1>4, <2>3
    <3> QED
      BY <2>2, <3>3, <3>4, <3>5
  <2>4. CASE <<x, b, i>> # k
    <3>1. posted'[<<x, b, i>>] = posted[<<x, b, i>>]
      BY <2>1, <2>2, <2>4 DEF TypeOK
    <3> QED
      BY <1>4, <3>1 DEF PostedInv
  <2> QED
    BY <2>3, <2>4
<1> QED
  BY <1>5, <1>6

(* ApplyBatchResult is idempotent up to faults, for any number of batches, *)
(* redeliveries, fills per batch, PG failures and restarts.                *)
THEOREM IdempotentUpToFaults == Spec => []PostedAtMostOncePlusFaults
<1>1. Init => PostedInv
  <2> SUFFICES ASSUME Init PROVE PostedInv
    OBVIOUS
  <2>1. Faults = 0
    BY DEF Init, Faults
  <2>2. ASSUME NEW t \in Tables, NEW b \in BatchSet, NEW i \in DOMAIN b.fills
        PROVE  posted[<<t, b, i>>] = 0
    BY PostingKey DEF Init
  <2>3. 0 <= Faults + 1 /\ 0 <= Faults
    BY <2>1
  <2> QED
    BY <2>2, <2>3 DEF PostedInv
<1>2. TypeOK /\ PostedInv /\ [Next]_vars => PostedInv'
  <2> SUFFICES ASSUME TypeOK, PostedInv, [Next]_vars PROVE PostedInv'
    OBVIOUS
  <2>0. pgFaults \in Nat /\ crashes \in Nat
    BY ConstantsAssumption DEF TypeOK
  <2>1. ASSUME NEW b \in BatchSet, BeginBatch(b)
        PROVE  PostedInv'
    <3>1. CASE PgFails
      BY <2>0, <2>1, <3>1, FaultAbsorbs DEF BeginBatch, PgFails, Faults, pg
    <3>2. CASE PgCommits /\ ~IsBatchProcessed(b)
      <4>1. /\ worker.pc = "idle" /\ worker'.batch = b /\ worker' # Idle
            /\ processed_batches' = processed_batches /\ Faults' = Faults
            /\ posted' = posted
        BY <2>1, <3>2 DEF BeginBatch, PgCommits, Faults, pg, Idle
      <4>2. worker = Idle
        BY <4>1 DEF TypeOK, BatchPCs, LockedPCs, Tables, Idle
      <4>3. ASSUME NEW t \in Tables, NEW x \in BatchSet, NEW i \in DOMAIN x.fills,
                   Written(t, x, i)
            PROVE  Written(t, x, i)'
        BY <3>2, <4>1, <4>2, <4>3 DEF IsBatchProcessed, Written, Passed, WorkingOn
      <4> QED
        BY <4>1, <4>3, WrittenKept
    <3> QED
      BY <2>1, <3>1, <3>2 DEF BeginBatch
  <2>2. CASE LockForBatch \/ SettleFill \/ EndFills \/ ReleaseTerminal \/ EndUpdates \/ SweepConsumed
    <3>1. worker.pc \in {"enter"} \cup LockedPCs
      BY <2>2 DEF LockForBatch, SettleFill, EndFills, ReleaseTerminal, EndUpdates,
                  SweepConsumed, WorkerAt, LockedPCs
    <3>2. PICK pc, n : Goto(pc, n)
      BY <2>2 DEF LockForBatch, SettleFill, EndFills, ReleaseTerminal, EndUpdates, SweepConsumed
    <3>3. worker # Idle /\ worker' # Idle /\ worker'.batch = worker.batch
      BY <3>1, <3>2, WorkerBusy DEF Goto, Idle, LockedPCs, WorkerType
    <3>4. /\ posted' = posted /\ processed_batches' = processed_batches
          /\ Faults' = Faults
      BY <2>2 DEF LockForBatch, SettleFill, EndFills, ReleaseTerminal, EndUpdates,
                  SweepConsumed, pg, Faults
    <3>5. ASSUME NEW t \in Tables, NEW x \in BatchSet, NEW i \in DOMAIN x.fills,
                 Written(t, x, i)
          PROVE  Written(t, x, i)'
      BY <3>1, <3>3, <3>4, <3>5 DEF Written, Passed, WorkingOn, LockedPCs, Tables
    <3> QED
      BY <3>4, <3>5, WrittenKept
  <2>3. CASE PersistPosition \/ PersistEntries
    <3>1. PICK t \in Tables, next \in Tables :
            PersistLegacy(t, next) /\ Rank(t) < Rank(next)
      BY <2>3 DEF PersistPosition, PersistEntries, Tables, Rank
    <3>2. worker \in WorkerType /\ worker.i \in Nat \ {0}
      BY <3>1, WorkerBusy DEF PersistLegacy, WorkerAt, Tables, WorkerType
    <3>3. CASE PgFails /\ posted' = posted
      BY <2>0, <3>1, <3>3, FaultAbsorbs DEF PersistLegacy, PgFails, Faults
    <3>4. CASE PgCommits /\ Posted(t)
      <4>1. Faults' = Faults /\ processed_batches' = processed_batches
        BY <3>1, <3>4 DEF PersistLegacy, PgCommits, Faults
      <4>2. /\ worker.pc = t /\ Persisting
            /\ worker' = [pc |-> next, batch |-> worker.batch, i |-> worker.i]
        BY <3>1 DEF PersistLegacy, WorkerAt, Goto
      <4> QED
        BY <3>1, <3>2, <3>4, <4>1, <4>2, PersistStep
    <3> QED
      BY <3>1, <3>3, <3>4 DEF PersistLegacy
  <2>4. CASE ApplyFillTx
    <3>2. worker \in WorkerType /\ worker.i + 1 \in Nat \ {0}
      BY <2>4, WorkerBusy DEF ApplyFillTx, WorkerAt, WorkerType
    <3>3. CASE PgFails /\ posted' = posted
      BY <2>0, <2>4, <3>3, FaultAbsorbs DEF ApplyFillTx, PgFails, Faults
    <3>4. CASE PgCommits /\ (posted' = posted \/ Posted("accounts"))
      <4>1. Faults' = Faults /\ processed_batches' = processed_batches
        BY <2>4, <3>4 DEF ApplyFillTx, PgCommits, Faults
      <4>2. /\ worker.pc = "accounts" /\ Persisting
            /\ worker' = [pc |-> "ledger_positions", batch |-> worker.batch,
                          i |-> worker.i + 1]
        BY <2>4 DEF ApplyFillTx, WorkerAt, Goto
      <4>3. "accounts" \in Tables /\ "ledger_positions" \in Tables
        BY DEF Tables
      <4> QED
        BY <3>2, <3>4, <4>1, <4>2, <4>3, PersistStep
    <3> QED
      BY <2>4, <3>3, <3>4 DEF ApplyFillTx
  <2>5. CASE MarkBatchProcessed
    <3>1. posted' = posted /\ crashes' = crashes /\ worker' = Idle
      BY <2>5 DEF MarkBatchProcessed
    <3>2. CASE PgFails
      BY <2>0, <3>1, <3>2, FaultAbsorbs DEF PgFails, Faults
    <3>3. CASE PgCommits /\ processed_batches' = processed_batches \cup {worker.batch.id}
      <4>1. ASSUME NEW t \in Tables, NEW x \in BatchSet, NEW i \in DOMAIN x.fills,
                   Written(t, x, i)
            PROVE  Written(t, x, i)'
        BY <3>1, <3>3, <4>1 DEF Written, Passed, WorkingOn
      <4>2. Faults' = Faults
        BY <3>1, <3>3 DEF PgCommits, Faults
      <4> QED
        BY <3>1, <4>1, <4>2, WrittenKept
    <3> QED
      BY <2>5, <3>2, <3>3 DEF MarkBatchProcessed
  <2>6. CASE Crash
    BY <2>0, <2>6, FaultAbsorbs DEF Crash, Faults, pg
  <2>7. ASSUME NEW m \in mirrors, MirrorToAccounts(m)
        PROVE  PostedInv'
    <3>1. CASE PgFails
      BY <2>0, <2>7, <3>1, FaultAbsorbs DEF MirrorToAccounts, PgFails, Faults
    <3>2. CASE PgCommits
      BY <2>7, <3>2 DEF MirrorToAccounts, PgCommits, Faults, PostedInv, Written, Passed,
                        WorkingOn
    <3> QED
      BY <2>7, <3>1, <3>2 DEF MirrorToAccounts
  <2>8. CASE UNCHANGED <<posted, worker, processed_batches, pgFaults, crashes>>
    BY <2>8 DEF PostedInv, Faults, Written, Passed, WorkingOn
  <2>9. \/ \E b \in BatchSet : BeginBatch(b)
        \/ \E m \in mirrors : MirrorToAccounts(m)
        \/ BatchThread \/ Crash
        \/ UNCHANGED <<posted, worker, processed_batches, pgFaults, crashes>>
    BY DEF Next, ReserveFunds, ReleaseFunds, BeginGroup, SettleLeg, EndGroup, vars, pg
  <2> QED
    BY <2>1, <2>2, <2>3, <2>4, <2>5, <2>6, <2>7, <2>8, <2>9 DEF BatchThread
<1>3. TypeOK /\ PostedInv => PostedAtMostOncePlusFaults
  <2> SUFFICES ASSUME TypeOK, PostedInv, NEW k \in Postings
               PROVE  posted[k] <= 1 + pgFaults + crashes
    BY DEF PostedAtMostOncePlusFaults
  <2>1. PICK t \in Tables, b \in BatchSet : \E i \in DOMAIN b.fills : k = <<t, b, i>>
    BY PostingShape
  <2>2. PICK i \in DOMAIN b.fills : k = <<t, b, i>>
    BY <2>1
  <2>3. posted[k] <= Faults + 1 /\ posted[k] \in Nat
    BY <2>2, PostedNat DEF PostedInv
  <2>4. pgFaults \in Nat /\ crashes \in Nat
    BY ConstantsAssumption DEF TypeOK
  <2> QED
    BY <2>3, <2>4 DEF Faults
<1> QED
  BY <1>1, <1>2, <1>3, TypeCorrect, PTL DEF Spec
-----------------------------------------------------------------------------
(* Nothing stays reserved without an open reservation behind it.  The      *)
(* statement is about the moments without the mutex; it is kept at every   *)
(* step of the critical sections too, because a fill takes the same amount *)
(* from both sides of it.                                                  *)
Open(r, u, c) == {o \in DOMAIN r : OrderInfo[o].user = u /\ ReserveCurrency(o) = c}
Book(r) == DOMAIN r \subseteq Orders /\ IsFiniteSet(DOMAIN r) /\ r \in [DOMAIN r -> Int]
Backed(b, r) ==
  \A u \in Users, c \in Currencies : b[u][c].reserved <= SumFunctionOnSet(r, Open(r, u, c))

ReservedInv == IsFiniteSet(DOMAIN reservations) /\ Backed(balances, reservations)

LEMMA PostReserved ==
  ASSUME NEW b \in BalanceTable, NEW u \in Users, NEW c \in Currencies,
         NEW x \in Int, NEW y \in Int
  PROVE  /\ Post(b, u, c, x, y) \in BalanceTable
         /\ \A v \in Users, k \in Currencies :
              Post(b, u, c, x, y)[v][k].reserved =
                b[v][k].reserved + (IF v = u /\ k = c THEN y ELSE 0)
<1>1. ASSUME NEW v \in Users, NEW k \in Currencies
      PROVE  Post(b, u, c, x, y)[v][k].reserved = b[v][k].reserved + (IF v = u /\ k = c THEN y ELSE 0)
  <2>1. Post(b, u, c, x, y)[v][k] =
          IF v = u /\ k = c
          THEN [available |-> b[u][c].available + x, reserved |-> b[u][c].reserved + y]
          ELSE b[v][k]
    BY PostSpec
  <2>2. b[v][k].reserved \in Int
    BY DEF BalanceTable, Balance
  <2>3. CASE v = u /\ k = c
    BY <2>1, <2>3
  <2>4. CASE ~(v = u /\ k = c)
    <3>1. Post(b, u, c, x, y)[v][k].reserved = b[v][k].reserved
      BY <2>1, <2>4
    <3> QED
      BY <2>2, <2>4, <3>1
  <2> QED
    BY <2>3, <2>4
<1> QED
  BY <1>1, PostSpec

LEMMA PostKeepsReserved ==
  ASSUME NEW b \in BalanceTable, NEW u \in Users, NEW c \in Currencies, NEW x \in Int
  PROVE  /\ Post(b, u, c, x, 0) \in BalanceTable
         /\ \A v \in Users, k \in Currencies : Post(b, u, c, x, 0)[v][k].reserved = b[v][k].reserved
<1>1. \A v \in Users, k \in Currencies : b[v][k].reserved \in Int
  BY DEF BalanceTable, Balance
<1>2. 0 \in Int
  OBVIOUS
<1> QED
  BY <1>1, <1>2, PostReserved

(* What the order o adds to the open reservations of an account, and these *)
(* without it.                                                             *)
Share(r, o, u, c) == IF o \in Open(r, u, c) THEN r[o] ELSE 0

LEMMA OpenSplit ==
  ASSUME NEW r, Book(r), NEW u, NEW c, NEW o
  PROVE  /\ SumFunctionOnSet(r, Open(r, u, c)) \in Int
         /\ SumFunctionOnSet(r, Open(r, u, c) \ {o}) \in Int
         /\ SumFunctionOnSet(r, Open(r, u, c)) =
              SumFunctionOnSet(r, Open(r, u, c) \ {o}) + Share(r, o, u, c)
<1> DEFINE S == Open(r, u, c)
<1>1. IsFiniteSet(S) /\ \A x \in S : r[x] \in Int
  BY FS_Subset DEF Open, Book
<1> HIDE DEF S
<1>2. SumFunctionOnSet(r, S) \in Int
  BY <1>1, SumType
<1>3. CASE o \in S
  <2>1. /\ SumFunctionOnSet(r, S \ {o}) \in Int /\ r[o] \in Int
        /\ SumFunctionOnSet(r, S) = r[o] + SumFunctionOnSet(r, S \ {o})
    BY <1>1, <1>3, SumSplit
  <2> QED
    BY <1>2, <1>3, <2>1 DEF S, Share
<1>4. CASE o \notin S
  <2>1. S \ {o} = S
    BY <1>4
  <2> QED
    BY <1>2, <1>4, <2>1 DEF S, Share
<1> QED
  BY <1>3, <1>4

LEMMA OpenRest ==
  ASSUME NEW r, NEW q, Book(r), NEW o, DOMAIN q \ {o} = DOMAIN r \ {o},
         \A x \in DOMAIN r \ {o} : q[x] = r[x], NEW u, NEW c
  PROVE  SumFunctionOnSet(q, Open(q, u, c) \ {o}) = SumFunctionOnSet(r, Open(r, u, c) \ {o})
<1> DEFINE S == Open(r, u, c) \ {o}
<1>1. Open(q, u, c) \ {o} = S
  BY DEF Open
<1>2. IsFiniteSet(S) /\ \A x \in S : r[x] \in Int /\ r[x] = q[x]
  BY FS_Subset DEF Open, Book
<1> HIDE DEF S
<1>3. SumFunctionOnSet(r, S) = SumFunctionOnSet(q, S)
  BY <1>2, SumSame
<1> QED
  BY <1>1, <1>3 DEF S

(* A step that moves the reservation of one order from d to e and takes as *)
(* much from the reserved balance of its account, or more, keeps it backed.*)
LEMMA BackedMove ==
  ASSUME NEW b \in BalanceTable, NEW k \in BalanceTable, NEW r, NEW q, Book(r), Book(q),
         NEW o \in Orders, DOMAIN q \ {o} = DOMAIN r \ {o}, \A x \in DOMAIN r \ {o} : q[x] = r[x],
         NEW y \in Int,
         \A u \in Users, c \in Currencies :
           k[u][c].reserved = b[u][c].reserved
                                + (IF u = OrderInfo[o].user /\ c = ReserveCurrency(o) THEN y ELSE 0),
         y <= (IF o \in DOMAIN q THEN q[o] ELSE 0) - (IF o \in DOMAIN r THEN r[o] ELSE 0),
         Backed(b, r)
  PROVE  Backed(k, q)
<1> SUFFICES ASSUME NEW u \in Users, NEW c \in Currencies
             PROVE  k[u][c].reserved <= SumFunctionOnSet(q, Open(q, u, c))
  BY DEF Backed
<1> DEFINE v == SumFunctionOnSet(r, Open(r, u, c) \ {o})
<1>1. /\ v \in Int /\ SumFunctionOnSet(r, Open(r, u, c)) = v + Share(r, o, u, c)
      /\ SumFunctionOnSet(q, Open(q, u, c)) = v + Share(q, o, u, c)
  <2>1. v \in Int /\ SumFunctionOnSet(r, Open(r, u, c)) = v + Share(r, o, u, c)
    BY OpenSplit
  <2>2. SumFunctionOnSet(q, Open(q, u, c)) =
          SumFunctionOnSet(q, Open(q, u, c) \ {o}) + Share(q, o, u, c)
    BY OpenSplit
  <2>3. SumFunctionOnSet(q, Open(q, u, c) \ {o}) = v
    BY OpenRest
  <2> HIDE DEF v
  <2> QED
    BY <2>1, <2>2, <2>3
<1>2. /\ b[u][c].reserved \in Int
      /\ b[u][c].reserved <= v + Share(r, o, u, c)
  BY <1>1 DEF Backed, BalanceTable, Balance
<1>3. /\ o \in DOMAIN r => r[o] \in Int
      /\ o \in DOMAIN q => q[o] \in Int
  BY DEF Book
<1> HIDE DEF v
<1>4. CASE u = OrderInfo[o].user /\ c = ReserveCurrency(o)
  <2>1. (o \in Open(r, u, c) <=> o \in DOMAIN r) /\ (o \in Open(q, u, c) <=> o \in DOMAIN q)
    BY <1>4 DEF Open
  <2>2. k[u][c].reserved = b[u][c].reserved + y
    BY <1>4
  <2> QED
    BY <1>1, <1>2, <1>3, <2>1, <2>2 DEF Share
<1>5. CASE ~(u = OrderInfo[o].user /\ c = ReserveCurrency(o))
  <2>1. o \notin Open(r, u, c) /\ o \notin Open(q, u, c)
    BY <1>5 DEF Open
  <2>2. k[u][c].reserved = b[u][c].reserved + 0
    BY <1>5
  <2> QED
    BY <1>1, <1>2, <2>1, <2>2 DEF Share
<1> QED
  BY <1>4, <1>5

LEMMA BookNow == TypeOK /\ ReservedInv => Book(reservations) /\ balances \in BalanceTable
  BY DEF TypeOK, ReservedInv, Book, BalanceTable

LEMMA FewerBooked ==
  ASSUME NEW r, Book(r), NEW q, DOMAIN q \subseteq DOMAIN r, q \in [DOMAIN q -> Int]
  PROVE  Book(q)
  BY FS_Subset DEF Book

LEMMA ReserveBacked ==
  ASSUME TypeOK, ReservedInv, NEW o \in Orders, NEW ok \in BOOLEAN, ReserveFunds(o, ok)
  PROVE  ReservedInv'
<1>1. CASE UNCHANGED <<balances, reservations>>
  BY <1>1 DEF ReservedInv, Backed, Open
<1>2. CASE ~UNCHANGED <<balances, reservations>>
  <2> DEFINE w == ReserveAmount(o)
             q == [x \in DOMAIN reservations \cup {o} |-> IF x = o THEN w ELSE reservations[x]]
             k == Post(balances, OrderInfo[o].user, ReserveCurrency(o), -w, w)
  <2>1. o \notin DOMAIN reservations /\ reservations' = q /\ balances' = k
    BY <1>2 DEF ReserveFunds, ToReserved
  <2>2. w \in Int /\ -w \in Int /\ OrderInfo[o].user \in Users /\ ReserveCurrency(o) \in Currencies
    BY ReserveType
  <2>3. Book(reservations) /\ balances \in BalanceTable /\ Backed(balances, reservations)
    BY BookNow DEF ReservedInv
  <2>4. k \in BalanceTable
    BY <2>2, <2>3, PostSpec
  <2>5. \A u \in Users, c \in Currencies :
          k[u][c].reserved = balances[u][c].reserved
                               + (IF u = OrderInfo[o].user /\ c = ReserveCurrency(o) THEN w ELSE 0)
    BY <2>2, <2>3, PostReserved
  <2>6. Book(q) /\ IsFiniteSet(DOMAIN q)
    <3>1. IsFiniteSet(DOMAIN reservations \cup {o})
      BY <2>3, FS_AddElement DEF Book
    <3>2. DOMAIN q = DOMAIN reservations \cup {o} /\ q \in [DOMAIN q -> Int]
      BY <2>2, <2>3 DEF Book
    <3> QED
      BY <2>3, <3>1, <3>2 DEF Book
  <2>7. /\ DOMAIN q \ {o} = DOMAIN reservations \ {o} /\ o \in DOMAIN q /\ q[o] = w
        /\ \A x \in DOMAIN reservations \ {o} : q[x] = reservations[x]
    OBVIOUS
  <2> HIDE DEF k, q, w
  <2>8. w <= (IF o \in DOMAIN q THEN q[o] ELSE 0) - (IF o \in DOMAIN reservations THEN reservations[o] ELSE 0)
    BY <2>1, <2>2, <2>7
  <2>9. Backed(k, q)
    BY <2>2, <2>3, <2>4, <2>5, <2>6, <2>7, <2>8, BackedMove
  <2> QED
    BY <2>1, <2>6, <2>9 DEF ReservedInv, Backed, Open
<1> QED
  BY <1>1, <1>2

(* What a call or a terminal update gives back comes from its reservation. *)
LEMMA ReleaseBacked ==
  ASSUME TypeOK, ReservedInv, NEW o \in Orders, NEW x \in Int,
         x >= (IF o \in DOMAIN reservations THEN reservations[o] ELSE 0),
         balances' = ToAvailable(balances, OrderInfo[o].user, ReserveCurrency(o), x),
         reservations' = Remove(reservations, o)
  PROVE  ReservedInv'
<1> DEFINE q == Remove(reservations, o)
           k == Post(balances, OrderInfo[o].user, ReserveCurrency(o), x, -x)
<1>1. balances' = k
  BY DEF ToAvailable
<1>2. -x \in Int /\ OrderInfo[o].user \in Users /\ ReserveCurrency(o) \in Currencies
  BY ReserveType
<1>3. Book(reservations) /\ balances \in BalanceTable /\ Backed(balances, reservations)
  BY BookNow DEF ReservedInv
<1>4. k \in BalanceTable
  BY <1>2, <1>3, PostSpec
<1>5. \A u \in Users, c \in Currencies :
        k[u][c].reserved = balances[u][c].reserved
                             + (IF u = OrderInfo[o].user /\ c = ReserveCurrency(o) THEN -x ELSE 0)
  BY <1>2, <1>3, PostReserved
<1>6. /\ DOMAIN q = DOMAIN reservations \ {o} /\ o \notin DOMAIN q /\ q \in [DOMAIN q -> Int]
      /\ DOMAIN q \ {o} = DOMAIN reservations \ {o}
      /\ \A z \in DOMAIN reservations \ {o} : q[z] = reservations[z]
  BY <1>3 DEF Remove, Book
<1> HIDE DEF k, q
<1>7. Book(q) /\ IsFiniteSet(DOMAIN q)
  <2>1. Book(q)
    BY <1>3, <1>6, FewerBooked
  <2> QED
    BY <2>1 DEF Book
<1>8. -x <= (IF o \in DOMAIN q THEN q[o] ELSE 0) - (IF o \in DOMAIN reservations THEN reservations[o] ELSE 0)
  BY <1>3, <1>6 DEF Book
<1>9. Backed(k, q)
  BY <1>2, <1>3, <1>4, <1>5, <1>6, <1>7, <1>8, BackedMove
<1> QED
  BY <1>1, <1>7, <1>9 DEF ReservedInv, Backed, Open, q

LEMMA SettleBacked ==
  ASSUME TypeOK, ReservedInv, SettleFill
  PROVE  ReservedInv'
<1> DEFINE f == worker.batch.fills[worker.i]
           o == f.order
           q == [x \in DOMAIN reservations |-> IF x = o THEN reservations[x] - Spend(f) ELSE reservations[x]]
           k1 == Post(balances, f.user, SpendCurrency(f), 0, -Spend(f))
           k2 == Post(k1, f.user, GainCurrency(f), Gain(f), 0)
           k == Post(k2, f.user, QuoteOf[f.ins], -f.fee, 0)
<1>1. worker.batch \in BatchSet /\ worker.i \in DOMAIN worker.batch.fills
  BY WorkerBusy DEF SettleFill, WorkerAt, WorkerType, Idle
<1>2. f \in Fill
  BY <1>1, FillType
<1>3. balances' = k /\ reservations' = q
  BY DEF SettleFill
<1>4. f.user = OrderInfo[o].user /\ f.ins = OrderInfo[o].ins /\ f.side = OrderInfo[o].side
  BY <1>1, FillAssumption
<1> HIDE DEF f
<1>5. /\ o \in Orders /\ f.user \in Users /\ SpendCurrency(f) \in Currencies /\ GainCurrency(f) \in Currencies
      /\ QuoteOf[f.ins] \in Currencies /\ -f.fee \in Int /\ 0 \in Int
      /\ Spend(f) \in Int /\ -Spend(f) \in Int /\ Gain(f) \in Int
  BY <1>2, FillAmounts, ConstantsAssumption DEF Fill
<1>6. SpendCurrency(f) = ReserveCurrency(o)
  BY <1>4 DEF SpendCurrency, ReserveCurrency
<1>7. Book(reservations) /\ balances \in BalanceTable /\ Backed(balances, reservations)
  BY BookNow DEF ReservedInv
<1>8. /\ k1 \in BalanceTable
      /\ \A u \in Users, c \in Currencies :
           k1[u][c].reserved = balances[u][c].reserved
                                + (IF u = f.user /\ c = SpendCurrency(f) THEN -Spend(f) ELSE 0)
  <2> DEFINE y == -Spend(f)
             z == 0
  <2>1. /\ balances \in BalanceTable /\ f.user \in Users /\ SpendCurrency(f) \in Currencies
        /\ y \in Int /\ z \in Int
    BY <1>5, <1>7
  <2> HIDE DEF y, z
  <2>2. /\ Post(balances, f.user, SpendCurrency(f), z, y) \in BalanceTable
        /\ \A u \in Users, c \in Currencies :
             Post(balances, f.user, SpendCurrency(f), z, y)[u][c].reserved =
               balances[u][c].reserved + (IF u = f.user /\ c = SpendCurrency(f) THEN y ELSE 0)
    BY <2>1, PostReserved
  <2> QED
    BY <2>2, Zenon DEF y, z
<1> HIDE DEF k1
<1>9. k2 \in BalanceTable /\ \A u \in Users, c \in Currencies : k2[u][c].reserved = k1[u][c].reserved
  <2>1. k1 \in BalanceTable /\ f.user \in Users /\ GainCurrency(f) \in Currencies /\ Gain(f) \in Int
    BY <1>5, <1>8
  <2> QED
    BY <2>1, PostKeepsReserved, Zenon
<1> HIDE DEF k2
<1>10. k \in BalanceTable /\ \A u \in Users, c \in Currencies : k[u][c].reserved = k2[u][c].reserved
  <2>1. k2 \in BalanceTable /\ f.user \in Users /\ QuoteOf[f.ins] \in Currencies /\ -f.fee \in Int
    BY <1>5, <1>9
  <2> QED
    BY <2>1, PostKeepsReserved, Zenon
<1> HIDE DEF k
<1>11. \A u \in Users, c \in Currencies :
         k[u][c].reserved = balances[u][c].reserved
                              + (IF u = OrderInfo[o].user /\ c = ReserveCurrency(o) THEN -Spend(f) ELSE 0)
  BY <1>4, <1>6, <1>8, <1>9, <1>10
<1>12. /\ DOMAIN q = DOMAIN reservations /\ q \in [DOMAIN q -> Int] /\ DOMAIN q \ {o} = DOMAIN reservations \ {o}
       /\ \A x \in DOMAIN reservations \ {o} : q[x] = reservations[x]
       /\ o \in DOMAIN reservations => q[o] = reservations[o] - Spend(f) /\ reservations[o] \in Int
  BY <1>5, <1>7 DEF Book
<1> HIDE DEF q, o
<1>13. Book(q) /\ IsFiniteSet(DOMAIN q)
  <2>1. Book(q)
    BY <1>7, <1>12, FewerBooked
  <2> QED
    BY <2>1 DEF Book
<1>14. -Spend(f) <= (IF o \in DOMAIN q THEN q[o] ELSE 0) - (IF o \in DOMAIN reservations THEN reservations[o] ELSE 0)
  <2>1. Spend(f) \in Nat
    BY <1>2, FillAmounts
  <2> QED
    BY <1>12, <2>1
<1>15. Backed(k, q)
  BY <1>5, <1>7, <1>10, <1>11, <1>12, <1>13, <1>14, BackedMove
<1> QED
  BY <1>3, <1>13, <1>15 DEF ReservedInv, Backed, Open

LEMMA SweepBacked ==
  ASSUME TypeOK, ReservedInv, SweepConsumed
  PROVE  ReservedInv'
<1> DEFINE q == [x \in {o \in DOMAIN reservations : reservations[o] > 0} |-> reservations[x]]
<1>1. reservations' = q /\ balances' = balances
  BY DEF SweepConsumed
<1>2. Book(reservations) /\ balances \in BalanceTable /\ Backed(balances, reservations)
  BY BookNow DEF ReservedInv
<1>3. Book(q) /\ IsFiniteSet(DOMAIN q)
  <2>1. DOMAIN q \subseteq DOMAIN reservations /\ q \in [DOMAIN q -> Int]
    BY <1>2 DEF Book
  <2> HIDE DEF q
  <2>2. Book(q)
    BY <1>2, <2>1, FewerBooked
  <2> QED
    BY <2>2 DEF Book
<1>4. ASSUME NEW u \in Users, NEW c \in Currencies
      PROVE  balances[u][c].reserved <= SumFunctionOnSet(q, Open(q, u, c))
  <2> DEFINE S == Open(reservations, u, c)
             T == Open(q, u, c)
  <2>1. IsFiniteSet(S) /\ IsFiniteSet(T) /\ T \in SUBSET S
    BY <1>2, <1>3, FS_Subset DEF Open, Book
  <2>2. \A x \in S : reservations[x] \in Int
    BY <1>2 DEF Open, Book
  <2>3. \A x \in S \ T : reservations[x] <= 0
    BY <2>2 DEF Open
  <2>4. \A x \in T : reservations[x] \in Int /\ reservations[x] = q[x]
    BY <2>1, <2>2 DEF Open
  <2>5. balances[u][c].reserved <= SumFunctionOnSet(reservations, S) /\ balances[u][c].reserved \in Int
    BY <1>2 DEF Backed, BalanceTable, Balance
  <2> HIDE DEF S, T, q
  <2>6. SumFunctionOnSet(reservations, S) <= SumFunctionOnSet(reservations, T)
    BY <2>1, <2>2, <2>3, SumOfPart
  <2>7. SumFunctionOnSet(reservations, T) = SumFunctionOnSet(q, T)
    BY <2>1, <2>4, SumSame
  <2>8. SumFunctionOnSet(reservations, S) \in Int /\ SumFunctionOnSet(reservations, T) \in Int
    BY <2>1, <2>2, <2>4, SumType
  <2>9. balances[u][c].reserved <= SumFunctionOnSet(q, T)
    BY <2>5, <2>6, <2>7, <2>8
  <2> QED
    BY <2>9 DEF T
<1> HIDE DEF q
<1> QED
  BY <1>1, <1>3, <1>4 DEF ReservedInv, Backed, Open

LEMMA StartBacked ==
  ASSUME NEW b, NEW r, NEW p, NEW s, InitMem(b, r, p, s)
  PROVE  IsFiniteSet(DOMAIN r) /\ Backed(b, r)
<1>1. DOMAIN r = {}
  BY DEF InitMem
<1>2. ASSUME NEW u \in Users, NEW c \in Currencies
      PROVE  b[u][c].reserved = 0 /\ SumFunctionOnSet(r, Open(r, u, c)) = 0
  <2>1. Open(r, u, c) = {}
    BY <1>1 DEF Open
  <2> QED
    BY <2>1, SumEmpty DEF InitMem
<1> QED
  BY <1>1, <1>2, FS_EmptySet DEF Backed

LEMMA StaysBacked ==
  ASSUME TypeOK, ReservedInv, [Next]_vars
  PROVE  ReservedInv'
<1>1. ASSUME NEW o \in Orders, ReleaseFunds(o) PROVE ReservedInv'
  <2>1. CASE UNCHANGED vars
    BY <2>1 DEF vars, mem, ReservedInv, Backed, Open
  <2>2. CASE ~UNCHANGED vars
    <3>1. /\ o \in DOMAIN reservations /\ reservations[o] \in Int
          /\ balances' = ToAvailable(balances, OrderInfo[o].user, ReserveCurrency(o), reservations[o])
          /\ reservations' = Remove(reservations, o)
      BY <1>1, <2>2 DEF ReleaseFunds, TypeOK
    <3>2. reservations[o] >= (IF o \in DOMAIN reservations THEN reservations[o] ELSE 0)
      BY <3>1
    <3> QED
      BY <3>1, <3>2, ReleaseBacked
  <2> QED
    BY <2>1, <2>2
<1>2. CASE ReleaseTerminal
  <2> DEFINE o == worker.batch.terminal[worker.i]
             x == Leftover(o)
  <2>1. o \in Orders
    BY <1>2, WorkerBusy, TerminalType DEF ReleaseTerminal, WorkerAt, WorkerType, Idle
  <2>2. /\ balances' = ToAvailable(balances, OrderInfo[o].user, ReserveCurrency(o), x)
        /\ reservations' = Remove(reservations, o)
    BY <1>2 DEF ReleaseTerminal
  <2>3. x \in Int /\ x >= (IF o \in DOMAIN reservations THEN reservations[o] ELSE 0)
    <3> HIDE DEF o
    <3> QED
      BY DEF Leftover, TypeOK
  <2> HIDE DEF o, x
  <2> QED
    BY <2>1, <2>2, <2>3, ReleaseBacked
<1>3. CASE SettleLeg
  <2> DEFINE g == gworker.group
             l == g.legs[gworker.i]
             k1 == Post(balances, g.user, SpendCurrency(l), -Spend(l), 0)
             k == Post(k1, g.user, GainCurrency(l), Gain(l), 0)
  <2>1. g \in GroupSet /\ gworker.i \in DOMAIN g.legs
    BY <1>3, GWorkerBusy DEF SettleLeg, GWorkerType, Idle
  <2>2. g.user \in Users /\ l \in Leg
    BY <2>1, LegType
  <2>3. balances' = k /\ reservations' = reservations
    BY <1>3 DEF SettleLeg
  <2> HIDE DEF g, l
  <2>4. /\ SpendCurrency(l) \in Currencies /\ GainCurrency(l) \in Currencies
        /\ -Spend(l) \in Int /\ Gain(l) \in Int /\ 0 \in Int
    BY <2>2, FillAmounts
  <2>5. balances \in BalanceTable
    BY BookNow
  <2>6. k1 \in BalanceTable /\ \A u \in Users, c \in Currencies : k1[u][c].reserved = balances[u][c].reserved
    <3>1. balances \in BalanceTable /\ g.user \in Users /\ SpendCurrency(l) \in Currencies /\ -Spend(l) \in Int
      BY <2>2, <2>4, <2>5
    <3> QED
      BY <3>1, PostKeepsReserved, Zenon
  <2> HIDE DEF k1
  <2>7. \A u \in Users, c \in Currencies : k[u][c].reserved = k1[u][c].reserved
    <3>1. k1 \in BalanceTable /\ g.user \in Users /\ GainCurrency(l) \in Currencies /\ Gain(l) \in Int
      BY <2>2, <2>4, <2>6
    <3> QED
      BY <3>1, PostKeepsReserved, Zenon
  <2> HIDE DEF k
  <2> QED
    BY <2>3, <2>6, <2>7 DEF ReservedInv, Backed, Open
<1>4. CASE Crash
  <2>1. InitMem(balances, reservations, positions, seen_execution_group_ids)'
    BY <1>4 DEF Crash
  <2>2. IsFiniteSet(DOMAIN reservations') /\ Backed(balances', reservations')
    BY <2>1, StartBacked DEF InitMem
  <2> QED
    BY <2>2 DEF ReservedInv, Backed, Open
<1>5. CASE UNCHANGED <<balances, reservations>>
  BY <1>5 DEF ReservedInv, Backed, Open
<1>6. \/ \E o \in Orders : \E ok \in BOOLEAN : ReserveFunds(o, ok)
      \/ \E o \in Orders : ReleaseFunds(o)
      \/ SettleFill \/ ReleaseTerminal \/ SweepConsumed \/ SettleLeg \/ Crash
      \/ UNCHANGED <<balances, reservations>>
  BY DEF Next, BatchThread, MirrorToAccounts, BeginBatch, LockForBatch, EndFills, EndUpdates,
         PersistPosition, PersistEntries, PersistLegacy, ApplyFillTx, MarkBatchProcessed,
         BeginGroup, EndGroup, vars, mem
<1> QED
  BY <1>1, <1>2, <1>3, <1>4, <1>5, <1>6, ReserveBacked, SettleBacked, SweepBacked

(* Whatever the order of reserve, release, fills of cancelled orders,      *)
(* terminal updates, combo groups and restarts, no money stays reserved    *)
(* without an open reservation behind it.                                  *)
THEOREM NothingLeaks == Spec => []ReservedNeverLeaks
<1>1. Init => ReservedInv
  BY StartBacked DEF Init, ReservedInv
<1>2. TypeOK /\ ReservedInv /\ [Next]_vars => ReservedInv'
  BY StaysBacked
<1>3. ReservedInv => ReservedNeverLeaks
  BY DEF ReservedInv, Backed, Open, ReservedNeverLeaks, SumReserved
<1> QED
  BY <1>1, <1>2, <1>3, TypeCorrect, PTL DEF Spec
-----------------------------------------------------------------------------
(* The book of hedges.  The summary is compared with the sum over the      *)
(* records it was built from, so a record must be new whenever one is      *)
(* appended: every record comes from a hedge of a caller or from a fill    *)
(* that was applied, and no two of them are the same hedge unless they are *)
(* both of callers.                                                        *)
PnLOf(k) == SumOfPnL(OfKey(hedge_pnl_records, k))

BookInv ==
  /\ BookTypeOK
  /\ IsFiniteSet(hedge_pnl_records)
  /\ \A r \in hedge_pnl_records : \E h \in Hedges \cup seenFills : r = Recorded(h)
  /\ \A k \in Venues \X Symbols : hedge_pnl_summary[k] = PnLOf(k)
  /\ BookedIsStored
  /\ \A v \in Venues : venueBalances[v].available = venueBalances[v].total - venueBalances[v].reserved

LEMMA PnLIsInt == ASSUME HedgeBookAssumption, NEW h \in Hedges \cup HedgeFills PROVE HedgePnL(h) \in Int
<1>1. h.price \in Nat /\ h.internal \in Nat /\ h.qty \in Nat
  BY DEF HedgeBookAssumption
<1> DEFINE d == h.price - h.internal
           s == IF h.side = "BUY" THEN -1 ELSE 1
<1>2. d \in Int /\ s \in Int
  BY <1>1
<1>3. s * d \in Int
  BY <1>2
<1> QED
  BY <1>1, <1>3 DEF HedgePnL

(* A record has the fields of its hedge.                                   *)
LEMMA RecordFields ==
  ASSUME NEW h
  PROVE  /\ Recorded(h).venue = h.venue /\ Recorded(h).symbol = h.symbol
         /\ Recorded(h).id = h.id /\ Recorded(h).pnl = HedgePnL(h) /\ Recorded(h).time = h.time
  BY DEF Recorded

(* Sums of PnL: of nothing, and with one record more.                      *)
LEMMA NoPnL == SumOfPnL({}) = 0
  BY SumEmpty DEF SumOfPnL

LEMMA MorePnL ==
  ASSUME NEW S, IsFiniteSet(S), \A r \in S : r.pnl \in Int, NEW x, x \notin S, x.pnl \in Int
  PROVE  SumOfPnL(S \cup {x}) = SumOfPnL(S) + x.pnl
<1> DEFINE T == S \cup {x}
           f == [r \in T |-> r.pnl]
           e == [r \in S |-> r.pnl]
<1>1. IsFiniteSet(T)
  BY FS_AddElement
<1>2. \A r \in T : f[r] = r.pnl /\ f[r] \in Int
  OBVIOUS
<1>3. x \in T /\ T \ {x} = S /\ f[x] = x.pnl
  OBVIOUS
<1>4. \A r \in S : e[r] \in Int /\ e[r] = f[r]
  OBVIOUS
<1> HIDE DEF T, f, e
<1>5. /\ SumFunctionOnSet(f, T) \in Int /\ SumFunctionOnSet(f, S) \in Int
      /\ SumFunctionOnSet(f, T) = x.pnl + SumFunctionOnSet(f, S)
  BY <1>1, <1>2, <1>3, SumSplit
<1>6. SumFunctionOnSet(e, S) = SumFunctionOnSet(f, S)
  BY <1>4, SumSame
<1>7. SumOfPnL(T) = SumFunctionOnSet(f, T) /\ SumOfPnL(S) = SumFunctionOnSet(e, S)
  BY DEF SumOfPnL, f, e
<1>8. SumOfPnL(T) = SumOfPnL(S) + x.pnl
  BY <1>5, <1>6, <1>7
<1> QED
  BY <1>8 DEF T

(* A new record keeps the summary, the type and the origin of the records. *)
LEMMA AppendKeeps ==
  ASSUME HedgeBookAssumption, BookInv, NEW h \in Hedges \cup HedgeFills, AppendRecord(h),
         ~Duplicate(h)
  PROVE  /\ hedge_pnl_records' \subseteq {Recorded(g) : g \in Hedges \cup HedgeFills}
         /\ hedge_pnl_summary' \in [Venues \X Symbols -> Int]
         /\ IsFiniteSet(hedge_pnl_records')
         /\ \A k \in Venues \X Symbols : hedge_pnl_summary'[k] = SumOfPnL(OfKey(hedge_pnl_records', k))
<1> DEFINE x == Recorded(h)
           R == hedge_pnl_records
           hk == <<h.venue, h.symbol>>
<1>1. HedgePnL(h) \in Int /\ hk \in Venues \X Symbols
  BY PnLIsInt DEF HedgeBookAssumption
<1>2. /\ x.venue = h.venue /\ x.symbol = h.symbol /\ x.id = h.id /\ x.pnl = HedgePnL(h)
  BY RecordFields
<1>3. x \notin R
  BY <1>2 DEF Duplicate, SameHedge
<1>4. /\ hedge_pnl_records' = R \cup {x}
      /\ hedge_pnl_summary' = [hedge_pnl_summary EXCEPT ![hk] = @ + HedgePnL(h)]
  BY DEF AppendRecord
<1>5. /\ R \subseteq {Recorded(g) : g \in Hedges \cup HedgeFills} /\ IsFiniteSet(R)
      /\ hedge_pnl_summary \in [Venues \X Symbols -> Int]
      /\ \A k \in Venues \X Symbols : hedge_pnl_summary[k] = SumOfPnL(OfKey(R, k))
  BY DEF BookInv, BookTypeOK, PnLOf
<1>6. \A r \in R : r.pnl \in Int
  BY <1>5, PnLIsInt, RecordFields
<1> HIDE DEF x
<1>7. IsFiniteSet(R \cup {x})
  BY <1>5, FS_AddElement
<1>8. ASSUME NEW k \in Venues \X Symbols
      PROVE  hedge_pnl_summary'[k] = SumOfPnL(OfKey(R \cup {x}, k))
  <2>1. CASE k = hk
    <3>1. OfKey(R \cup {x}, k) = OfKey(R, k) \cup {x}
      BY <1>2, <2>1 DEF OfKey
    <3>2. IsFiniteSet(OfKey(R, k)) /\ x \notin OfKey(R, k) /\ \A r \in OfKey(R, k) : r.pnl \in Int
      BY <1>3, <1>5, <1>6, FS_Subset DEF OfKey
    <3>3. SumOfPnL(OfKey(R, k) \cup {x}) = SumOfPnL(OfKey(R, k)) + x.pnl
      BY <1>1, <1>2, <3>2, MorePnL
    <3>4. hedge_pnl_summary'[k] = hedge_pnl_summary[k] + HedgePnL(h)
      BY <1>4, <1>5, <2>1
    <3> QED
      BY <1>2, <1>5, <3>1, <3>3, <3>4
  <2>2. CASE k # hk
    <3>1. k = <<k[1], k[2]>>
      OBVIOUS
    <3>2. OfKey(R \cup {x}, k) = OfKey(R, k)
      BY <1>2, <2>2, <3>1 DEF OfKey
    <3>3. hedge_pnl_summary'[k] = hedge_pnl_summary[k]
      BY <1>4, <1>5, <2>2
    <3> QED
      BY <1>5, <3>2, <3>3
  <2> QED
    BY <2>1, <2>2
<1>9. R \cup {x} \subseteq {Recorded(g) : g \in Hedges \cup HedgeFills}
  BY <1>5 DEF x
<1>10. [hedge_pnl_summary EXCEPT ![hk] = @ + HedgePnL(h)] \in [Venues \X Symbols -> Int]
  BY <1>1, <1>5
<1> QED
  BY <1>4, <1>7, <1>8, <1>9, <1>10

(* A fill that was not applied is new to the records.                      *)
LEMMA FillIsNew ==
  ASSUME HedgeBookAssumption, BookInv, NEW f \in HedgeFills, f \notin seenFills
  PROVE  ~Duplicate(f)
<1> SUFFICES ASSUME NEW r \in hedge_pnl_records, SameHedge(r, f) PROVE FALSE
  BY DEF Duplicate
<1>1. PICK h \in Hedges \cup seenFills : r = Recorded(h)
  BY DEF BookInv
<1>2. SameHedge(f, h)
  BY <1>1, RecordFields DEF SameHedge
<1> QED
  BY <1>1, <1>2 DEF HedgeBookAssumption, BookInv, BookTypeOK

LEMMA BookInitInv == ASSUME HedgeBookAssumption, BookInit PROVE BookInv
<1> USE DEF BookInit, EmptyBook
<1>1. BookTypeOK
  BY DEF BookTypeOK
<1>2. IsFiniteSet(hedge_pnl_records)
  BY FS_EmptySet
<1>3. ASSUME NEW k \in Venues \X Symbols PROVE hedge_pnl_summary[k] = PnLOf(k)
  <2>1. OfKey(hedge_pnl_records, k) = {}
    BY DEF OfKey
  <2> QED
    BY <2>1, NoPnL DEF PnLOf
<1>4. BookedIsStored
  BY DEF BookedIsStored, Duplicate
<1>5. \A v \in Venues : venueBalances[v].available = venueBalances[v].total - venueBalances[v].reserved
  OBVIOUS
<1> QED
  BY <1>1, <1>2, <1>3, <1>4, <1>5 DEF BookInv

(* One step per action.                                                    *)
LEMMA BookNextInv == ASSUME HedgeBookAssumption, BookInv, [BookNext]_bookVars PROVE BookInv'
<1> USE DEF bookVars, bookMemory
<1>0. /\ BookTypeOK /\ IsFiniteSet(hedge_pnl_records) /\ BookedIsStored
      /\ \A r \in hedge_pnl_records : \E h \in Hedges \cup seenFills : r = Recorded(h)
      /\ \A k \in Venues \X Symbols : hedge_pnl_summary[k] = SumOfPnL(OfKey(hedge_pnl_records, k))
      /\ \A v \in Venues : venueBalances[v].available = venueBalances[v].total - venueBalances[v].reserved
  BY DEF BookInv, PnLOf
<1>1. CASE UNCHANGED bookVars
  BY <1>0, <1>1 DEF BookInv, BookTypeOK, PnLOf, BookedIsStored, Duplicate
<1>2. ASSUME NEW c \in Callers, CreateHedgeEntry(c) PROVE BookInv'
  <2> DEFINE h == inserting[c]
  <2>1. h \in Hedges /\ h # NoHedge
    BY <1>0, <1>2 DEF CreateHedgeEntry, BookTypeOK
  <2>2. /\ inserting' = [inserting EXCEPT ![c] = NoHedge]
        /\ UNCHANGED bookMemory
    BY <1>2 DEF CreateHedgeEntry
  <2>3. \/ /\ entries' = (IF h.id \in DOMAIN entries THEN entries
                          ELSE [i \in DOMAIN entries \cup {h.id} |->
                                  IF i = h.id THEN h ELSE entries[i]])
           /\ UNCHANGED refusedInserts
        \/ /\ refusedInserts' = refusedInserts \cup {h}
           /\ UNCHANGED entries
    BY <1>2 DEF CreateHedgeEntry
  <2> HIDE DEF h
  <2>4. BookTypeOK'
    <3>1. \A i \in DOMAIN entries' : entries'[i] \in Hedges /\ entries'[i].id = i
      BY <1>0, <2>1, <2>3 DEF BookTypeOK
    <3>2. inserting' \in [Callers -> Hedges \cup {NoHedge}]
      BY <1>0, <2>2 DEF BookTypeOK
    <3>3. refusedInserts' \subseteq Hedges
      BY <1>0, <2>1, <2>3 DEF BookTypeOK
    <3> QED
      BY <1>0, <2>2, <3>1, <3>2, <3>3 DEF BookTypeOK
  <2>5. BookedIsStored'
    <3> SUFFICES ASSUME NEW g \in Hedges, \E r \in hedge_pnl_records : SameHedge(r, g)
                 PROVE  \/ g.id \in DOMAIN entries'
                        \/ \E q \in refusedInserts' : SameHedge(q, g)
                        \/ \E d \in Callers : inserting'[d] # NoHedge /\ SameHedge(inserting'[d], g)
      BY <2>2 DEF BookedIsStored, Duplicate, SameHedge
    <3>1. CASE g.id \in DOMAIN entries
      BY <2>3, <3>1
    <3>2. CASE \E q \in refusedInserts : SameHedge(q, g)
      BY <2>3, <3>2
    <3>3. CASE \E d \in Callers : inserting[d] # NoHedge /\ SameHedge(inserting[d], g)
      <4>1. PICK d \in Callers : inserting[d] # NoHedge /\ SameHedge(inserting[d], g)
        BY <3>3
      <4>2. CASE d = c
        BY <2>3, <4>1, <4>2 DEF SameHedge, h
      <4>3. CASE d # c
        BY <1>0, <2>2, <4>1, <4>3 DEF BookTypeOK
      <4> QED
        BY <4>2, <4>3
    <3> QED
      BY <1>0, <3>1, <3>2, <3>3 DEF BookedIsStored, Duplicate
  <2> QED
    BY <1>0, <2>2, <2>4, <2>5 DEF BookInv, PnLOf
<1>3. ASSUME NEW c \in Callers, NEW h \in Hedges, RecordHedgeExecution(c, h) PROVE BookInv'
  <2>0. inserting[c] = NoHedge /\ UNCHANGED <<venueBalances, seenFills, entries, refusedInserts>>
    BY <1>3 DEF RecordHedgeExecution
  <2>1. CASE UNCHANGED <<hedge_pnl_records, hedge_pnl_summary, inserting>>
    BY <1>0, <2>0, <2>1 DEF BookInv, BookTypeOK, PnLOf, BookedIsStored, Duplicate
  <2>2. CASE ~Duplicate(h) /\ AppendRecord(h) /\ inserting' = [inserting EXCEPT ![c] = h]
    <3>1. /\ hedge_pnl_records' \subseteq {Recorded(g) : g \in Hedges \cup HedgeFills}
          /\ hedge_pnl_summary' \in [Venues \X Symbols -> Int]
          /\ IsFiniteSet(hedge_pnl_records')
          /\ \A k \in Venues \X Symbols : hedge_pnl_summary'[k] = SumOfPnL(OfKey(hedge_pnl_records', k))
      BY <2>2, AppendKeeps
    <3>2. hedge_pnl_records' = hedge_pnl_records \cup {Recorded(h)}
      BY <2>2 DEF AppendRecord
    <3>3. inserting' \in [Callers -> Hedges \cup {NoHedge}] /\ inserting'[c] = h /\ h # NoHedge
      BY <1>0, <2>2 DEF BookTypeOK, HedgeBookAssumption
    <3>4. BookTypeOK'
      BY <1>0, <2>0, <3>1, <3>3 DEF BookTypeOK
    <3>5. \A r \in hedge_pnl_records' : \E g \in Hedges \cup seenFills' : r = Recorded(g)
      BY <1>0, <2>0, <3>2
    <3>6. BookedIsStored'
      <4> SUFFICES ASSUME NEW g \in Hedges, NEW r \in hedge_pnl_records', SameHedge(r, g)
                   PROVE  \/ g.id \in DOMAIN entries
                          \/ \E q \in refusedInserts : SameHedge(q, g)
                          \/ \E d \in Callers : inserting'[d] # NoHedge /\ SameHedge(inserting'[d], g)
        BY <2>0 DEF BookedIsStored, Duplicate, SameHedge
      <4>1. CASE r = Recorded(h)
        BY <3>3, <4>1, RecordFields DEF SameHedge
      <4>2. CASE r \in hedge_pnl_records
        <5>1. \/ g.id \in DOMAIN entries
              \/ \E q \in refusedInserts : SameHedge(q, g)
              \/ \E d \in Callers : inserting[d] # NoHedge /\ SameHedge(inserting[d], g)
          BY <1>0, <4>2 DEF BookedIsStored, Duplicate
        <5>2. \A d \in Callers : inserting[d] # NoHedge => inserting'[d] = inserting[d]
          BY <1>0, <2>0, <2>2 DEF BookTypeOK
        <5> QED
          BY <5>1, <5>2
      <4> QED
        BY <3>2, <4>1, <4>2
    <3> QED
      BY <1>0, <2>0, <3>1, <3>4, <3>5, <3>6 DEF BookInv, PnLOf
  <2> QED
    BY <1>3, <2>1, <2>2 DEF RecordHedgeExecution
<1>4. ASSUME NEW f \in HedgeFills, ApplyFill(f) PROVE BookInv'
  <2> DEFINE b == venueBalances[f.venue]
             t == b.total + (IF f.side = "BUY" THEN f.qty ELSE -f.qty)
  <2>0. /\ f \notin seenFills /\ seenFills' = seenFills \cup {f} /\ AppendRecord(f)
        /\ UNCHANGED <<entries, inserting, refusedInserts>>
        /\ venueBalances' = [venueBalances EXCEPT ![f.venue] =
                               [b EXCEPT !.total = t, !.available = t - b.reserved]]
    BY <1>4 DEF ApplyFill
  <2>1. ~Duplicate(f)
    BY <2>0, FillIsNew
  <2>2. /\ hedge_pnl_records' \subseteq {Recorded(g) : g \in Hedges \cup HedgeFills}
        /\ hedge_pnl_summary' \in [Venues \X Symbols -> Int]
        /\ IsFiniteSet(hedge_pnl_records')
        /\ \A k \in Venues \X Symbols : hedge_pnl_summary'[k] = SumOfPnL(OfKey(hedge_pnl_records', k))
    BY <2>0, <2>1, AppendKeeps
  <2>3. hedge_pnl_records' = hedge_pnl_records \cup {Recorded(f)}
    BY <2>0 DEF AppendRecord
  <2>4. /\ b \in [total : Int, reserved : Nat, available : Int]
        /\ t \in Int
    <3>1. f.venue \in Venues /\ f.qty \in Nat
      BY DEF HedgeBookAssumption
    <3> QED
      BY <1>0, <3>1 DEF BookTypeOK
  <2> HIDE DEF t, b
  <2>5. /\ venueBalances' \in [Venues -> [total : Int, reserved : Nat, available : Int]]
        /\ \A v \in Venues : venueBalances'[v].available = venueBalances'[v].total - venueBalances'[v].reserved
    <3> DEFINE n == [b EXCEPT !.total = t, !.available = t - b.reserved]
    <3>1. b.reserved \in Nat /\ t - b.reserved \in Int
      BY <2>4
    <3>2. n.total = t /\ n.reserved = b.reserved /\ n.available = t - b.reserved
      BY <2>4
    <3>3. n \in [total : Int, reserved : Nat, available : Int]
      BY <2>4, <3>1
    <3>4. /\ n \in [total : Int, reserved : Nat, available : Int]
          /\ n.available = n.total - n.reserved
      BY <3>2, <3>3
    <3>5. venueBalances' = [venueBalances EXCEPT ![f.venue] = n]
      BY <2>0
    <3>6. venueBalances \in [Venues -> [total : Int, reserved : Nat, available : Int]]
      BY <1>0 DEF BookTypeOK
    <3> HIDE DEF n
    <3> QED
      BY <1>0, <3>4, <3>5, <3>6
  <2>6. BookTypeOK'
    BY <1>0, <2>0, <2>2, <2>5 DEF BookTypeOK
  <2>7. \A r \in hedge_pnl_records' : \E g \in Hedges \cup seenFills' : r = Recorded(g)
    BY <1>0, <2>0, <2>3
  <2>8. BookedIsStored'
    <3> SUFFICES ASSUME NEW g \in Hedges, NEW r \in hedge_pnl_records', SameHedge(r, g)
                 PROVE  \/ g.id \in DOMAIN entries
                        \/ \E q \in refusedInserts : SameHedge(q, g)
                        \/ \E d \in Callers : inserting[d] # NoHedge /\ SameHedge(inserting[d], g)
      BY <2>0 DEF BookedIsStored, Duplicate, SameHedge
    <3>1. r # Recorded(f)
      BY RecordFields DEF SameHedge, HedgeBookAssumption
    <3> QED
      BY <1>0, <2>3, <3>1 DEF BookedIsStored, Duplicate
  <2> QED
    BY <2>2, <2>5, <2>6, <2>7, <2>8 DEF BookInv, PnLOf
<1>5. ASSUME NEW v \in Venues, NEW t \in Totals, UpdateVenueBalance(v, t) PROVE BookInv'
  <2>1. t[1] \in Nat /\ t[2] \in Nat
    BY DEF HedgeBookAssumption
  <2>2. /\ venueBalances' \in [Venues -> [total : Int, reserved : Nat, available : Int]]
        /\ \A w \in Venues : venueBalances'[w].available = venueBalances'[w].total - venueBalances'[w].reserved
    BY <1>0, <1>5, <2>1 DEF UpdateVenueBalance, BookTypeOK
  <2>3. UNCHANGED <<hedge_pnl_records, hedge_pnl_summary, seenFills, entries, inserting, refusedInserts>>
    BY <1>5 DEF UpdateVenueBalance
  <2> QED
    BY <1>0, <2>2, <2>3 DEF BookInv, BookTypeOK, PnLOf, BookedIsStored, Duplicate
<1>6. CASE RestartBook
  <2>1. /\ hedge_pnl_records' = {} /\ seenFills' = {} /\ refusedInserts' = {} /\ UNCHANGED entries
        /\ hedge_pnl_summary' = [k \in Venues \X Symbols |-> 0]
        /\ venueBalances' = [v \in Venues |-> [total |-> 0, reserved |-> 0, available |-> 0]]
        /\ inserting' = [c \in Callers |-> NoHedge]
    BY <1>6 DEF RestartBook, EmptyBook
  <2>2. BookTypeOK'
    BY <1>0, <2>1 DEF BookTypeOK
  <2>3. ASSUME NEW k \in Venues \X Symbols PROVE hedge_pnl_summary'[k] = SumOfPnL(OfKey(hedge_pnl_records', k))
    <3>1. OfKey(hedge_pnl_records', k) = {}
      BY <2>1 DEF OfKey
    <3> QED
      BY <2>1, <3>1, NoPnL
  <2>4. BookedIsStored' /\ IsFiniteSet(hedge_pnl_records')
    BY <2>1, FS_EmptySet DEF BookedIsStored, Duplicate
  <2> QED
    BY <2>1, <2>2, <2>3, <2>4 DEF BookInv, PnLOf
<1> QED
  BY <1>1, <1>2, <1>3, <1>4, <1>5, <1>6 DEF BookNext

(* The query has at most one line for a venue and symbol: its total is     *)
(* the sum of their records.                                               *)
LEMMA QueryTotal ==
  ASSUME HedgeBookAssumption, BookInv, NEW from, NEW to,
         \A r \in hedge_pnl_records : r.time \in from..to,
         NEW k \in Venues \X Symbols, NEW lines, lines = OfKey(GetHedgePnL(from, to), k)
  PROVE  SumFunctionOnSet([x \in lines |-> x.total], lines) = PnLOf(k)
<1> DEFINE R == hedge_pnl_records
           line(q) == [venue |-> q[1], symbol |-> q[2], total |-> SumOfPnL(OfKey(R, q)),
                       count |-> Cardinality(OfKey(R, q))]
<1>1. {r \in R : r.time \in from..to} = R
  OBVIOUS
<1>2. GetHedgePnL(from, to) = {line(q) : q \in {<<r.venue, r.symbol>> : r \in R}}
  BY <1>1 DEF GetHedgePnL
<1>3. k = <<k[1], k[2]>>
  OBVIOUS
<1>4. CASE OfKey(R, k) = {}
  <2>1. lines = {}
    <3> SUFFICES ASSUME NEW x \in lines PROVE FALSE
      OBVIOUS
    <3>1. PICK r \in R : x = line(<<r.venue, r.symbol>>)
      BY <1>2 DEF OfKey
    <3>2. r.venue = k[1] /\ r.symbol = k[2]
      BY <3>1 DEF OfKey
    <3> QED
      BY <1>4, <3>2 DEF OfKey
  <2> QED
    BY <1>4, <2>1, NoPnL, SumEmpty DEF PnLOf
<1>5. CASE OfKey(R, k) # {}
  <2> DEFINE y == line(k)
             f == [x \in lines |-> x.total]
  <2>0. y.venue = k[1] /\ y.symbol = k[2] /\ y.total = PnLOf(k)
    BY DEF PnLOf
  <2>1. lines = {y}
    <3>1. PICK r \in R : r.venue = k[1] /\ r.symbol = k[2]
      BY <1>5 DEF OfKey
    <3>2. y \in GetHedgePnL(from, to)
      BY <1>2, <1>3, <3>1
    <3>3. y \in lines
      BY <2>0, <3>2 DEF OfKey
    <3>4. ASSUME NEW x \in lines PROVE x = y
      <4>1. PICK q \in R : x = line(<<q.venue, q.symbol>>)
        BY <1>2 DEF OfKey
      <4>2. q.venue = k[1] /\ q.symbol = k[2]
        BY <4>1 DEF OfKey
      <4> QED
        BY <1>3, <4>1, <4>2
    <3> QED
      BY <3>3, <3>4
  <2>2. PnLOf(k) \in Int
    BY DEF BookInv, BookTypeOK
  <2>3. IsFiniteSet({y}) /\ {y} \ {y} = {}
    BY FS_Singleton
  <2> HIDE DEF y
  <2>4. f[y] = PnLOf(k) /\ \A x \in {y} : f[x] \in Int
    BY <2>0, <2>1, <2>2
  <2> HIDE DEF f
  <2>5. SumFunctionOnSet(f, {y}) = f[y] + SumFunctionOnSet(f, {y} \ {y})
    BY <2>3, <2>4, SumSplit
  <2>6. SumFunctionOnSet(f, {y} \ {y}) = 0
    BY <2>3, SumEmpty
  <2> QED
    BY <2>1, <2>2, <2>4, <2>5, <2>6 DEF f
<1> QED
  BY <1>4, <1>5

LEMMA BookInvSafe == ASSUME HedgeBookAssumption, BookInv PROVE BookSafety
<1>1. SummaryIsTheQuery
  <2> SUFFICES ASSUME NEW from \in Times, NEW to \in Times,
                      \A r \in hedge_pnl_records : r.time \in from..to,
                      NEW k \in Venues \X Symbols, NEW lines, lines = OfKey(GetHedgePnL(from, to), k)
               PROVE  hedge_pnl_summary[k] = SumFunctionOnSet([x \in lines |-> x.total], lines)
    BY DEF SummaryIsTheQuery
  <2> QED
    BY QueryTotal DEF BookInv
<1>2. BalancesAddUp
  <2> SUFFICES ASSUME NEW v \in Venues
               PROVE  venueBalances[v].available = venueBalances[v].total - venueBalances[v].reserved
    BY DEF BalancesAddUp, GetVenueBalances
  <2> QED
    BY DEF BookInv
<1> QED
  BY <1>1, <1>2 DEF BookInv, BookSafety

(* Whatever callers, reports, operators and restarts do, the running       *)
(* summary of the ledger is what GetHedgePnL computes from the records, a  *)
(* hedge that was recorded is in the table unless its insert is to come or *)
(* failed, and every balance adds up.                                      *)
THEOREM HedgeBookIsSafe == ASSUME HedgeBookAssumption PROVE BookSpec => []BookSafety
<1>1. BookInit => BookInv
  BY BookInitInv
<1>2. BookInv /\ [BookNext]_bookVars => BookInv'
  BY BookNextInv
<1>3. BookInv => BookSafety
  BY BookInvSafe
<1> QED
  BY <1>1, <1>2, <1>3, PTL DEF BookSpec
=============================================================================

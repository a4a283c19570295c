------------------------------ MODULE HedgeBook ------------------------------
(***************************************************************************)
(* The book of hedges that the ledger answers queries from: the records of *)
(* hedge PnL with their running summary, the balances held on the venues,  *)
(* and the table hedge_ledger_entries.                                     *)
(*                                                                         *)
(* Two writers fill the records.  The handler of execution reports appends *)
(* one per fill; RecordHedgeExecution appends the hedge of a caller, once  *)
(* per venue and id, and stores it in the table after it has let go of the *)
(* mutex, with an error that is only logged.  The balances are moved by    *)
(* the fills and overwritten by UpdateVenueBalance.  Nothing in memory     *)
(* survives a restart, the table does.                                     *)
(*                                                                         *)
(* A fill is a record with the key of its report as id; the caller's       *)
(* hedges have other ids.  One currency is kept per venue.                 *)
(***************************************************************************)
EXTENDS Integers, FiniteSets, Functions

CONSTANTS
  Callers,      \* threads of the gRPC server
  Hedges,       \* the hedges callers record
  HedgeFills,        \* the fills of execution reports; both as hedge records below
  Venues, Symbols,
  Totals,       \* the <<total, reserved>> pairs an operator may set
  NoHedge,
  MaxBookFaults, \* bound on failed inserts
  MaxBookCrashes \* bound on restarts

(* The same hedge, as the ledger knows it: by venue and id.                *)
SameHedge(g, h) == g.venue = h.venue /\ g.id = h.id

(* What the constants satisfy; the instances that are checked assert it.   *)
(* The id of a fill is the key of its report and names nothing else.       *)
HedgeBookAssumption ==
  /\ NoHedge \notin Hedges
  /\ \A h \in Hedges \cup HedgeFills :
       /\ h.venue \in Venues /\ h.symbol \in Symbols
       /\ h.qty \in Nat /\ h.price \in Nat /\ h.internal \in Nat /\ h.time \in Nat
  /\ \A f \in HedgeFills : /\ \A h \in Hedges : ~SameHedge(f, h)
                           /\ \A g \in HedgeFills : SameHedge(f, g) => f = g
  /\ Totals \subseteq Nat \X Nat

VARIABLES
  hedge_pnl_records,   \* the records in memory
  hedge_pnl_summary,   \* Venues \X Symbols -> running PnL
  venueBalances,       \* Venues -> [total, reserved, available]
  entries,             \* hedge_ledger_entries: id -> the stored hedge
  inserting,           \* Callers -> the hedge a caller is about to insert
  refusedInserts,      \* the hedges whose insert failed
  seenFills,           \* the fills applied since the last start
  bookSpent            \* [faults, crashes] so far

bookMemory == <<hedge_pnl_records, hedge_pnl_summary, venueBalances, seenFills>>
bookVars == <<bookMemory, entries, inserting, refusedInserts, bookSpent>>

(* calculate_hedge_pnl: selling dear and buying cheap on the venue gains.  *)
HedgePnL(h) == (IF h.side = "BUY" THEN -1 ELSE 1) * (h.price - h.internal) * h.qty

Recorded(h) ==
  [id |-> h.id, venue |-> h.venue, symbol |-> h.symbol, qty |-> h.qty,
   pnl |-> HedgePnL(h), time |-> h.time]

(* The record joins the list of its venue and the summary of its symbol.   *)
AppendRecord(h) ==
  /\ hedge_pnl_records' = hedge_pnl_records \cup {Recorded(h)}
  /\ hedge_pnl_summary' = [hedge_pnl_summary EXCEPT ![<<h.venue, h.symbol>>] =
                             @ + HedgePnL(h)]

(* Known per venue: the same id on another venue is another hedge here.    *)
Duplicate(h) ==
  \E r \in hedge_pnl_records : SameHedge(r, h)
-----------------------------------------------------------------------------
EmptyBook(r, s, b, f) ==
  /\ r = {}
  /\ s = [k \in Venues \X Symbols |-> 0]
  /\ b = [v \in Venues |-> [total |-> 0, reserved |-> 0, available |-> 0]]
  /\ f = {}

BookInit ==
  /\ EmptyBook(hedge_pnl_records, hedge_pnl_summary, venueBalances, seenFills)
  /\ entries = << >>
  /\ inserting = [c \in Callers |-> NoHedge]
  /\ refusedInserts = {}
  /\ bookSpent = [faults |-> 0, crashes |-> 0]

(* Faulty variants: the summary is moved before the duplicate is noticed,  *)
(* the transaction is never committed, the table is unique by venue, the   *)
(* free part is not taken again from the operator's numbers.               *)
RecordSummaryFirst(c, h) ==
  /\ inserting[c] = NoHedge
  /\ hedge_pnl_summary' = [hedge_pnl_summary EXCEPT ![<<h.venue, h.symbol>>] =
                             @ + HedgePnL(h)]
  /\ hedge_pnl_records' = hedge_pnl_records \cup {Recorded(h)}
  /\ inserting' = IF Duplicate(h) THEN inserting ELSE [inserting EXCEPT ![c] = h]
  /\ UNCHANGED <<venueBalances, seenFills, entries, refusedInserts, bookSpent>>

(* RecordHedgeExecution under the mutex.  A duplicate is answered at once, *)
(* before the table is reached.                                            *)
RecordHedgeExecution(c, h) ==
  /\ inserting[c] = NoHedge
  /\ \/ /\ Duplicate(h)
        /\ UNCHANGED <<hedge_pnl_records, hedge_pnl_summary, inserting>>
     \/ /\ ~Duplicate(h)
        /\ AppendRecord(h)
        /\ inserting' = [inserting EXCEPT ![c] = h]
  /\ UNCHANGED <<venueBalances, seenFills, entries, refusedInserts, bookSpent>>

(* CreateHedgeEntry: one row per id, the first one stays.                  *)
CreateHedgeEntry(c) ==
  /\ inserting[c] # NoHedge
  /\ LET h == inserting[c] IN
     \/ /\ entries' = IF h.id \in DOMAIN entries THEN entries
                      ELSE [i \in DOMAIN entries \cup {h.id} |->
                              IF i = h.id THEN h ELSE entries[i]]
        /\ UNCHANGED <<refusedInserts, bookSpent>>
     \/ /\ bookSpent.faults < MaxBookFaults
        /\ refusedInserts' = refusedInserts \cup {h}
        /\ bookSpent' = [bookSpent EXCEPT !.faults = @ + 1]
        /\ UNCHANGED entries
  /\ inserting' = [inserting EXCEPT ![c] = NoHedge]
  /\ UNCHANGED bookMemory

(* The fill of an execution report: ensure_venue_balance_locked opens the  *)
(* balance, the fill moves its total and the free part follows.            *)
ApplyFill(f) ==
  /\ f \notin seenFills
  /\ seenFills' = seenFills \cup {f}
  /\ AppendRecord(f)
  /\ LET b == venueBalances[f.venue]
         total == b.total + (IF f.side = "BUY" THEN f.qty ELSE -f.qty)
     IN venueBalances' = [venueBalances EXCEPT ![f.venue] =
          [b EXCEPT !.total = total, !.available = total - b.reserved]]
  /\ UNCHANGED <<entries, inserting, refusedInserts, bookSpent>>

(* UpdateVenueBalance: an operator's numbers replace the balance.          *)
UpdateVenueBalance(v, t) ==
  /\ venueBalances' = [venueBalances EXCEPT ![v] =
       [total |-> t[1], reserved |-> t[2], available |-> t[1] - t[2]]]
  /\ UNCHANGED <<hedge_pnl_records, hedge_pnl_summary, seenFills, entries,
                 inserting, refusedInserts, bookSpent>>

(* A restart.  An insert that was under way may have reached the database. *)
RestartBook ==
  /\ bookSpent.crashes < MaxBookCrashes
  /\ EmptyBook(hedge_pnl_records', hedge_pnl_summary', venueBalances', seenFills')
  /\ inserting' = [c \in Callers |-> NoHedge]
  /\ refusedInserts' = {}
  /\ bookSpent' = [bookSpent EXCEPT !.crashes = @ + 1]
  /\ UNCHANGED entries

BookNext ==
  \/ \E c \in Callers : CreateHedgeEntry(c) \/ \E h \in Hedges : RecordHedgeExecution(c, h)
  \/ \E f \in HedgeFills : ApplyFill(f)
  \/ \E v \in Venues, t \in Totals : UpdateVenueBalance(v, t)
  \/ RestartBook

BookSpec == BookInit /\ [][BookNext]_bookVars
-----------------------------------------------------------------------------
(* GetHedgePnL: one line per venue and symbol with a record in the range.  *)
SumOfPnL(S) == SumFunctionOnSet([r \in S |-> r.pnl], S)

OfKey(S, k) == {r \in S : r.venue = k[1] /\ r.symbol = k[2]}

GetHedgePnL(from, to) ==
  LET chosen == {r \in hedge_pnl_records : r.time \in from..to}
  IN {[venue |-> k[1], symbol |-> k[2], total |-> SumOfPnL(OfKey(chosen, k)),
       count |-> Cardinality(OfKey(chosen, k))] :
      k \in {<<r.venue, r.symbol>> : r \in chosen}}

(* GetVenueBalances of one venue, of all venues for "".                    *)
GetVenueBalances(v) == {<<x, venueBalances[x]>> : x \in IF v = "" THEN Venues ELSE {v}}
-----------------------------------------------------------------------------
BookTypeOK ==
  /\ hedge_pnl_records \subseteq {Recorded(h) : h \in Hedges \cup HedgeFills}
  /\ hedge_pnl_summary \in [Venues \X Symbols -> Int]
  /\ venueBalances \in [Venues -> [total : Int, reserved : Nat, available : Int]]
  /\ \A i \in DOMAIN entries : entries[i] \in Hedges /\ entries[i].id = i
  /\ inserting \in [Callers -> Hedges \cup {NoHedge}]
  /\ refusedInserts \subseteq Hedges
  /\ seenFills \subseteq HedgeFills

(* The summary that RecordHedgeExecution and the reports keep up to date   *)
(* is what GetHedgePnL computes from the records over any range of times   *)
(* that holds them all.                                                    *)
Times == {h.time : h \in Hedges \cup HedgeFills}
SummaryIsTheQuery ==
  \A from, to \in Times :
    (\A r \in hedge_pnl_records : r.time \in from..to) =>
      \A k \in Venues \X Symbols :
        LET lines == OfKey(GetHedgePnL(from, to), k)
        IN  hedge_pnl_summary[k] = SumFunctionOnSet([x \in lines |-> x.total], lines)

(* A hedge a caller recorded is in the table under its id, unless its      *)
(* insert is still to come or failed: the lock is let go in between and a  *)
(* repeated call never inserts again.                                      *)
BookedIsStored ==
  \A h \in Hedges :
    Duplicate(h) => \/ h.id \in DOMAIN entries
                    \/ \E g \in refusedInserts : SameHedge(g, h)
                    \/ \E c \in Callers : inserting[c] # NoHedge /\ SameHedge(inserting[c], h)

(* Whatever fills and operators wrote last, the free part the query gives  *)
(* is the total less the reserved part.                                    *)
BalancesAddUp ==
  \A x \in GetVenueBalances("") : x[2].available = x[2].total - x[2].reserved

(* The book that queries are answered from is consistent with itself and   *)
(* with the table.                                                         *)
BookSafety == BookTypeOK /\ SummaryIsTheQuery /\ BookedIsStored /\ BalancesAddUp
==============================================================================

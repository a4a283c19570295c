---------------------------- MODULE MarketStore -----------------------------
(***************************************************************************)
(* The analytical store of market_data.  One consumer thread handles one   *)
(* message after another; a message is written to the ClickHouse tables    *)
(* of its kind one insert at a time, a failed insert is logged and the     *)
(* next one tried.  The consumer auto-commits: librdkafka stores the       *)
(* offset of a message when consume() hands it out, so the background      *)
(* commit may cover the message still being handled.  At start each        *)
(* storage creates its tables, a failed statement ends its chain, and the  *)
(* service runs on with the tables it has.  ClickHouse merges the rows of  *)
(* a ReplacingMergeTree in the background.                                 *)
(***************************************************************************)
EXTENDS Naturals, Sequences, FiniteSets

CONSTANTS
  StoreEvent,      \* messages, one of each kind
  MaxArrived,      \* how many of them the topics hold
  MaxStoreFaults,  \* statements ClickHouse refuses
  MaxCrashes

(* What the constants satisfy; the instances that are checked assert it.   *)
StoreAssumption ==
  /\ StoreEvent \subseteq {"batch", "empty", "group", "blocked", "report", "curve", "fill"}
  /\ MaxCrashes \in Nat

VARIABLES
  arrived,         \* messages on the topics
  tablesReady,     \* tables that exist
  storePhase,      \* "schema" while main creates tables, then "run"
  handling,        \* message in the handler and its inserts still to do
  consumed,        \* messages handed out, the stored offsets
  committedSet,    \* messages covered by the committed offsets
  deliveries,      \* how often a message was handed out
  storedRows,      \* rows [table, event, item, at]
  refusedAt,       \* inserts refused <<event, delivery, table>>
  abandonedAt,     \* deliveries cut off by a crash <<event, delivery>>
  storeSpent       \* faults and crashes so far

storeVars == <<arrived, tablesReady, storePhase, handling, consumed, committedSet, deliveries,
               storedRows, refusedAt, abandonedAt, storeSpent>>
---------------------------------------------------------------------------
(* Tables: the chains that create them, their engine and their key.        *)

SchemaChains ==
  {<<"batchresults", "fills", "execution_venue", "execution_reports",
     "grouped_events", "grouped_legs", "grouped_quality", "ratio_deviation">>,
   <<"liquidity_curves">>, <<"marketdata_snapshots", "effective_spreads">>}

Replacing == {"grouped_events", "grouped_legs", "grouped_quality"}

(* The sorting key of a replacing table holds the event time of the group  *)
(* and, for legs, the leg; the fill id of a leg is never set.              *)
SortKey(row) == <<row.event, row.item>>

(* The inserts of a message in their order, each with the items of a row.  *)
SaveBatchResult == <<"batchresults">>
SaveFills(count) == IF count = 0 THEN <<>> ELSE <<"fills">>

GroupedEventRow == <<"grouped_events">>
GroupedQualityRow == <<"grouped_quality">>
GroupedLegRows(legs) == IF legs = 0 THEN <<>> ELSE <<"grouped_legs">>
RatioDeviationRows(legs) == IF legs = 0 THEN <<>> ELSE <<"ratio_deviation">>
SaveExecutionGroup(legs) ==
  GroupedEventRow \o GroupedQualityRow \o GroupedLegRows(legs) \o RatioDeviationRows(legs)

ReportRow == <<"execution_venue">>
ReportRowV2 == <<"execution_reports">>
SaveExecutionReport == ReportRow \o ReportRowV2

SaveCurve == <<"liquidity_curves">>
SaveRecord == <<"effective_spreads">>

Inserts(e) ==
  CASE e = "batch"   -> SaveBatchResult \o SaveFills(1)
    [] e = "empty"   -> SaveBatchResult \o SaveFills(0)
    [] e = "group"   -> SaveExecutionGroup(2)
    [] e = "blocked" -> SaveExecutionGroup(0)
    [] e = "report"  -> SaveExecutionReport
    [] e = "curve"   -> SaveCurve
    [] e = "fill"    -> SaveRecord

ItemsOf(table) == IF table \in {"grouped_legs", "ratio_deviation"} THEN {1, 2} ELSE {1}
Nothing == [event |-> "none", todo |-> <<>>]

StoreInit ==
  /\ arrived \in {m \in SUBSET StoreEvent : Cardinality(m) = MaxArrived}
  /\ tablesReady = {} /\ storePhase = "schema" /\ handling = Nothing
  /\ consumed = {} /\ committedSet = {} /\ deliveries = [e \in StoreEvent |-> 0]
  /\ storedRows = {} /\ refusedAt = {} /\ abandonedAt = {}
  /\ storeSpent = [faults |-> 0, crashes |-> 0]
---------------------------------------------------------------------------
StoreFault == storeSpent.faults < MaxStoreFaults
              /\ storeSpent' = [storeSpent EXCEPT !.faults = @ + 1]

ChainTo(chain, n) == {chain[i] : i \in 1..n}
EnsureSchema ==
  /\ storePhase = "schema" /\ storePhase' = "run"
  /\ \/ tablesReady' = UNION {ChainTo(c, Len(c)) : c \in SchemaChains} /\ UNCHANGED storeSpent
     \/ /\ StoreFault
        /\ \E broken \in SchemaChains : \E n \in 0..(Len(broken) - 1) :
             tablesReady' = tablesReady \cup ChainTo(broken, n)
                            \cup UNION {ChainTo(c, Len(c)) : c \in SchemaChains \ {broken}}
  /\ UNCHANGED <<arrived, handling, consumed, committedSet, deliveries, storedRows, refusedAt, abandonedAt>>

Consume(e) ==
  /\ storePhase = "run" /\ handling = Nothing /\ e \in arrived \ consumed
  /\ consumed' = consumed \cup {e}
  /\ deliveries' = [deliveries EXCEPT ![e] = @ + 1]
  \* a fill needs a mid price of its asset to be compared with
  /\ \/ handling' = [event |-> e, todo |-> Inserts(e)]
     \/ e = "fill" /\ UNCHANGED handling
  /\ UNCHANGED <<arrived, tablesReady, storePhase, committedSet, storedRows, refusedAt, abandonedAt, storeSpent>>

InsertRow ==
  /\ handling.todo # <<>>
  /\ LET table == Head(handling.todo)
     IN  /\ table \in tablesReady
         /\ storedRows' = storedRows \cup
              {[table |-> table, event |-> handling.event, item |-> i,
                at |-> deliveries[handling.event]] : i \in ItemsOf(table)}
  /\ handling' = [handling EXCEPT !.todo = Tail(@)]
  /\ UNCHANGED <<arrived, tablesReady, storePhase, consumed, committedSet, deliveries, refusedAt, abandonedAt, storeSpent>>

(* Mutant: the first refused insert ends the message. *)
StopInserts(todo) == <<>>
NextInserts(todo) == Tail(todo)

Refuses(table) == StoreFault \/ (table \notin tablesReady /\ UNCHANGED storeSpent)

InsertRefused ==
  /\ handling.todo # <<>>
  /\ Refuses(Head(handling.todo))
  /\ refusedAt' = refusedAt \cup {<<handling.event, deliveries[handling.event], Head(handling.todo)>>}
  /\ handling' = [handling EXCEPT !.todo = NextInserts(@)]
  /\ UNCHANGED <<arrived, tablesReady, storePhase, consumed, committedSet, deliveries, storedRows, abandonedAt>>

Handled ==
  /\ handling # Nothing /\ handling.todo = <<>>
  /\ handling' = Nothing
  /\ UNCHANGED <<arrived, tablesReady, storePhase, consumed, committedSet, deliveries, storedRows,
                 refusedAt, abandonedAt, storeSpent>>

StoredOffsets == consumed

AutoCommit ==
  /\ storePhase = "run" /\ committedSet # StoredOffsets
  /\ committedSet' = StoredOffsets
  /\ UNCHANGED <<arrived, tablesReady, storePhase, handling, consumed, deliveries, storedRows,
                 refusedAt, abandonedAt, storeSpent>>

CrashStore ==
  /\ storeSpent.crashes < MaxCrashes
  /\ storeSpent' = [storeSpent EXCEPT !.crashes = @ + 1]
  /\ storePhase' = "schema" /\ handling' = Nothing
  /\ consumed' = committedSet
  /\ abandonedAt' = IF handling = Nothing THEN abandonedAt
                    ELSE abandonedAt \cup {<<handling.event, deliveries[handling.event]>>}
  /\ UNCHANGED <<arrived, tablesReady, committedSet, deliveries, storedRows, refusedAt>>

Superseded(row) ==
  row.table \in Replacing
  /\ \E other \in storedRows : other.table = row.table /\ SortKey(other) = SortKey(row) /\ other.at > row.at
MergeTables ==
  /\ \E row \in storedRows : Superseded(row)
  /\ storedRows' = {row \in storedRows : ~Superseded(row)}
  /\ UNCHANGED <<arrived, tablesReady, storePhase, handling, consumed, committedSet, deliveries,
                 refusedAt, abandonedAt, storeSpent>>

ConsumerStep == EnsureSchema \/ (\E e \in StoreEvent : Consume(e)) \/ InsertRow \/ InsertRefused \/ Handled
StoreNext == ConsumerStep \/ AutoCommit \/ CrashStore \/ MergeTables

(* main and the consumer thread keep running. *)
StoreSpec == StoreInit /\ [][StoreNext]_storeVars /\ WF_storeVars(ConsumerStep)
---------------------------------------------------------------------------
(* Types of the store's state. *)
StoreTypeOK ==
  /\ tablesReady \subseteq UNION {ChainTo(c, Len(c)) : c \in SchemaChains}
  /\ storePhase \in {"schema", "run"}
  /\ handling.event \in StoreEvent \cup {"none"}
  /\ consumed \subseteq arrived /\ committedSet \subseteq consumed
  /\ deliveries \in [StoreEvent -> 0..(MaxCrashes + 1)]
  /\ \A r \in storedRows : r.event \in StoreEvent /\ r.table \in tablesReady

(* A message is in every table of its kind, unless each time it was       *)
(* handled that very insert was refused or the process died on the way:   *)
(* a refused insert takes no other insert of the message with it.         *)
Excused(e, a, table) ==
  \/ <<e, a, table>> \in refusedAt
  \/ <<e, a>> \in abandonedAt
  \/ handling.event = e /\ deliveries[e] = a /\ \E i \in DOMAIN handling.todo : handling.todo[i] = table
RowsUnlessRefused ==
  \A e \in StoreEvent \ {"fill"} : \A i \in DOMAIN Inserts(e) :
     LET table == Inserts(e)[i]
     IN  \/ \A a \in 1..deliveries[e] : Excused(e, a, table)
         \/ \A item \in ItemsOf(table) : \E r \in storedRows :
              r.table = table /\ r.event = e /\ r.item = item

(* Redelivery leaves one row of a group, leg or quality record once the   *)
(* table is merged: the rows of one message and item share their key.     *)
GroupsMergeToOne ==
  \A r, s \in storedRows :
     r.table = s.table /\ r.table \in Replacing /\ r.event = s.event /\ r.item = s.item
       => r = s \/ Superseded(r) \/ Superseded(s)

(* A message is in every table of its kind, unless each time it was        *)
(* handled that very insert was refused or the process died on the way;    *)
(* redelivery leaves one row of a group, leg or quality record once the    *)
(* table is merged.                                                        *)
StoreSafety == StoreTypeOK /\ RowsUnlessRefused /\ GroupsMergeToOne

(* The consumer never hangs on a message, whatever ClickHouse refuses and *)
(* whichever tables are missing: in the end every message is behind it.   *)
AllHandled == <>[](consumed = arrived /\ handling = Nothing)
=============================================================================

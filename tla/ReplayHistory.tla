---------------------------- MODULE ReplayHistory ----------------------------
(***************************************************************************)
(* The recorded history of the backtest service.  One consumer thread      *)
(* writes every batch of batch.outputs to four ClickHouse tables, another  *)
(* one the venue snapshots and curves; meanwhile replay sessions page      *)
(* through the tables and audits read single batches from them.            *)
(*                                                                         *)
(* A batch is its place in batch.outputs, which is also the order of its   *)
(* event time.  The tables are plain MergeTree tables: rows are only       *)
(* added, and a batch that is delivered twice is there twice.              *)
(***************************************************************************)
EXTENDS Integers, Sequences, FiniteSets, SequencesExt

CONSTANTS
  Outputs,    \* batch.outputs: sequence of sequences of [order, venue, curve]
  SnapVenue,  \* batch -> venues with a snapshot at the event time of the batch
  Reader,     \* replay sessions over the whole range
  ChunkSize,  \* Config::chunk_size
  MaxFaults   \* bound on failed requests to ClickHouse and restarts

VARIABLES
  recorder,   \* [table, next]: insert to do, next record of batch.outputs
  copies,     \* table -> batch -> how often the batch was inserted
  snaps,      \* recorded snapshots: set of <<venue, batch>>
  curves,     \* venues with a recorded curve
  load,       \* Reader -> [table, from, offset, total, batches, fills, snaps, broken];
              \* from, a ghost, is the batch being recorded when the load began
  log,        \* Reader -> sequence of agent log entries
  audit,      \* [step, batch, rows, fills, answer]
  refused,    \* ghost: <<table, batch>> whose insert ClickHouse refused
  faults

historyVars == <<recorder, copies, snaps, curves, load, log, audit, refused, faults>>

Batch  == 1 .. Len(Outputs)
Tables == <<"results", "fills", "fill_metrics", "batch_metrics">>
Table  == ToSet(Tables)
Venue  == UNION {{f.venue : f \in ToSet(Outputs[b])} : b \in Batch} \ {""}

NoLoad  == [table |-> "none", from |-> 0, offset |-> 0, total |-> {}, batches |-> <<>>,
            fills |-> <<>>, snaps |-> {}, broken |-> FALSE]
NoAudit == [step |-> "idle", batch |-> 0, rows |-> 0, fills |-> <<>>, answer |-> "none"]

HistoryInit ==
  /\ recorder = [table |-> 1, next |-> 1]
  /\ copies = [t \in Table |-> [b \in Batch |-> 0]]
  /\ snaps = {} /\ curves = {}
  /\ load = [r \in Reader |-> NoLoad]
  /\ log = [r \in Reader |-> <<>>]
  /\ audit = NoAudit
  /\ refused = {}
  /\ faults = 0

Fault == faults < MaxFaults /\ faults' = faults + 1
-----------------------------------------------------------------------------
(* Recording.  OnBatchResult makes its four inserts one after the other,   *)
(* counts the ones that work and goes on; poll_once then commits.          *)
Committed == [recorder EXCEPT !.next = @ + 1, !.table = 1]
NextInsert ==
  recorder' = IF recorder.table = Len(Tables) THEN Committed ELSE [recorder EXCEPT !.table = @ + 1]

Insert ==
  /\ recorder.next \in Batch
  /\ copies' = [copies EXCEPT ![Tables[recorder.table]][recorder.next] = @ + 1]
  /\ NextInsert
  /\ UNCHANGED <<snaps, curves, load, log, audit, refused, faults>>

(* ExecQuery: no connection, or an answer that is not 2xx.                 *)
RefuseInsert ==
  /\ Fault
  /\ recorder.next \in Batch
  /\ refused' = refused \cup {<<Tables[recorder.table], recorder.next>>}
  /\ NextInsert
  /\ UNCHANGED <<copies, snaps, curves, load, log, audit>>

(* A restart before the commit: the record is delivered again, sessions    *)
(* and audits under way are gone.                                          *)
RestartRecorder ==
  /\ Fault
  /\ recorder' = [recorder EXCEPT !.table = 1]
  /\ load' = [r \in Reader |-> IF log[r] = <<>> THEN NoLoad ELSE load[r]]
  /\ audit' = IF audit.answer = "none" THEN NoAudit ELSE audit
  /\ UNCHANGED <<copies, snaps, curves, log, refused>>

RecordSnapshot(v, b) ==
  /\ v \in SnapVenue[b]
  /\ snaps' = snaps \cup {<<v, b>>}
  /\ UNCHANGED <<recorder, copies, curves, load, log, audit, refused, faults>>

RecordCurve(v) ==
  /\ curves' = curves \cup {v}
  /\ UNCHANGED <<recorder, copies, snaps, load, log, audit, refused, faults>>
-----------------------------------------------------------------------------
(* The tables, as a SELECT ... ORDER BY event time returns their rows.     *)
Copy(row, n) == [i \in 1 .. n |-> row]
ResultRows   == FlattenSeq([b \in Batch |-> Copy(b, copies["results"][b])])
FillRows     == FlattenSeq([b \in Batch |->
                  FlattenSeq([k \in 1 .. Len(Outputs[b]) |-> Copy(<<b, k>>, copies["fills"][b])])])

FillsOf(b)  == {<<b, k>> : k \in 1 .. Len(Outputs[b])}
FillOf(row) == Outputs[row[1]][row[2]]

(* SplitTsv returns no field after the last tab: a row whose last column,  *)
(* curve_id, is empty has 16 fields, and LoadFills wants 17.  The last     *)
(* columns of the other tables are numbers or are never empty.             *)
Parses(row) == FillOf(row).curve # ""
LoadFills(rows) == SelectSeq(rows, Parses)

Page(rows, offset) ==
  SubSeq(rows, offset + 1, IF offset + ChunkSize < Len(rows) THEN offset + ChunkSize ELSE Len(rows))

(* LoadAllChunked ends at a chunk shorter than chunk_size.                 *)
Short(chunk) == Len(chunk) < ChunkSize
Turned(l, chunk, table) ==
  IF Short(chunk) THEN [l EXCEPT !.table = table, !.offset = 0] ELSE [l EXCEPT !.offset = @ + Len(chunk)]

(* CreateReplaySession counts the batches of the range, then the session's *)
(* runner loads the three tables.                                          *)
Begin(r) ==
  /\ load[r].table = "none"
  /\ load' = [load EXCEPT ![r].table = "preflight", ![r].from = recorder.next]
  /\ UNCHANGED <<recorder, copies, snaps, curves, log, audit, refused, faults>>

(* A failed SELECT looks like an empty chunk.                              *)
Received(rows, ok) == IF ok THEN rows ELSE <<>>

Preflight(r, ok) ==
  LET l     == load[r]
      chunk == Received(Page(ResultRows, l.offset), ok)
  IN  /\ l.table = "preflight"
      /\ load' = [load EXCEPT ![r] =
           [Turned(l, chunk, IF l.total \cup ToSet(chunk) = {} THEN "refused" ELSE "results")
              EXCEPT !.total = @ \cup ToSet(chunk), !.broken = @ \/ ~ok]]

LoadBatchResults(r, ok) ==
  LET l     == load[r]
      chunk == Received(Page(ResultRows, l.offset), ok)
  IN  /\ l.table = "results"
      /\ load' = [load EXCEPT ![r] =
           [Turned(l, chunk, "fills") EXCEPT !.batches = @ \o chunk, !.broken = @ \/ ~ok]]

LoadFillPage(r, ok) ==
  LET l     == load[r]
      chunk == Received(LoadFills(Page(FillRows, l.offset)), ok)
  IN  /\ l.table = "fills"
      /\ load' = [load EXCEPT ![r] =
           [Turned(l, chunk, "snapshots") EXCEPT !.fills = @ \o chunk, !.broken = @ \/ ~ok]]

LoadMarketdataSnapshots(r, ok) ==
  /\ load[r].table = "snapshots"
  /\ load' = [load EXCEPT ![r] =
       [@ EXCEPT !.snaps = IF ok THEN snaps ELSE {}, !.table = "replay", !.broken = @ \/ ~ok]]

LoadChunk(r, ok) ==
  /\ IF ok THEN UNCHANGED faults ELSE Fault
  /\ \/ Preflight(r, ok) \/ LoadBatchResults(r, ok)
     \/ LoadFillPage(r, ok) \/ LoadMarketdataSnapshots(r, ok)
  /\ UNCHANGED <<recorder, copies, snaps, curves, log, audit, refused>>
-----------------------------------------------------------------------------
(* Replaying the loaded batches, in the order of event time.  A batch that *)
(* comes again restarts from itself, so each has one entry.                *)
LoadedFills(r, b) == SelectSeq(load[r].fills, LAMBDA row : row[1] = b)

(* ValidateBatchInputs.                                                    *)
NoFills(b, rows)    == Len(rows) = 0 /\ Len(Outputs[b]) > 0   \* mutant
Incomplete(b, rows) == Len(rows) < Len(Outputs[b])

(* AttachHistoricalExternalLiquidity: the curves of the venues of the      *)
(* snapshots and of the fills of the batch.                                *)
LoadCurves(venues) == curves \cap venues
Attached(r, b) ==
  LoadCurves({s[1] : s \in {x \in load[r].snaps : x[2] = b}}
               \cup {FillOf(row).venue : row \in ToSet(LoadedFills(r, b))})

Entry(r, b) ==
  IF Incomplete(b, LoadedFills(r, b))
  THEN [batch |-> b, error |-> "history_incomplete", fills |-> <<>>, liquidity |-> {}]
  ELSE [batch |-> b, error |-> "", fills |-> LoadedFills(r, b), liquidity |-> Attached(r, b)]

(* CountUniqueBatchIds = 0 fails the session with no_data.                 *)
Replay(r) ==
  LET left == ToSet(load[r].batches) \ {e.batch : e \in ToSet(log[r])}
  IN  /\ load[r].table = "replay"
      /\ IF left = {}
         THEN /\ load' = [load EXCEPT ![r].table = "done"]
              /\ UNCHANGED log
         ELSE /\ log' = [log EXCEPT ![r] = Append(@, Entry(r, Min(left)))]
              /\ UNCHANGED load
      /\ UNCHANGED <<recorder, copies, snaps, curves, audit, refused, faults>>
-----------------------------------------------------------------------------
(* RunReplayAuditBatch: three reads, then a replay of the one batch.       *)
AuditRows(b) ==
  /\ audit.step = "idle"
  /\ audit' = [NoAudit EXCEPT !.step = "rows", !.batch = b, !.rows = copies["results"][b],
                 !.answer = CASE copies["results"][b] = 0 -> "no_data"
                              [] copies["results"][b] > 1 -> "history_corrupt"
                              [] OTHER                    -> "none"]
  /\ UNCHANGED <<recorder, copies, snaps, curves, load, log, refused, faults>>

AuditFills ==
  LET b    == audit.batch
      rows == LoadFills(SelectSeq(FillRows, LAMBDA row : row[1] = b))
  IN  /\ audit.step = "rows" /\ audit.answer = "none"
      /\ audit' = [audit EXCEPT !.step = "done", !.fills = rows,
                     !.answer = IF Incomplete(b, rows) THEN "history_incomplete" ELSE "compared"]
      /\ UNCHANGED <<recorder, copies, snaps, curves, load, log, refused, faults>>

NewAudit ==
  /\ audit.answer # "none"
  /\ audit' = NoAudit
  /\ UNCHANGED <<recorder, copies, snaps, curves, load, log, refused, faults>>
-----------------------------------------------------------------------------
HistoryNext ==
  \/ Insert \/ RefuseInsert \/ RestartRecorder
  \/ \E v \in Venue, b \in Batch : RecordSnapshot(v, b)
  \/ \E v \in Venue : RecordCurve(v)
  \/ \E r \in Reader : Begin(r) \/ Replay(r)
  \/ \E r \in Reader, ok \in BOOLEAN : LoadChunk(r, ok)
  \/ \E b \in Batch : AuditRows(b)
  \/ AuditFills \/ NewAudit

HistorySpec == HistoryInit /\ [][HistoryNext]_historyVars
-----------------------------------------------------------------------------
(* The rows a batch has, its copies and what was read of it stay in their  *)
(* types, and a page never takes an offset past the table.                 *)
HistoryTypeOK ==
  /\ recorder.next \in 1 .. Len(Outputs) + 1 /\ recorder.table \in 1 .. Len(Tables)
  /\ \A t \in Table, b \in Batch : copies[t][b] \in 0 .. MaxFaults + 1
  /\ \A r \in Reader :
       /\ load[r].table = "results" => load[r].offset <= Len(ResultRows)
       /\ load[r].table = "fills" => load[r].offset <= Len(FillRows)
       /\ ToSet(load[r].batches) \subseteq Batch

(* Every batch of batch.outputs the consumer has passed is in each of the  *)
(* four tables, whatever restarts happened, unless ClickHouse refused that *)
(* very insert: the offset is committed after the inserts, not before.     *)
RecordedUnlessRefused ==
  \A b \in 1 .. recorder.next - 1, t \in Table : copies[t][b] > 0 \/ <<t, b>> \in refused

(* Whatever the preflight counted is loaded by the runner, although the    *)
(* recorder keeps inserting between two pages of one SELECT: an OFFSET     *)
(* into a table that only grows skips no row.                              *)
PreflightIsLoaded ==
  \A r \in Reader :
    load[r].table \in {"fills", "snapshots", "replay", "done"} /\ ~load[r].broken
      => load[r].total \subseteq ToSet(load[r].batches)

(* A batch that was delivered once is only replayed, or compared by an     *)
(* audit, with exactly the fills that matching published, no matter which  *)
(* inserts or SELECTs failed or were still to come: fills_count tells.     *)
AcceptedIsWhole ==
  LET whole(b, rows) == copies["fills"][b] <= 1 => ToSet(rows) = FillsOf(b)
  IN  /\ \A r \in Reader : \A e \in ToSet(log[r]) : e.error = "" => whole(e.batch, e.fills)
      /\ audit.answer = "compared" => whole(audit.batch, audit.fills)

(* A HistoricalBatch is a "BatchResultRow joined with all fills sharing    *)
(* the same batch_id": a session that began after the batch was recorded,  *)
(* and met no failed request, has loaded all of its fills.                 *)
AllFillsJoined ==
  \A r \in Reader : load[r].table = "replay" /\ faults = 0 =>
    \A b \in 1 .. load[r].from - 1 : ToSet(LoadedFills(r, b)) = FillsOf(b)
=============================================================================

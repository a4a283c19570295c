--------------------------- MODULE ReplaySessions ---------------------------
(***************************************************************************)
(* Replay sessions of the backtest service.  One consumer thread takes     *)
(* commands from replay.commands; every started or retried session has a   *)
(* detached runner thread.  They share the session rows, the cancellation  *)
(* token and the shadow ledger, and publish to replay.results.             *)
(*                                                                         *)
(* A session with persist = false has its row in EphemeralSessionRegistry, *)
(* the others in PostgreSQL; repositories are routed on every call.  An    *)
(* exception that leaves a thread ends the process.                        *)
(***************************************************************************)
EXTENDS Integers, Sequences, FiniteSets, SequencesExt

CONSTANTS
  Session,      \* session ids, those of retries included
  Ephemeral,    \* sessions created with persist = false
  Parent,       \* sessions made by a retry -> the session they retry
  History,      \* batch ids the loader returns, in the order of event time
  MaxCommands,  \* bound on commands
  MaxCrashes    \* bound on failed storage calls and restarts

(* What the constants satisfy; the instances that are checked assert it.   *)
ReplayAssumption ==
  /\ Ephemeral \subseteq Session
  /\ DOMAIN Parent \subseteq Session \ Ephemeral
  /\ \A s \in DOMAIN Parent : Parent[s] \in Session
  /\ History \in Seq(STRING)
  /\ MaxCommands \in Nat /\ MaxCrashes \in Nat
  /\ "consumer" \notin Session

VARIABLES
  row,          \* Session -> [status, total, progress]; "none" for no row
  summary,      \* replay_summaries: Session -> "none", "partial" or "full"
  told,         \* replay.results: Session -> lifecycle statuses published
  agent_logs,   \* replay_agentlogs: Session -> set of <<batch id, batch_seq>>
  commands,     \* replay.commands: sequence of [kind, s]
  consumer,     \* [pc, next]
  cancelled_session_ids,
  runner,       \* Session -> [pc, i, journal, cancelled, hard]
  ending,       \* thread -> [s, status, todo]: calls that end a session
  shadow,       \* Session -> applied_batch_order of its namespace
  process,      \* "up", "down", or "again" after a restart
  orphans,      \* ghost: sessions that were created without a runner
  crashes

store      == <<row, summary, told, agent_logs>>
replayVars == <<store, commands, consumer, cancelled_session_ids, runner, ending, shadow,
                process, orphans, crashes>>

Thread      == Session \cup {"consumer"}
TotalUnique == Cardinality(ToSet(History))
NoRow       == [status |-> "none", total |-> 0, progress |-> 0]
NoEnding    == [s |-> "", status |-> "", partial |-> TRUE, todo |-> <<>>]
NoRunner    == [pc |-> "none", i |-> 1, journal |-> <<>>, cancelled |-> FALSE, hard |-> FALSE]
Final       == {"completed", "failed", "cancelled"}

ReplayInit ==
  /\ row = [s \in Session |-> NoRow]
  /\ summary = [s \in Session |-> "none"]
  /\ told = [s \in Session |-> {}]
  /\ agent_logs = [s \in Session |-> {}]
  /\ commands = <<>>
  /\ consumer = [pc |-> "idle", next |-> 1]
  /\ cancelled_session_ids = {}
  /\ runner = [s \in Session |-> NoRunner]
  /\ ending = [t \in Thread |-> NoEnding]
  /\ shadow = [s \in Session |-> <<>>]
  /\ process = "up"
  /\ orphans = {}
  /\ crashes = 0

Up    == process # "down"
Crash == crashes < MaxCrashes /\ crashes' = crashes + 1
-----------------------------------------------------------------------------
(* The gateway: a start with a fresh id, a cancel, a retry of a session.   *)
Sent(kind, s) == [kind |-> kind, s |-> s] \in ToSet(commands)
SendCommand(kind, s) ==
  /\ Len(commands) < MaxCommands
  /\ ~Sent(kind, s)
  /\ commands' = Append(commands, [kind |-> kind, s |-> s])
  /\ UNCHANGED <<store, consumer, cancelled_session_ids, runner, ending, shadow, process, orphans, crashes>>

Command == commands[consumer.next]
Taking(kind) ==
  /\ Up
  /\ consumer.pc = "idle"
  /\ consumer.next <= Len(commands)
  /\ Command.kind = kind
Commit == consumer' = [pc |-> "idle", next |-> consumer.next + 1]

Tell(s, status) == told' = [told EXCEPT ![s] = @ \cup {status}]

(* BuildCreateRequest, the validators of CreateReplaySession, its preflight *)
(* and the primary key may refuse a session, and a retry may find nothing  *)
(* to retry.                                                               *)
RefuseCommand ==
  /\ Taking("start") \/ Taking("retry")
  /\ Tell(Command.s, "failed")
  /\ Commit
  /\ UNCHANGED <<row, summary, agent_logs, commands, cancelled_session_ids, runner, ending,
                 shadow, process, orphans, crashes>>

NewRow(s, total) ==
  row' = [row EXCEPT ![s] = [status |-> "pending", total |-> total, progress |-> 0]]

(* CreateReplaySession: a new row; the registry keeps the one it has.      *)
TakeStart ==
  LET s == Command.s
  IN  /\ Taking("start")
      /\ row[s].status = "none" \/ s \in Ephemeral
      /\ IF row[s].status = "none" THEN NewRow(s, TotalUnique) ELSE UNCHANGED row
      /\ consumer' = [consumer EXCEPT !.pc = "spawn"]
      /\ UNCHANGED <<summary, told, agent_logs, commands, cancelled_session_ids, runner, ending,
                     shadow, process, orphans, crashes>>

(* RetryReplaySessionUseCase: a retry is always persistent.                *)
CanRetry(p) == row[p].status \in {"failed", "cancelled"}

CreateRetry(s) ==
  /\ CanRetry(Parent[s]) /\ row[s].status = "none" /\ Parent[s] \notin Ephemeral
  /\ NewRow(s, row[Parent[s]].total)

TakeRetry ==
  /\ Taking("retry")
  /\ CreateRetry(Command.s)
  /\ consumer' = [consumer EXCEPT !.pc = "spawn"]
  /\ UNCHANGED <<summary, told, agent_logs, commands, cancelled_session_ids, runner, ending,
                 shadow, process, orphans, crashes>>

(* POST /v1/retry-session creates the row and starts nothing.              *)
HttpRetry(s) ==
  /\ Up
  /\ s \in DOMAIN Parent
  /\ CreateRetry(s)
  /\ orphans' = orphans \cup {s}
  /\ UNCHANGED <<summary, told, agent_logs, commands, consumer, cancelled_session_ids, runner,
                 ending, shadow, process, crashes>>

Spawn ==
  /\ Up
  /\ consumer.pc = "spawn"
  /\ runner' = [runner EXCEPT ![Command.s] =
                  IF @.pc = "none" THEN [NoRunner EXCEPT !.pc = "start"] ELSE @]
  /\ Commit
  /\ UNCHANGED <<store, commands, cancelled_session_ids, ending, shadow, process, orphans, crashes>>

(* EvictIfTerminal, by the runner and after every cancel.                  *)
Evicted(s, r) == IF s \in Ephemeral /\ r.status \in Final THEN NoRow ELSE r

(* CancelReplaySession: GetById, then what its status asks for.            *)
TakeCancel ==
  LET s == Command.s
  IN  /\ Taking("cancel")
      /\ \/ /\ row[s].status = "pending"
            /\ consumer' = [consumer EXCEPT !.pc = "cancel_pending"]
            /\ UNCHANGED row
         \/ /\ row[s].status = "running"
            /\ consumer' = [consumer EXCEPT !.pc = "cancel_running"]
            /\ UNCHANGED row
         \/ /\ row[s].status \in Final \cup {"none"}
            /\ row' = [row EXCEPT ![s] = Evicted(s, @)]
            /\ Commit
      /\ UNCHANGED <<summary, told, agent_logs, commands, cancelled_session_ids, runner, ending,
                     shadow, process, orphans, crashes>>

SetToken ==
  LET s == Command.s
  IN  /\ Up
      /\ consumer.pc \in {"cancel_pending", "cancel_running"}
      /\ cancelled_session_ids' = cancelled_session_ids \cup {s}
      /\ \/ /\ consumer.pc = "cancel_pending"
            /\ consumer' = [consumer EXCEPT !.pc = "ending"]
            /\ ending' = [ending EXCEPT !["consumer"] =
                            [s |-> s, status |-> "cancelled", partial |-> TRUE,
                             todo |-> <<"state", "summary", "event">>]]
            /\ UNCHANGED row
         \/ /\ consumer.pc = "cancel_running"
            /\ row' = [row EXCEPT ![s] = Evicted(s, @)]
            /\ Commit
            /\ UNCHANGED ending
      /\ UNCHANGED <<summary, told, agent_logs, commands, runner, shadow, process, orphans, crashes>>
-----------------------------------------------------------------------------
(* The runner of a session.                                                *)
End(s, status, partial, todo) ==
  /\ runner' = [runner EXCEPT ![s].pc = "ending"]
  /\ ending' = [ending EXCEPT ![s] = [s |-> s, status |-> status, partial |-> partial, todo |-> todo]]

(* FailFromInit and cancel_before_running.  Mutation: the row is left out. *)
EndUnsaved(s, status)  == End(s, status, TRUE, <<"summary", "event">>)
EndEarly(s, status) == End(s, status, TRUE, <<"state", "summary", "event">>)
Skip(s) == End(s, row[s].status, TRUE, <<>>)

(* Up to the load of the history: no session, a status that is final, the  *)
(* token, and the refusals of rbac, snapshot, namespace and loader.        *)
BeginRun(s) ==
  /\ Up
  /\ runner[s].pc = "start"
  /\ \/ /\ row[s].status = "none"
        /\ EndEarly(s, "failed")
     \/ /\ row[s].status \in Final
        /\ Skip(s)
     \/ /\ row[s].status \in {"pending", "running"}
        /\ s \in cancelled_session_ids
        /\ EndEarly(s, "cancelled")
     \/ /\ row[s].status \in {"pending", "running"}
        /\ s \notin cancelled_session_ids
        /\ \/ EndEarly(s, "failed")
           \/ runner' = [runner EXCEPT ![s].pc = "loaded"] /\ UNCHANGED ending
  /\ UNCHANGED <<store, commands, consumer, cancelled_session_ids, shadow, process, orphans, crashes>>

(* The row and the token once more.                                        *)
CheckAgain(s) ==
  /\ Up
  /\ runner[s].pc = "loaded"
  /\ \/ /\ row[s].status \in {"completed", "failed"}
        /\ Skip(s)
     \/ /\ row[s].status = "cancelled" \/ (s \in cancelled_session_ids /\ row[s].status \notin Final)
        /\ EndEarly(s, "cancelled")
     \/ /\ row[s].status \notin Final /\ s \notin cancelled_session_ids
        /\ runner' = [runner EXCEPT ![s].pc = "checked"]
        /\ UNCHANGED ending
  /\ UNCHANGED <<store, commands, consumer, cancelled_session_ids, shadow, process, orphans, crashes>>

Patched(s, r) == IF row[s].status = "none" THEN NoRow ELSE r

SetRunning(s) ==
  /\ Up
  /\ runner[s].pc = "checked"
  /\ runner' = [runner EXCEPT ![s].pc = "loop"]
  /\ row' = [row EXCEPT ![s] = Patched(s, [status |-> "running", total |-> TotalUnique, progress |-> 0])]
  /\ Tell(s, "running")
  /\ UNCHANGED <<summary, agent_logs, commands, consumer, cancelled_session_ids, ending, shadow,
                 process, orphans, crashes>>

(* ReplayStepJournal: entries [id, outcome] in order_.                     *)
Upto(seq, b)     == SelectInSeq(seq, LAMBDA x : x = b)
Ids(journal)     == [k \in DOMAIN journal |-> journal[k].id]
Truncated(journal, b) ==
  LET k == Upto(Ids(journal), b) IN IF k = 0 THEN journal ELSE SubSeq(journal, 1, k - 1)

(* Mutation: the number of the log row is taken before the truncation.     *)
EarlySeq(journal, b) == Len(journal) + 1
BatchSeq(journal, b) == Len(Truncated(journal, b)) + 1

(* RestoreBeforeBatch, when the batch has a checkpoint.                    *)
Restored(applied, b, journal) ==
  LET k == Upto(applied, b)
  IN  IF Upto(Ids(journal), b) = 0 \/ k = 0 THEN applied ELSE SubSeq(applied, 1, k - 1)

(* RestoreState before a batch: the steps that survive.  A warm restore    *)
(* truncates the journal, a cold one reads the agent log in the order of   *)
(* batch_seq and stops at the batch.                                       *)
RunWarm(journal, b) == Ids(Truncated(journal, b))
InLogOrder(logs)    == [k \in 1 .. Cardinality(logs) |-> (CHOOSE l \in logs : l[2] = k)[1]]
RunCold(logs, b) ==
  LET seq == InLogOrder(logs) IN IF Upto(seq, b) = 0 THEN seq ELSE SubSeq(seq, 1, Upto(seq, b) - 1)

(* InMemoryShadowLedger::ApplyFills is idempotent per batch.               *)
Applied(applied, b) == IF b \in ToSet(applied) THEN applied ELSE Append(applied, b)

(* ExecuteBatch: "rejected" is a soft failure before, "residual" one after *)
(* the shadow ledger; a hard failure comes before it.                      *)
Outcomes == {"ok", "residual", "rejected", "hard"}
Touches(outcome) == outcome \in {"ok", "residual"}

Progress(s, n) == [row EXCEPT ![s] = Patched(s, [@ EXCEPT !.progress = n])]

StepBatch(s, outcome) ==
  LET b  == History[runner[s].i]
      j0 == Truncated(runner[s].journal, b)
      j1 == Append(j0, [id |-> b, outcome |-> outcome])
      n  == BatchSeq(runner[s].journal, b)
      a0 == Restored(shadow[s], b, runner[s].journal)
      a1 == IF Touches(outcome) THEN Applied(a0, b) ELSE a0
  IN  /\ Up
      /\ runner[s].pc = "loop" /\ runner[s].i <= Len(History)
      /\ s \notin cancelled_session_ids
      /\ shadow' = [shadow EXCEPT ![s] = a1]
      /\ \/ /\ agent_logs' = IF s \in Ephemeral THEN agent_logs
                             ELSE [agent_logs EXCEPT ![s] =
                                     {e \in @ : e[1] # b} \cup {<<b, n>>}]
            /\ runner' = [runner EXCEPT ![s].i = @ + 1, ![s].journal = j1,
                            ![s].hard = outcome = "hard",
                            ![s].pc = IF outcome = "hard" THEN "finish" ELSE "loop"]
            /\ row' = IF outcome = "hard" THEN row ELSE Progress(s, Len(j1))
            /\ UNCHANGED crashes
         \/ /\ Crash                          \* WriteAgentLog throws
            /\ runner' = [runner EXCEPT ![s].journal = j0, ![s].hard = TRUE, ![s].pc = "finish"]
            /\ UNCHANGED <<agent_logs, row>>
      /\ UNCHANGED <<summary, told, commands, consumer, cancelled_session_ids, ending, process, orphans>>

SeeToken(s) ==
  /\ Up
  /\ runner[s].pc = "loop" /\ runner[s].i <= Len(History)
  /\ s \in cancelled_session_ids
  /\ runner' = [runner EXCEPT ![s].cancelled = TRUE, ![s].pc = "finish"]
  /\ UNCHANGED <<store, commands, consumer, cancelled_session_ids, ending, shadow, process, orphans, crashes>>

(* The summary of the journal and the status of the session.               *)
Failures(journal) == {k \in DOMAIN journal : journal[k].outcome # "ok"}
Short(journal)    == Len(journal) < TotalUnique
Partial(journal, hard, cancelled) ==
  hard \/ Short(journal) \/ (~cancelled /\ Failures(journal) # {})

FinishRun(s) ==
  LET r == runner[s]
  IN  /\ Up
      /\ r.pc = "finish" \/ (r.pc = "loop" /\ r.i > Len(History))
      /\ End(s, IF r.hard THEN "failed" ELSE IF r.cancelled THEN "cancelled" ELSE "completed",
             Partial(r.journal, r.hard, r.cancelled), <<"summary", "state", "event">>)
      /\ UNCHANGED <<store, commands, consumer, cancelled_session_ids, shadow, process, orphans, crashes>>
-----------------------------------------------------------------------------
(* The calls that end a session, by its runner or by a cancel.             *)
Call(t, c) == Up /\ ending[t].todo # <<>> /\ Head(ending[t].todo) = c
Done(t)    == ending' = [ending EXCEPT ![t].todo = Tail(@)]
Dies       == process' = "down"

(* UpdateState has no condition on the status it replaces.                 *)
WriteState(t) ==
  LET s == ending[t].s
  IN  /\ Call(t, "state")
      /\ \/ /\ row' = [row EXCEPT ![s] = Patched(s, [@ EXCEPT !.status = ending[t].status])]
            /\ Done(t)
            /\ UNCHANGED <<process, crashes>>
         \/ /\ Crash /\ s \notin Ephemeral /\ UNCHANGED row
            /\ IF t = "consumer" THEN ending' = [ending EXCEPT ![t].todo = <<>>] /\ UNCHANGED process
                                 ELSE Dies /\ UNCHANGED ending
      /\ UNCHANGED <<summary, told, agent_logs, commands, consumer, cancelled_session_ids, runner,
                     shadow, orphans>>

(* SaveSummary: nothing for a session in the registry; for the others an   *)
(* upsert that the foreign key refuses when there is no row.               *)
SaveSummary(t) ==
  LET s == ending[t].s
  IN  /\ Call(t, "summary")
      /\ \/ /\ s \in Ephemeral /\ row[s].status # "none"
            /\ Done(t)
            /\ UNCHANGED <<summary, process, crashes>>
         \/ /\ s \notin Ephemeral /\ row[s].status # "none"
            /\ summary' = [summary EXCEPT ![s] = IF ending[t].partial THEN "partial" ELSE "full"]
            /\ Done(t)
            /\ UNCHANGED <<process, crashes>>
         \/ /\ row[s].status = "none"
            /\ Dies
            /\ UNCHANGED <<summary, ending, crashes>>
         \/ /\ Crash /\ s \notin Ephemeral
            /\ Dies
            /\ UNCHANGED <<summary, ending>>
      /\ UNCHANGED <<row, told, agent_logs, commands, consumer, cancelled_session_ids, runner,
                     shadow, orphans>>

PublishEnd(t) ==
  /\ Call(t, "event")
  /\ Tell(ending[t].s, ending[t].status)
  /\ Done(t)
  /\ UNCHANGED <<row, summary, agent_logs, commands, consumer, cancelled_session_ids, runner,
                 shadow, process, orphans, crashes>>

(* EvictIfTerminal and the end of the thread or of the command.            *)
EvictIfTerminal(s) ==
  /\ Up
  /\ runner[s].pc = "ending" /\ ending[s].todo = <<>>
  /\ runner' = [runner EXCEPT ![s].pc = "done"]
  /\ row' = [row EXCEPT ![s] = Evicted(s, @)]
  /\ UNCHANGED <<summary, told, agent_logs, commands, consumer, cancelled_session_ids, ending,
                 shadow, process, orphans, crashes>>

EndCancel ==
  LET s == Command.s
  IN  /\ Up
      /\ consumer.pc = "ending" /\ ending["consumer"].todo = <<>>
      /\ row' = [row EXCEPT ![s] = Evicted(s, @)]
      /\ Commit
      /\ UNCHANGED <<summary, told, agent_logs, commands, cancelled_session_ids, runner, ending,
                     shadow, process, orphans, crashes>>

(* A restart: the registry, the token, the shadow ledger and all threads   *)
(* are gone; a command whose offset is not committed comes back.           *)
RestartBacktest ==
  /\ process = "down" \/ crashes < MaxCrashes
  /\ crashes' = IF Up THEN crashes + 1 ELSE crashes
  /\ process' = "again"
  /\ row' = [s \in Session |-> IF s \in Ephemeral THEN NoRow ELSE row[s]]
  /\ consumer' = [consumer EXCEPT !.pc = "idle"]
  /\ cancelled_session_ids' = {}
  /\ runner' = [s \in Session |-> NoRunner]
  /\ ending' = [t \in Thread |-> NoEnding]
  /\ shadow' = [s \in Session |-> <<>>]
  /\ UNCHANGED <<summary, told, agent_logs, commands, orphans>>
-----------------------------------------------------------------------------
RunnerStep(s) ==
  \/ BeginRun(s) \/ CheckAgain(s) \/ SetRunning(s) \/ SeeToken(s) \/ FinishRun(s)
  \/ \E o \in Outcomes : StepBatch(s, o)
  \/ WriteState(s) \/ SaveSummary(s) \/ PublishEnd(s) \/ EvictIfTerminal(s)

ConsumerStep ==
  \/ RefuseCommand \/ TakeStart \/ TakeRetry \/ Spawn \/ TakeCancel \/ SetToken \/ EndCancel
  \/ WriteState("consumer") \/ SaveSummary("consumer") \/ PublishEnd("consumer")

Send ==
  \/ \E s \in Session \ DOMAIN Parent : \/ SendCommand("start", s)
                                        \/ Sent("start", s) /\ SendCommand("cancel", s)
  \/ \E s \in DOMAIN Parent : Sent("start", Parent[s]) /\ SendCommand("retry", s)

ReplayNext ==
  \/ Send
  \/ \E s \in Session : HttpRetry(s) \/ RunnerStep(s)
  \/ ConsumerStep
  \/ RestartBacktest

ReplaySpec == ReplayInit /\ [][ReplayNext]_replayVars
-----------------------------------------------------------------------------
Statuses == {"pending", "running"} \cup Final

(* The rows are well formed and progress never exceeds the total, which    *)
(* UpdateState would answer with an exception that ends the service.       *)
ReplayTypeOK ==
  /\ row \in [Session -> [status : Statuses \cup {"none"}, total : 0 .. TotalUnique,
                          progress : 0 .. Len(History)]]
  /\ \A s \in Session : row[s].progress <= row[s].total
  /\ summary \in [Session -> {"none", "partial", "full"}]
  /\ cancelled_session_ids \subseteq Session
  /\ consumer.next \in 1 .. Len(commands) + 1
  /\ crashes \in 0 .. MaxCrashes

(* However often a batch comes back, the shadow ledger of a session holds  *)
(* the batches its journal says were settled, once each and in its order.  *)
JournalMatchesLedger ==
  \A s \in Session :
    LET j == runner[s].journal
    IN  runner[s].pc # "none" /\ ~runner[s].hard =>
          shadow[s] = Ids(SelectSeq(j, LAMBDA e : Touches(e.outcome)))

(* The agent log of a running session numbers the batches as its journal.  *)
LogsMatchJournal ==
  \A s \in Session \ Ephemeral :
    runner[s].pc # "none" /\ ~runner[s].hard =>
      agent_logs[s] = {<<runner[s].journal[k].id, k>> : k \in DOMAIN runner[s].journal}

(* Restoring a session from the journal in memory and restoring it from    *)
(* ClickHouse give the same steps, before any batch it has replayed.       *)
RestoresAgree ==
  \A s \in Session \ Ephemeral :
    runner[s].pc # "none" /\ ~runner[s].hard =>
      \A b \in ToSet(History) : RunCold(agent_logs[s], b) = RunWarm(runner[s].journal, b)

(* A summary that is not marked partial stands for a session that          *)
(* journalled every batch, and one that completed settled them all.        *)
FullSummaryIsFull ==
  \A s \in Session :
    summary[s] = "full" /\ runner[s].pc # "none" =>
      /\ ToSet(Ids(runner[s].journal)) = ToSet(History)
      /\ ending[s].status = "completed" => Failures(runner[s].journal) = {}

(* A final status in the row of a session was published, once the threads  *)
(* that end it are through: neither the summary nor a cancel that overtook *)
(* the runner keeps it from replay.results.                                *)
EndsAreTold ==
  \A s \in Session :
    row[s].status \in Final /\ (\A t \in Thread : ending[t].s = s => ending[t].todo = <<>>)
      => row[s].status \in told[s] \/ process # "up"

(* Commands are finite in number, so in the end no session a command       *)
(* created is pending or running for good, unless the service goes down.   *)
SessionEnds ==
  <>[](\/ process # "up"
       \/ \A s \in Session \ orphans : row[s].status \in Final \cup {"none"})
=============================================================================

------------------------------- MODULE MCData -------------------------------
(* What market data and backtest keep: the market data service with its    *)
(* streams, the store behind it, and replay sessions.  `part' says which   *)
(* of them runs; the others stay in their initial state, so the state      *)
(* spaces add up.                                                          *)
EXTENDS MarketData, MarketStore

VARIABLES
  part,
  row, summary, told, agent_logs, commands, consumer, cancelled_session_ids, runner, ending,
  shadow, process, orphans, crashes

replayPart == <<row, summary, told, agent_logs, commands, consumer, cancelled_session_ids,
                runner, ending, shadow, process, orphans, crashes>>
vars == <<part, mdVars, storeVars, replayPart>>

-----------------------------------------------------------------------------
(* Two messages about one asset; the curve has grid points without a price *)
(* and one that adds no quantity.                                          *)
DataQuotes == {[ok |-> TRUE, bid |-> 1, ask |-> 1]}
DataCurves == {[bid |-> <<<<1, 2>>, <<3, 0>>, <<4, 1>>>>,
                ask |-> <<<<2, 1>>, <<2, 1>>, <<3, 2>>>>]}

(* A persistent session, its retry and an ephemeral one; the first batch   *)
(* was recorded twice.                                                     *)
Replay == INSTANCE ReplaySessions WITH
  Session <- {"p", "r", "e"}, Ephemeral <- {"e"}, Parent <- [s \in {"r"} |-> "p"],
  History <- <<"b1", "b1", "b2">>, MaxCommands <- 2, MaxCrashes <- 1

ASSUME DataAssumption == MdAssumption /\ StoreAssumption /\ Replay!ReplayAssumption

-----------------------------------------------------------------------------
Init ==
  /\ part \in {"market", "store", "replay"}
  /\ MdInit
  /\ StoreInit /\ (part # "store" => arrived = {"batch", "empty"})
  /\ Replay!ReplayInit

Next ==
  \/ part = "market" /\ MdNext /\ UNCHANGED <<part, storeVars, replayPart>>
  \/ part = "store" /\ StoreNext /\ UNCHANGED <<part, mdVars, replayPart>>
  \/ part = "replay" /\ Replay!ReplayNext /\ UNCHANGED <<part, mdVars, storeVars>>

(* The fairness of MdSpec, StoreSpec and FairReplaySpec, for the part that *)
(* runs.                                                                   *)
Fairness ==
  /\ WF_mdVars(part = "market" /\ Handles)
  /\ WF_mdVars(part = "market" /\ Sweeper)
  /\ WF_mdVars(part = "market" /\ Ages)
  /\ WF_mdVars(part = "market" /\ GetLiveMarketSnapshots)
  /\ WF_storeVars(part = "store" /\ ConsumerStep)
  /\ WF_replayPart(part = "replay" /\ Replay!ConsumerStep)
  /\ \A s \in {"p", "r", "e"} : WF_replayPart(part = "replay" /\ Replay!RunnerStep(s))

Spec == Init /\ [][Next]_vars /\ Fairness
-----------------------------------------------------------------------------
(* However often a batch comes back, the shadow ledger and the agent log   *)
(* of a session hold the batches its journal says were settled, once each  *)
(* and in its order; memory and ClickHouse restore the same steps; a       *)
(* summary that is not partial stands for a session that journalled every  *)
(* batch; a final status in a row was published once the threads that end  *)
(* the session are through.                                                *)
ReplaySafety ==
  part = "replay" => /\ Replay!ReplayTypeOK
                     /\ Replay!JournalMatchesLedger
                     /\ Replay!LogsMatchJournal
                     /\ Replay!RestoresAgree
                     /\ Replay!FullSummaryIsFull
                     /\ Replay!EndsAreTold

(* When messages stop, every cached snapshot ends up marked stale; in the  *)
(* end every message is behind the store's consumer, whatever ClickHouse   *)
(* refuses; no session a command created is pending or running for good,   *)
(* unless the service goes down.                                           *)
DataProgress ==
  /\ part = "market" => AllGoStale
  /\ part = "store" => AllHandled
  /\ part = "replay" => Replay!SessionEnds
=============================================================================

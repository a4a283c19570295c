---------------------------- MODULE MCExecution ----------------------------
(* The execution of hedge intents, in three parts.  `calm': every order of *)
(* the three consumers of a hedge with every kind of answer, nothing fails *)
(* but one produce.  `faulty': an acknowledged hedge with a failed PG      *)
(* statement or a lost produce, and a restart of venues, at any point.     *)
(* `reports': the reports of a venue order in every order and twice, with  *)
(* a restart of the ledger.  `part' says which of them runs.               *)
EXTENDS MCHedge

VARIABLE part

-----------------------------------------------------------------------------
(* Reports of a buy of two lots and a sell of one: a partial fill, one     *)
(* whose status the venue left out, one beyond the target.                 *)
ReportOf(id, intent, order, status, filled, remaining, avg, fee) ==
  [id |-> id, intent |-> intent, plan |-> MCIntentInfo[intent].plan, order |-> order,
   status |-> status, error |-> FALSE, filled |-> filled, remaining |-> remaining,
   avg |-> avg, fee |-> fee]

SampleReports ==
  {ReportOf(<<"buy", 1, "r1">>, "buy", <<"vo", 1>>, "PARTIALLY_FILLED", 1, 2, 3, 1),
   ReportOf(<<"buy", 2, "r2">>, "buy", <<"vo", 1>>, "NEW", 2, 1, 3, NoFee),
   ReportOf(<<"sell", 1, "r3">>, "sell", <<"vo", 2>>, "FILLED", 2, 0, 5, NoFee)}

MCReportSet == ExecutionReportSet \cup SampleReports

-----------------------------------------------------------------------------
(* Only the buy is sent, in the mode and with the answers of the part.     *)
Within(modes, outcomes) ==
  /\ "sell" \notin published'
  /\ execPc' # "idle" => execMode' \in modes
  /\ execPc' = "execution.venue" => execReport'.id[3] \in outcomes

CalmNext ==
  /\ NextHedge
  /\ pgFaults' = 0 /\ crashes' = 0 /\ execCrashes' = 0
  /\ Within({"LIVE_ONLY", "SHADOW"}, Outcomes)

FaultyNext ==
  /\ NextHedge
  /\ crashes' = 0 /\ pgFaults' + lost' <= 1
  /\ Within({"LIVE_ONLY", "SIM_ONLY"}, {"NEW", "answer_lost"})

ReportsInit ==
  /\ InitLedger(Intents)
  /\ intentInbox = Intents
  /\ reportInbox = Topics \X SampleReports

PackInit ==
  /\ part \in {"calm", "faulty", "reports"}
  /\ IF part = "reports" THEN ReportsInit ELSE InitReports
  /\ InitVenues /\ (part = "reports" => ~committed)

PackNext ==
  /\ UNCHANGED part
  /\ \/ part = "calm" /\ CalmNext
     \/ part = "faulty" /\ FaultyNext
     \/ part = "reports" /\ Next /\ UNCHANGED venuesVars

(* The three consumer loops run for ever, without restarts.                *)
Fairness ==
  /\ WF_hedgeVars(part = "calm" /\ ExecThread /\ CalmNext)
  /\ WF_hedgeVars(part = "calm" /\ IntentThread /\ UNCHANGED venuesVars /\ CalmNext)
  /\ WF_hedgeVars(part = "calm" /\ ReportThread /\ UNCHANGED venuesVars /\ CalmNext)

PackSpec == PackInit /\ [][PackNext]_<<part, hedgeVars>> /\ Fairness
-----------------------------------------------------------------------------
(* A published intent is executed and its report settled in the ledger,    *)
(* though a copy of the report may be lost.                                *)
HedgeSettles ==
  \A i \in Intents :
    part = "calm" /\ i \in published ~> \E r \in ReportSet : r.intent = i /\ Settled(r)
=============================================================================

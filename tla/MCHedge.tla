------------------------------ MODULE MCHedge ------------------------------
(* Small instances of HedgeExecution: a buy of two lots, a sell of one.    *)
EXTENDS HedgeExecution

MCIntentInfo == [i \in Intents |->
  IF i = "buy" THEN [venue |-> "v", plan |-> "p1", side |-> "BUY", target |-> 2, limit |-> 4]
               ELSE [venue |-> "v", plan |-> "p2", side |-> "SELL", target |-> 1, limit |-> 0]]
=============================================================================

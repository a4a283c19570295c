----------------------------- MODULE MCGateway ------------------------------
(* The requests of users and operators: the REST API of orders (orders)    *)
(* and of replays (replay), the positions gateway shows (view), the stream *)
(* of replay results (stream), the simulation sessions that decide what    *)
(* becomes of an intent (sessions) and the configuration of the venues     *)
(* (admin).  `part' says which of them runs; the others stay in their      *)
(* initial state, so the state spaces add up.                              *)
EXTENDS PositionsView, ResultsStream, GatewayApi, VenueAdmin

VARIABLES
  part,
  rows, config, seen, registry, handler, exec, todo, live, simmed, lob, count, torn, forgot

sessionsPart == <<rows, config, seen, registry, handler, exec, todo, live, simmed, lob, count,
                  torn, forgot>>
vars == <<part, apiVars, viewVars, streamVars, sessionsPart, adminVars>>

-----------------------------------------------------------------------------
(* Two clients with one client order id.  Bodies: a good one; one with a   *)
(* range that is reversed although its plain integers are not; one with a  *)
(* leg whose prices cross; a good one that is not persisted.               *)
StrategyLeg(pH) == [side |-> "buy", pL |-> 1, pH |-> pH, qrate |-> 1, qmax |-> 1]
Body(from, to, legs, persist) ==
  [named |-> TRUE, instruments |-> {"BTC/USDT"}, from |-> from, to |-> to, legs |-> legs,
   reward |-> "none", solver |-> "id", limits |-> "object", fees |-> "id", persist |-> persist]
Iso(d) == [kind |-> "iso", day |-> d]
Epoch(d) == [kind |-> "epoch", day |-> d]

MCApiBodies ==
  {Body(Iso(1), Iso(2), {StrategyLeg(2)}, TRUE), Body(Iso(2), Epoch(1), {StrategyLeg(2)}, TRUE),
   Body(Epoch(1), Epoch(1), {StrategyLeg(2), StrategyLeg(0)}, TRUE),
   Body(Iso(1), Iso(1), {StrategyLeg(2)}, FALSE)}

(* Four results of two sessions; two stream clients and a WebSocket.       *)
MCResultSessions == <<"a", "b", "a", "a">>
MCFollows == [e1 |-> "a", e2 |-> "b", w1 |-> "a"]

(* Two sessions, one active since an earlier day, and two admin requests   *)
(* at a time; one intent, which the book fills in part within its limit.   *)
Patch(mode, status) == [mode |-> mode, status |-> status]

Sessions == INSTANCE SimSessions WITH
  Sessions <- {1, 2}, Handlers <- {"h1", "h2"},
  SimIntents <- [i1 |-> [venue |-> "v1", target |-> 4, limit |-> 101]],
  NewSessions <- {[mode |-> "SIM_ONLY", scope |-> {}]},
  OldRows <- {<<[mode |-> "SHADOW", status |-> "ACTIVE", scope |-> {}, act |-> [sec |-> 1, nano |-> 0]],
                [mode |-> "LIVE_ONLY", status |-> "none", scope |-> {}, act |-> [sec |-> 0, nano |-> 0]]>>},
  Patches <- {Patch("SIM_ONLY", "keep"), Patch("keep", "ACTIVE"), Patch("keep", "CANCELLED")},
  SimBooks <- {<<[p |-> 100, q |-> 2], [p |-> 101, q |-> 1], [p |-> 103, q |-> 5]>>},
  Impact <- 1, MaxOps <- 2, MaxRestarts <- 1

(* Two admin requests at a time, a row of an earlier day, one restart.     *)
MCOldVenueRows ==
  {{}, {[venue |-> "binance", row |-> [on |-> FALSE, mode |-> "WATCH", limit |-> 0]]}}
MCVenuePatches == {[on |-> "yes", mode |-> "WATCH", limit |-> 0]}
MCBacktestIds == <<"binance", "coinbase">>

ASSUME GatewayAssumption == ApiAssumption /\ Sessions!SimAssumption /\ VenueAdminAssumption

-----------------------------------------------------------------------------
(* A part with several initial states takes one of them while another runs. *)
Init ==
  /\ part \in {"orders", "replay", "view", "stream", "sessions", "admin"}
  /\ ApiInit /\ ViewInit /\ StreamInit /\ Sessions!SimInit
  /\ AdminInit /\ (part # "admin" => table["binance"].mode = "none")

(* Ids are drawn in order, which permutes behaviours; one client asks,     *)
(* since requests do not read each other; the third request is a cancel of *)
(* the only session or a retry that draws the second id.                   *)
InTurn ==
  /\ "r2" \in drawn' => "r1" \in drawn'
  /\ request'["c2"] = request["c2"]
  /\ apiCount'.posts = 3 /\ apiCount.posts = 2
       => "r2" \notin drawn /\ request'["c1"].op \in {"retry", "stop"}

(* The second handler of sim_mgr takes a request while the first is busy.  *)
SecondWaits ==
  handler["h2"].at = "free" /\ handler'["h2"].at # "free" => handler["h1"].at # "free"

(* With a restart the gateway gets two requests and venues one, without    *)
(* one they get one more.                                                  *)
Next ==
  \/ /\ \/ part = "orders" /\ (OrderStep \/ GatewayCrash \/ ApiDone)
        \/ part = "replay" /\ (ReplayStep \/ GatewayCrash \/ ApiDone) /\ InTurn
     /\ apiCount'.crashes = 0 \/ apiCount'.posts <= 2
     /\ UNCHANGED <<part, viewVars, streamVars, sessionsPart, adminVars>>
  \/ part = "view" /\ ViewNext
     /\ UNCHANGED <<part, apiVars, streamVars, sessionsPart, adminVars>>
  \/ part = "stream" /\ StreamStep
     /\ UNCHANGED <<part, apiVars, viewVars, sessionsPart, adminVars>>
  \/ part = "sessions" /\ Sessions!SimNext /\ SecondWaits /\ (count'.restarts = 0 \/ count'.ops <= 1)
     /\ UNCHANGED <<part, apiVars, viewVars, streamVars, adminVars>>
  \/ part = "admin" /\ AdminNext /\ (spent'.reboots = 0 \/ spent'.writes <= 1)
     /\ UNCHANGED <<part, apiVars, viewVars, streamVars, sessionsPart>>

(* Consumers and threads go on; entries expire; calls are delivered; a     *)
(* stream that waits is served and EventSource reconnects by itself, a     *)
(* slot being free again and again.                                        *)
Fairness ==
  /\ WF_apiVars(part = "replay" /\ Deliver)
  /\ WF_apiVars(part = "replay" /\ HandleCommand)
  /\ WF_viewVars(part = "view" /\ Signal)
  /\ WF_viewVars(part = "view" /\ HandlePayload)
  /\ WF_viewVars(part = "view" /\ InvalidateCache)
  /\ WF_viewVars(part = "view" /\ Expire)
  /\ \A s \in Sockets : WF_viewVars(part = "view" /\ Push(s))
  /\ \A g \in Getters : WF_viewVars(part = "view" /\ (Build(g) \/ Put(g) \/ Answer(g)))
  /\ WF_streamVars(part = "stream" /\ ConsumeResult)
  /\ WF_streamVars(part = "stream" /\ CommitResult)
  /\ \A c \in SseClients :
       /\ SF_streamVars(part = "stream" /\ OpenStream(c) /\ active < MaxStreams)
       /\ SF_streamVars(part = "stream" /\ StreamNext(c))
       /\ WF_streamVars(part = "stream" /\ EndStream(c) /\ NextFor(c) = {})
  /\ \A h \in {"h1", "h2"} :
       /\ WF_sessionsPart(part = "sessions" /\ (Sessions!Store(h) \/ Sessions!StoreFails(h)))
       /\ WF_sessionsPart(part = "sessions" /\ (Sessions!Publish(h) \/ Sessions!PublishFails(h)))
  /\ WF_sessionsPart(part = "sessions" /\ Sessions!ConsumeConfig)

Spec == Init /\ [][Next]_vars /\ Fairness
-----------------------------------------------------------------------------
(* The router has what PostgreSQL has once sim.config is consumed, unless  *)
(* requests overlapped, a publication failed or the process restarted; a   *)
(* simulated fill is within the book it was simulated on; when a SIM_ONLY  *)
(* session was activated in a later second than every other active one and *)
(* the router knows it, no live order is sent for its venues.              *)
SimSafety ==
  /\ [](part = "sessions" =>
         Sessions!SimTypeOK /\ Sessions!HotReloadAgrees /\ Sessions!SimulatedWithinBook)
  /\ Sessions!SimOnlyIsSafe

=============================================================================

----------------------------- MODULE GatewayApi -----------------------------
(***************************************************************************)
(* The HTTP API of gateway: flow orders (gRPC calls to order_flow, without *)
(* a deadline) and replay sessions (commands published to replay.commands, *)
(* rows read from PostgreSQL).  A client sends one request at a time and   *)
(* may repeat it.  A call that broke may still be served by order_flow.    *)
(*                                                                         *)
(* Four endpoints write replay.commands: a start that gateway validates,   *)
(* POST /replay/commands, which publishes whatever it is sent, a retry and *)
(* a cancel.  order_flow and backtest are reduced to what an answer of     *)
(* gateway depends on: orders_, and what the consumer of backtest makes of *)
(* a command (ReplaySessions has the rest of it, its restarts included).   *)
(***************************************************************************)
EXTENDS Integers, Sequences, FiniteSets

CONSTANTS Clients,
          ClientIds,     \* client_order_id of the orders they post
          ReplayIds,     \* ids of sessions: uuids, and those clients choose
          ApiBodies,     \* bodies of starts
          MaxPosts,      \* bound: requests
          MaxApiCrashes  \* bound: crashes of gateway

(* What the constants satisfy; the instances that are checked assert it.   *)
ApiAssumption ==
  /\ MaxPosts \in Nat /\ MaxApiCrashes \in Nat
  /\ \A body \in ApiBodies : body.from.day \in Int /\ body.to.day \in Int

VARIABLES request,   \* [Clients -> the request its connection waits for]
          calls,     \* gRPC calls order_flow has not served yet
          orders,    \* orders_ of order_flow: sequence of [cid, client, status]
          outbox,    \* records in the producer's queue
          commands,  \* topic replay.commands
          handled,   \* commands backtest has handled
          sessionRows,  \* replay_sessions: id -> [status, body]
          unpersisted,  \* EphemeralSessionRegistry of backtest: id -> [status, body]
          reported,  \* ids that replay.results has a "failed" creation of
          told,      \* answers: set of [client, op, ...]
          drawn,     \* ids in use
          lost,      \* commands that went with a producer's queue, or whose report did
          apiCount   \* [posts, crashes]

replayVars == <<outbox, commands, handled, sessionRows, unpersisted, reported, drawn, lost>>
apiVars == <<request, calls, orders, replayVars, told, apiCount>>

Quiet == [op |-> "none", arg |-> "none", at |-> "idle", nr |-> 0]
Terminal == {"completed", "failed", "cancelled"}
NoSession == [status |-> "none", body |-> "none"]
Absent(session) == session.status \in {"none", "evicted"}

(* validate_replay_create_payload.  A date is [kind, day]: epoch numbers   *)
(* and yyyy-mm-dd strings are compared as plain integers.                  *)
ComparableDate(d) == IF d.kind = "iso" THEN d.day ELSE 1000 * d.day

ValidLeg(leg) == leg.side \in {"buy", "sell"} /\ leg.pL <= leg.pH /\ leg.qrate > 0 /\ leg.qmax > 0

ValidStrategy(legs) == legs # {} /\ \A leg \in legs : ValidLeg(leg)

\* solver configuration, risk limits, fee model: an id or a well-formed object
ValidParts(body) == \A part \in {body.solver, body.limits, body.fees} : part \in {"id", "object"}

ValidRest(body) ==
  /\ ValidStrategy(body.legs)
  /\ body.reward \in {"none", "incrementalpnl", "is"}
  /\ ValidParts(body)

ValidPayload(body) ==
  /\ body.named /\ body.instruments # {}
  /\ ComparableDate(body.from) <= ComparableDate(body.to)
  /\ ValidRest(body)

Tell(c, answer) ==
  /\ told' = told \cup {answer}
  /\ request' = [request EXCEPT ![c] = Quiet]

Ask(c, op, arg, at) ==
  /\ request[c].at = "idle" /\ apiCount.posts < MaxPosts
  /\ apiCount' = [apiCount EXCEPT !.posts = @ + 1]
  /\ request' = [request EXCEPT ![c] = [op |-> op, arg |-> arg, at |-> at, nr |-> apiCount.posts]]

(* POST, DELETE, GET of flow orders: the call, then order_flow, then the   *)
(* answer, or a broken call (GRPC_ERROR).                                  *)
CallCreate(c, cid) ==
  /\ Ask(c, "create", cid, "called")
  /\ calls' = calls \cup {[client |-> c, op |-> "create", arg |-> cid, nr |-> apiCount.posts]}
  /\ UNCHANGED <<orders, replayVars, told>>

CallCancel(c, id) ==
  /\ id \in DOMAIN orders /\ Ask(c, "cancel", id, "called")
  /\ calls' = calls \cup {[client |-> c, op |-> "cancel", arg |-> id, nr |-> apiCount.posts]}
  /\ UNCHANGED <<orders, replayVars, told>>

Current(call) == request[call.client].at = "called" /\ request[call.client].nr = call.nr

AnswerTo(call, answer) ==
  IF Current(call) THEN Tell(call.client, answer) ELSE UNCHANGED <<request, told>>

(* OrderFlowUseCases::CreateFlowOrder: the order id is fresh, the client   *)
(* order id is stored and not looked up.                                   *)
ServeCreate(call) ==
  /\ call \in calls /\ call.op = "create" /\ calls' = calls \ {call}
  /\ \/ /\ orders' = Append(orders, [cid |-> call.arg, client |-> call.client, status |-> "new"])
        /\ AnswerTo(call, [client |-> call.client, op |-> "create", ok |-> TRUE, id |-> Len(orders) + 1,
                           cid |-> call.arg])
     \/ /\ AnswerTo(call, [client |-> call.client, op |-> "create", ok |-> FALSE, id |-> 0, cid |-> call.arg])
        /\ UNCHANGED orders
  /\ UNCHANGED <<replayVars, apiCount>>

ServeCancel(call) ==
  /\ call \in calls /\ call.op = "cancel" /\ calls' = calls \ {call}
  /\ orders' = [orders EXCEPT ![call.arg].status = "cancelled"]
  /\ AnswerTo(call, [client |-> call.client, op |-> "cancel", ok |-> TRUE, id |-> call.arg, cid |-> "none"])
  /\ UNCHANGED <<replayVars, apiCount>>

(* OrderFlowClient: a status that is not ok.                               *)
GrpcError(c) == [client |-> c, op |-> request[c].op, ok |-> FALSE, id |-> 0,
                 cid |-> IF request[c].op = "create" THEN request[c].arg ELSE "none"]

CallBreaks(c) ==
  /\ request[c].at = "called"
  /\ Tell(c, GrpcError(c))
  /\ \E served \in BOOLEAN :
       calls' = IF served THEN calls ELSE {call \in calls : ~Current(call) \/ call.client # c}
  /\ UNCHANGED <<orders, replayVars, apiCount>>

(* ListFlowOrders: the orders of the user; a broken call answers 200 with  *)
(* an empty list.                                                          *)
ListOrders(c) ==
  /\ \E broken \in BOOLEAN :
       /\ Ask(c, "list", "none", "idle")
       /\ told' = told \cup {[client |-> c, op |-> "list", broken |-> broken,
                              ids |-> IF broken THEN {}
                                      ELSE {i \in DOMAIN orders : orders[i].client = c}]}
  /\ UNCHANGED <<calls, orders, replayVars>>

(* ReplayCommandsKafkaPublisher::Publish queues the record or refuses.     *)
Enqueue(cmd, accepted) == outbox' = IF accepted THEN Append(outbox, cmd) ELSE outbox

CodeOf(accepted) == IF accepted THEN 202 ELSE 502

(* An answer about session s, whose creation fails under id r.             *)
SessionAnswer(c, op, s, r, accepted, row) ==
  [client |-> c, op |-> op, session |-> s, report |-> r, code |-> CodeOf(accepted), row |-> row]

FreshIds == ReplayIds \ drawn
KnownIds == {a.session : a \in {b \in told : b.op \in {"start", "stop", "retry"}}}
           \cup {s \in ReplayIds : sessionRows[s].status # "none"}

(* What the four endpoints have in common: 400 and 403 leave no trace; a   *)
(* request that does not poll is answered at once, a cancel with the row.  *)
Shown(op, s, accepted) == IF op = "stop" /\ accepted THEN sessionRows[s].status ELSE "none"

PostCommand(c, op, k, r, ids, accepted) ==
  /\ Ask(c, op, k.session, "idle")
  /\ Enqueue(k, accepted)
  /\ drawn' = drawn \cup ids
  /\ told' = told \cup {SessionAnswer(c, op, k.session, r, accepted, Shown(op, k.session, accepted))}
  /\ UNCHANGED <<calls, orders, commands, handled, sessionRows, unpersisted, reported, lost>>

(* POST /replay/sessions: after the publication the handler polls for the  *)
(* row for two seconds.                                                    *)
PostSession(c, body) ==
  \E s \in FreshIds :
    /\ ValidPayload(body)
    /\ \/ /\ Ask(c, "start", s, "polling")
          /\ Enqueue([type |-> "start", session |-> s, report |-> s, body |-> body], TRUE)
          /\ drawn' = drawn \cup {s}
          /\ UNCHANGED <<calls, orders, commands, handled, sessionRows, unpersisted, reported, told, lost>>
       \/ PostCommand(c, "start", [type |-> "start", session |-> s, report |-> s, body |-> body], s, {s}, FALSE)

PollEnds(c) ==
  /\ request[c].at = "polling"
  /\ LET s == request[c].arg
     IN  \E row \in {sessionRows[s].status, "none"} :
           Tell(c, SessionAnswer(c, "start", s, s, TRUE, row))
  /\ UNCHANGED <<calls, orders, replayVars, apiCount>>

(* POST /replay/commands: any body under any id, published as it is.  The  *)
(* session takes the id in the body, a failure is reported under the id of *)
(* the command.                                                            *)
RawStart(c, body) ==
  \E s, r \in KnownIds \cup FreshIds, accepted \in BOOLEAN :
    PostCommand(c, "start", [type |-> "start", session |-> s, report |-> r, body |-> body],
                r, {s, r}, accepted)

(* A retry that names no new id gets a fresh one and is reported under the *)
(* id of the command; POST /replay/sessions/{id}/retry always names it.    *)
Retry(c, p) ==
  \E s, r \in KnownIds \cup FreshIds, accepted \in BOOLEAN :
    /\ r = s \/ s \in FreshIds
    /\ PostCommand(c, "retry", [type |-> "retry", session |-> s, report |-> r, parent |-> p],
                   r, {s, r}, accepted)

(* DELETE /replay/sessions/{id}, and a raw cancel: published whatever the  *)
(* state of the session.                                                   *)
DeleteSession(c, s) ==
  \E accepted \in BOOLEAN : PostCommand(c, "stop", [type |-> "cancel", session |-> s], s, {}, accepted)

(* The producer's thread delivers the queue.                               *)
Deliver ==
  /\ outbox # <<>>
  /\ commands' = Append(commands, Head(outbox)) /\ outbox' = Tail(outbox)
  /\ UNCHANGED <<request, calls, orders, handled, sessionRows, unpersisted, reported, told, drawn, lost, apiCount>>

(* The consumer of backtest: one command after the other.                  *)
NextCommand == commands[handled + 1]
Taking(types) == handled < Len(commands) /\ NextCommand.type \in types /\ handled' = handled + 1

\* Mutant: backtest trusts that gateway has validated what it publishes.
Trusted(body) == TRUE

(* BuildCreateRequest and CreateReplaySession: the times of the range are  *)
(* compared, whatever their notation; a name has a default, and a body may *)
(* come without instruments.                                               *)
Acceptable(body) == body.from.day <= body.to.day /\ ValidRest(body)

(* RoutingReplaySessionRepository: the registry first, then the rows.      *)
Held(s) == IF Absent(unpersisted[s]) THEN sessionRows[s] ELSE unpersisted[s]

SetStatus(s, status) ==
  IF Absent(unpersisted[s])
  THEN sessionRows' = [sessionRows EXCEPT ![s].status = status] /\ UNCHANGED unpersisted
  ELSE unpersisted' = [unpersisted EXCEPT ![s].status = status] /\ UNCHANGED sessionRows

(* A start: the primary key refuses a second row; the registry keeps the   *)
(* session it has.                                                         *)
StartReplay ==
  /\ Taking({"start"}) /\ Acceptable(NextCommand.body)
  /\ LET s   == NextCommand.session
         new == [status |-> "pending", body |-> NextCommand.body]
     IN  \/ /\ NextCommand.body.persist /\ sessionRows[s].status = "none"
            /\ sessionRows' = [sessionRows EXCEPT ![s] = new] /\ UNCHANGED unpersisted
         \/ /\ ~NextCommand.body.persist
            /\ unpersisted' = [unpersisted EXCEPT ![s] = IF Absent(@) THEN new ELSE @]
            /\ UNCHANGED sessionRows
  /\ UNCHANGED <<request, calls, orders, outbox, commands, reported, told, drawn, lost, apiCount>>

(* A retry copies the session it retries; its row refers to that one's.    *)
RetryReplay ==
  /\ Taking({"retry"})
  /\ LET parent == Held(NextCommand.parent)
         s      == NextCommand.session
     IN  /\ parent.status \in {"failed", "cancelled"}
         /\ sessionRows[NextCommand.parent].status # "none" /\ sessionRows[s].status = "none"
         /\ sessionRows' = [sessionRows EXCEPT ![s] = [status |-> "pending", body |-> parent.body]]
  /\ UNCHANGED <<request, calls, orders, outbox, commands, unpersisted, reported, told, drawn, lost, apiCount>>

(* Every other start or retry, and any of them for a reason of backtest's  *)
(* own (rights, snapshot of the configuration, repository): "failed" on    *)
(* replay.results, if the producer takes it.                               *)
RefuseReplay ==
  /\ Taking({"start", "retry"})
  /\ \/ reported' = reported \cup {NextCommand.report} /\ UNCHANGED lost
     \/ lost' = lost \cup {NextCommand} /\ UNCHANGED reported
  /\ UNCHANGED <<request, calls, orders, outbox, commands, sessionRows, unpersisted, told, drawn, apiCount>>

(* A cancel ends a pending session, and evicts one that is over from the   *)
(* registry; a running one gets its token.                                 *)
CancelReplay ==
  /\ Taking({"cancel"})
  /\ LET s == NextCommand.session
     IN  CASE unpersisted[s].status \in {"pending"} \cup Terminal -> SetStatus(s, "evicted")
           [] Absent(unpersisted[s]) /\ sessionRows[s].status = "pending" -> SetStatus(s, "cancelled")
           [] OTHER -> UNCHANGED <<sessionRows, unpersisted>>
  /\ UNCHANGED <<request, calls, orders, outbox, commands, reported, told, drawn, lost, apiCount>>

HandleCommand == StartReplay \/ RetryReplay \/ RefuseReplay \/ CancelReplay

(* The runner of a session; an ended one leaves the registry.              *)
Token(s) == \E i \in 1 .. handled : commands[i].type = "cancel" /\ commands[i].session = s

RunSession ==
  /\ \E s \in ReplayIds :
       \/ /\ Held(s).status = "pending"
          /\ \E next \in {"running", "failed"} : SetStatus(s, next)
       \/ /\ Held(s).status = "running"
          /\ \E next \in {"completed", "failed"} : SetStatus(s, next)
       \/ /\ Held(s).status \in {"pending", "running"} /\ Token(s)
          /\ SetStatus(s, "cancelled")
       \/ /\ unpersisted[s].status \in Terminal
          /\ SetStatus(s, "evicted")
  /\ UNCHANGED <<request, calls, orders, outbox, commands, handled, reported, told, drawn, lost, apiCount>>

(* gateway crashes: connections and the producer's queue are gone.         *)
GatewayCrash ==
  /\ apiCount.crashes < MaxApiCrashes
  /\ apiCount' = [apiCount EXCEPT !.crashes = @ + 1]
  /\ request' = [c \in Clients |-> Quiet]
  /\ lost' = lost \cup {outbox[i] : i \in DOMAIN outbox} /\ outbox' = <<>>
  /\ UNCHANGED <<calls, orders, commands, handled, sessionRows, unpersisted, reported, told, drawn>>

ApiInit ==
  /\ request = [c \in Clients |-> Quiet] /\ calls = {} /\ orders = <<>>
  /\ outbox = <<>> /\ commands = <<>> /\ handled = 0
  /\ sessionRows = [s \in ReplayIds |-> NoSession] /\ unpersisted = [s \in ReplayIds |-> NoSession]
  /\ reported = {} /\ drawn = {}
  /\ told = {} /\ lost = {} /\ apiCount = [posts |-> 0, crashes |-> 0]

ApiDone == apiCount.posts = MaxPosts /\ UNCHANGED apiVars

OrderRequest(c) ==
  \/ \E cid \in ClientIds : CallCreate(c, cid)
  \/ \E id \in DOMAIN orders : CallCancel(c, id)
  \/ CallBreaks(c) \/ ListOrders(c)

ReplayRequest(c) ==
  \/ \E body \in ApiBodies : PostSession(c, body) \/ RawStart(c, body)
  \/ \E s \in KnownIds : Retry(c, s) \/ DeleteSession(c, s)
  \/ PollEnds(c)

OrderStep ==
  \/ \E c \in Clients : OrderRequest(c)
  \/ \E call \in calls : ServeCreate(call) \/ ServeCancel(call)

ReplayStep ==
  \/ \E c \in Clients : ReplayRequest(c)
  \/ Deliver \/ HandleCommand \/ RunSession

ApiNext == OrderStep \/ ReplayStep \/ GatewayCrash \/ ApiDone

(* The producer's thread and the consumer of backtest keep running.        *)
ApiSpec == ApiInit /\ [][ApiNext]_apiVars /\ WF_apiVars(Deliver) /\ WF_apiVars(HandleCommand)
-----------------------------------------------------------------------------
ApiTypeOK ==
  /\ \A c \in Clients : request[c].at \in {"idle", "called", "polling"}
  /\ \A a \in told : a.client \in Clients
  /\ handled \in 0 .. Len(commands)
  /\ \A s \in ReplayIds : /\ sessionRows[s].status \in {"none", "pending", "running"} \cup Terminal
                          /\ unpersisted[s].status \in {"none", "pending", "running", "evicted"} \cup Terminal

(* What a client was told of its orders is true: an accepted order exists  *)
(* under its client id, and a cancelled one stays cancelled, although      *)
(* calls break, are served late and are repeated.                          *)
ToldOrdersExist ==
  \A a \in told :
    /\ a.op = "create" /\ a.ok => a.id \in DOMAIN orders /\ orders[a.id].cid = a.cid
    /\ a.op = "cancel" /\ a.ok => orders[a.id].status = "cancelled"

(* Whichever endpoint its start came through, validated or not, and over   *)
(* any chain of retries: the legs of a session that may run can be orders, *)
(* and its range is not reversed in time, in whatever notation it came.    *)
SessionsAreSound ==
  \A s \in ReplayIds : \A session \in {sessionRows[s], unpersisted[s]} :
    session.status # "none" =>
      /\ \A leg \in session.body.legs : ValidLeg(leg)
      /\ session.body.from.day <= session.body.to.day

(* A start or a retry that was answered 202 becomes a row or a session in  *)
(* the registry, or its failure is reported, unless a crash of gateway     *)
(* took the queued command or the producer of backtest refused the report. *)
Accounted(a) ==
  \/ sessionRows[a.session].status # "none" \/ unpersisted[a.session].status # "none"
  \/ a.report \in reported
  \/ \E k \in lost : k.type # "cancel" /\ k.session = a.session

Outstanding == \E a \in told : a.op \in {"start", "retry"} /\ a.code = 202 /\ ~Accounted(a)

AcceptedSessionIsAccounted == Outstanding ~> ~Outstanding

(* What a client was told of its orders is true: an accepted order exists  *)
(* under its client id, and a cancelled one stays cancelled, although      *)
(* calls break, are served late and are repeated; and what a session runs  *)
(* is sound although one endpoint publishes starts without looking.        *)
ApiSafety == ApiTypeOK /\ ToldOrdersExist /\ SessionsAreSound
=============================================================================

---------------------------- MODULE SimSessions ----------------------------
(***************************************************************************)
(* Simulation sessions of venues: the admin API that keeps them in         *)
(* PostgreSQL and publishes sim.config, the consumer that rebuilds the     *)
(* in-memory registry, the router that asks it for every intent, and the   *)
(* simulator that answers instead of, or beside, the live venue.           *)
(*                                                                         *)
(* The admin server is multithreaded: every request is a handler that      *)
(* reads the row, writes it and publishes, in separate steps.  A session   *)
(* is [mode, status, scope, act]: scope {} is every venue, act the time of *)
(* its activation, [sec, nano].  PostgreSQL keeps whole seconds of it.     *)
(* The book is a sequence of [p, q] of the side an intent takes, best      *)
(* first; all intents buy.                                                 *)
(***************************************************************************)
EXTENDS Positions, SequencesExt

CONSTANTS Sessions,     \* session ids: numbers in the order of their strings
          Handlers,     \* admin requests served at the same time
          SimIntents,   \* intent -> [venue, target, limit], limit 0: a market order
          NewSessions,  \* [mode, scope]: what operators create
          Patches,      \* [mode, status] of update requests, "keep": a field they leave out
          OldRows,      \* sessions of an earlier day, already consumed: sets of rows by id
          SimBooks,     \* last venue snapshot: a book, or <<>> for none
          Impact,       \* price impact added to the VWAP
          MaxOps,       \* bound: admin requests
          MaxRestarts   \* bound: restarts of venues

(* What the constants satisfy; the instances that are checked assert it.   *)
SimAssumption == Sessions \subseteq Nat \ {0} /\ Impact \in Nat /\ MaxOps \in Nat /\ MaxRestarts \in Nat

VARIABLES rows,        \* sim_sessions in PostgreSQL
          config,      \* topic sim.config
          seen,        \* position of the consumer; committed with every event
          registry,    \* SimSessionRegistry
          handler,     \* admin requests in progress
          exec,        \* the intent in exec_consume_loop
          todo,        \* intents not yet committed
          live, simmed,  \* intents sent to the venue; simulated reports
          lob,         \* last venue snapshot: [book, stale]
          count,       \* [ops, restarts, clock]
          torn,        \* sessions with overlapping requests or an unpublished change
          forgot       \* a restart emptied the registry

simVars == <<rows, config, seen, registry, handler, exec, todo, live, simmed, lob, count, torn, forgot>>

Unset  == [sec |-> 0, nano |-> 0]
NoRow  == [mode |-> "LIVE_ONLY", status |-> "none", scope |-> {}, act |-> Unset]
Free   == [op |-> "none", id |-> 0, row |-> NoRow, at |-> "free"]
NoExec == [intent |-> "none", mode |-> "none", at |-> "idle"]
Ended(status) == status \in {"COMPLETED", "CANCELLED"}

(* An activation comes in the second of the last one or in the next.       *)
Later(t) == {[t EXCEPT !.nano = @ + 1], [sec |-> t.sec + 1, nano |-> 1]}

(* sim_mgr requests.  Create does not look at the row; Update and Complete *)
(* read it first.                                                          *)
Busy(s) == {h \in Handlers : handler[h].at # "free" /\ handler[h].id = s}

Begin(h, op, s, row, now) ==
  /\ handler[h].at = "free" /\ count.ops < MaxOps
  /\ count' = [count EXCEPT !.ops = @ + 1, !.clock = IF now = Unset THEN @ ELSE now]
  /\ handler' = [handler EXCEPT ![h] = [op |-> op, id |-> s, row |-> row, at |-> "store"]]
  /\ torn' = IF Busy(s) = {} THEN torn ELSE torn \cup {s}
  /\ UNCHANGED <<rows, config, seen, registry, exec, todo, live, simmed, lob, forgot>>

Create(h) ==
  \E s \in Sessions, n \in NewSessions, now \in Later(count.clock) \cup {Unset} :
    Begin(h, "create", s, [mode |-> n.mode, status |-> IF now = Unset THEN "PAUSED" ELSE "ACTIVE",
                           scope |-> n.scope, act |-> now], now)

(* Update: only the fields of the request; an activation is stamped once.  *)
(* The time of an earlier one is the time that was read, without nanos.    *)
Stamps(row, p) == IF p.status = "ACTIVE" /\ row.act = Unset THEN Later(count.clock) ELSE {Unset}

Patched(row, p, now) ==
  [row EXCEPT !.mode   = IF p.mode = "keep" THEN @ ELSE p.mode,
              !.status = IF p.status = "keep" THEN @ ELSE p.status,
              !.act    = IF now = Unset THEN @ ELSE now]

Update(h) ==
  \E s \in Sessions, p \in Patches :
    /\ rows[s].status # "none"
    /\ \E now \in Stamps(rows[s], p) : Begin(h, "update", s, Patched(rows[s], p, now), now)

Complete(h) ==
  \E s \in Sessions :
    /\ rows[s].status # "none"
    /\ Begin(h, "complete", s, [rows[s] EXCEPT !.status = "COMPLETED"], Unset)

(* repo_.Upsert: the whole row, times in whole seconds, while the event    *)
(* keeps the time as it was stamped; a failure answers INTERNAL.           *)
Stored(row) == [row EXCEPT !.act.nano = 0]

Store(h) ==
  LET r == handler[h]
  IN  /\ r.at = "store"
      /\ rows' = [rows EXCEPT ![r.id] = Stored(r.row)]
      /\ handler' = [handler EXCEPT ![h].at = "publish"]
      /\ UNCHANGED <<config, seen, registry, exec, todo, live, simmed, lob, count, torn, forgot>>

StoreFails(h) ==
  /\ handler[h].at = "store"
  /\ handler' = [handler EXCEPT ![h] = Free]
  /\ UNCHANGED <<rows, config, seen, registry, exec, todo, live, simmed, lob, count, torn, forgot>>

(* PublishConfig: DELETE for an ended session, else UPSERT; the answer of  *)
(* the producer is ignored.                                                *)
Event(r) == [type |-> IF Ended(r.row.status) THEN "DELETE" ELSE "UPSERT", id |-> r.id, row |-> r.row]

Publish(h) ==
  /\ handler[h].at = "publish"
  /\ config' = Append(config, Event(handler[h]))
  /\ handler' = [handler EXCEPT ![h] = Free]
  /\ UNCHANGED <<rows, seen, registry, exec, todo, live, simmed, lob, count, torn, forgot>>

PublishFails(h) ==
  /\ handler[h].at = "publish"
  /\ handler' = [handler EXCEPT ![h] = Free]
  /\ torn' = torn \cup {handler[h].id}
  /\ UNCHANGED <<rows, config, seen, registry, exec, todo, live, simmed, lob, count, forgot>>

\* Mutant: a deletion is ignored.
KeepAll(e) == [registry EXCEPT ![e.id] = IF Ended(e.row.status) THEN @ ELSE e.row]

(* ApplySimConfigEvent and SimSessionRegistry::Upsert / Remove.            *)
Applied(e) ==
  [registry EXCEPT ![e.id] = IF e.type = "DELETE" \/ Ended(e.row.status) THEN NoRow ELSE e.row]

ConsumeConfig ==
  /\ seen < Len(config)
  /\ registry' = Applied(config[seen + 1])
  /\ seen' = seen + 1
  /\ UNCHANGED <<rows, config, handler, exec, todo, live, simmed, lob, count, torn, forgot>>

(* SimSessionRegistry::Resolve and VenueSimRouter::Decide: of the active   *)
(* sessions in scope the one whose activation, as published, is last.      *)
MoreRecent(s, o) ==
  LET a == registry[s].act
      b == registry[o].act
  IN  \/ a.sec > b.sec
      \/ a.sec = b.sec /\ (a.nano > b.nano \/ (a.nano = b.nano /\ s > o))

Governing(venue) ==
  {s \in Sessions : /\ registry[s].status = "ACTIVE"
                    /\ registry[s].scope = {} \/ venue \in registry[s].scope}

Decide(venue) ==
  LET g == Governing(venue)
  IN  IF g = {} THEN "LIVE_ONLY"
      ELSE registry[CHOOSE s \in g : \A o \in g \ {s} : MoreRecent(s, o)].mode

(* exec_consume_loop, one intent at a time.                                *)
TakeIntent(i) ==
  /\ exec.at = "idle" /\ i \in todo
  /\ exec' = [intent |-> i, mode |-> Decide(SimIntents[i].venue),
              at |-> IF Decide(SimIntents[i].venue) = "SIM_ONLY" THEN "sim" ELSE "live"]
  /\ UNCHANGED <<rows, config, seen, registry, handler, todo, live, simmed, lob, count, torn, forgot>>

ExecuteLive ==
  /\ exec.at = "live"
  /\ live' = live \cup {exec.intent}
  /\ exec' = [exec EXCEPT !.at = IF exec.mode = "SHADOW" THEN "sim" ELSE "commit"]
  /\ UNCHANGED <<rows, config, seen, registry, handler, todo, simmed, lob, count, torn, forgot>>

(* VenueSimulator::Simulate: the levels within the limit, then the impact; *)
(* a latency beyond the timeout or a random rejection gives nothing.       *)
Takeable(i) ==
  LET limit == SimIntents[i].limit
  IN  SelectSeq(lob.book, LAMBDA l : l.q > 0 /\ l.p > 0 /\ (limit = 0 \/ l.p <= limit))

Walked(levels, target) ==
  LET step(acc, l) == LET take == Lesser(l.q, target - acc.qty)
                      IN  [qty |-> acc.qty + take, notional |-> acc.notional + take * l.p]
  IN  FoldLeft(step, [qty |-> 0, notional |-> 0], levels)

Rejected(i, why) ==
  [intent |-> i, status |-> "REJECTED", qty |-> 0, left |-> SimIntents[i].target, notional |-> 0,
   why |-> why, book |-> lob.book]

Simulated(i) ==
  LET w == Walked(Takeable(i), SimIntents[i].target)
  IN  IF lob.stale THEN Rejected(i, "SIM_STALE_LOB")
      ELSE IF w.qty = 0
      THEN Rejected(i, IF lob.book # <<>> /\ SimIntents[i].limit > 0 THEN "SIM_PRICE_CONSTRAINT"
                       ELSE "SIM_NO_LIQUIDITY")
      ELSE [intent |-> i, qty |-> w.qty, left |-> SimIntents[i].target - w.qty,
            notional |-> w.notional + w.qty * Impact, why |-> "", book |-> lob.book,
            status |-> IF w.qty = SimIntents[i].target THEN "FILLED" ELSE "PARTIALLY_FILLED"]

(* PublishSimExecution: report and annotation on the sim topics; the       *)
(* answer of the producer is ignored.                                      *)
PublishSimExecution ==
  /\ exec.at = "sim"
  /\ \E r \in {Simulated(exec.intent)} \cup
             {Rejected(exec.intent, "SIM_RATE_LIMIT, SIM_RANDOM_REJECT or SIM_TIMEOUT")},
        sent \in BOOLEAN :
       simmed' = IF sent THEN simmed \cup {r} ELSE simmed
  /\ exec' = [exec EXCEPT !.at = "commit"]
  /\ UNCHANGED <<rows, config, seen, registry, handler, todo, live, lob, count, torn, forgot>>

CommitIntent ==
  /\ exec.at = "commit"
  /\ todo' = todo \ {exec.intent}
  /\ exec' = NoExec
  /\ UNCHANGED <<rows, config, seen, registry, handler, live, simmed, lob, count, torn, forgot>>

(* The market data loop stores another snapshot, or the last one ages.     *)
Snapshot ==
  /\ exec.at = "sim"
  /\ \/ \E b \in SimBooks : lob' = [book |-> b, stale |-> FALSE] /\ lob' # lob
     \/ ~lob.stale /\ lob.book # <<>> /\ lob' = [lob EXCEPT !.stale = TRUE]
  /\ UNCHANGED <<rows, config, seen, registry, handler, exec, todo, live, simmed, count, torn, forgot>>

(* A restart: the registry is empty, sim.config goes on after the          *)
(* committed offset, requests in progress and the intent are lost.         *)
RestartVenues ==
  /\ count.restarts < MaxRestarts
  /\ count' = [count EXCEPT !.restarts = @ + 1]
  /\ registry' = [s \in Sessions |-> NoRow]
  /\ torn' = torn \cup {handler[h].id : h \in {k \in Handlers : handler[k].at = "publish"}}
  /\ handler' = [h \in Handlers |-> Free]
  /\ exec' = NoExec
  /\ forgot' = TRUE
  /\ UNCHANGED <<rows, config, seen, todo, live, simmed, lob>>

SimInit ==
  /\ rows \in OldRows /\ registry = rows
  /\ config = <<>> /\ seen = 0
  /\ handler = [h \in Handlers |-> Free]
  /\ exec = NoExec /\ todo = DOMAIN SimIntents /\ live = {} /\ simmed = {}
  /\ lob = [book |-> <<>>, stale |-> FALSE]
  /\ count = [ops |-> 0, restarts |-> 0, clock |-> [sec |-> 1, nano |-> 1]] /\ torn = {} /\ forgot = FALSE

SimDone == todo = {} /\ exec.at = "idle" /\ UNCHANGED simVars

SimNext ==
  \/ \E h \in Handlers : \/ Create(h) \/ Update(h) \/ Complete(h)
                         \/ Store(h) \/ StoreFails(h) \/ Publish(h) \/ PublishFails(h)
  \/ ConsumeConfig
  \/ \E i \in DOMAIN SimIntents : TakeIntent(i)
  \/ ExecuteLive \/ PublishSimExecution \/ CommitIntent \/ Snapshot \/ RestartVenues \/ SimDone

(* Requests that were begun and the consumer go on; nothing obliges an     *)
(* operator or a producer.                                                 *)
SimFairness ==
  /\ \A h \in Handlers : WF_simVars(Store(h) \/ StoreFails(h)) /\ WF_simVars(Publish(h) \/ PublishFails(h))
  /\ WF_simVars(ConsumeConfig)

SimSpec == SimInit /\ [][SimNext]_simVars /\ SimFairness
-----------------------------------------------------------------------------
SimTypeOK ==
  /\ seen \in 0 .. Len(config)
  /\ \A s \in Sessions : registry[s].status \in {"none", "ACTIVE", "PAUSED"}
  /\ live \cup todo \subseteq DOMAIN SimIntents

CaughtUp(s) == seen = Len(config) /\ Busy(s) = {}
Listed(s)   == IF Ended(rows[s].status) THEN NoRow ELSE rows[s]

(* Once sim.config is consumed the router has what PostgreSQL has, but for *)
(* the nanos of an activation, unless requests for the session overlapped, *)
(* a publication failed, or the process was restarted.                     *)
HotReloadAgrees ==
  \A s \in Sessions : CaughtUp(s) /\ s \notin torn /\ ~forgot => Stored(registry[s]) = Listed(s)

(* An ended session stops governing, restarts included.                    *)
EndedSessionsLeave ==
  \A s \in Sessions :
    (Ended(rows[s].status) /\ s \notin torn)
      ~> (registry[s].status = "none" \/ ~Ended(rows[s].status) \/ s \in torn)

(* When a SIM_ONLY session was activated in a later second than every      *)
(* other active one, and the router knows it, no live order is sent.       *)
(* Within one second the order is lost: PostgreSQL drops the nanos that    *)
(* MoreRecent compares, and the next update publishes the time without     *)
(* them, so that an earlier LIVE_ONLY session may win.                     *)
Only(s) == /\ rows[s].status = "ACTIVE" /\ rows[s].mode = "SIM_ONLY" /\ rows[s].scope = {}
           /\ CaughtUp(s) /\ s \notin torn /\ ~forgot
           /\ \A o \in Sessions \ {s} : /\ o \notin torn /\ Busy(o) = {}
                                        /\ rows[o].status = "ACTIVE" => rows[o].act.sec < rows[s].act.sec
SimOnlyIsSafe ==
  [][\A s \in Sessions : Only(s) /\ exec'.at = "live" => exec.at = "live"]_simVars

(* A simulated fill never exceeds what the book it was simulated on held   *)
(* within the limit, and nothing is lost between filled and remaining.     *)
SimulatedWithinBook ==
  \A r \in simmed :
    LET limit == SimIntents[r.intent].limit
        held == FoldLeft(LAMBDA n, l : n + (IF limit = 0 \/ l.p <= limit THEN l.q ELSE 0), 0, r.book)
    IN  r.qty <= held /\ r.qty + r.left = SimIntents[r.intent].target
=============================================================================

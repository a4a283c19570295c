---------------------------- MODULE VenueAdmin -----------------------------
(***************************************************************************)
(* The configuration of the venues: the adapters and records the process   *)
(* starts with, the rows it loads from PostgreSQL once its loops already   *)
(* run, the admin requests that change a record, and the loops that read   *)
(* it: find_adapter for every intent, md_publish_loop for the heartbeat.   *)
(*                                                                         *)
(* A write reads the record under config_mu_, changes a copy, applies it   *)
(* to the adapter under runtime_mu_, stores it under config_mu_ and        *)
(* upserts the whole row: four steps of a handler, no lock over them.      *)
(* A record is [on, mode, limit]: is_active, routing_mode and one number   *)
(* for the thresholds that are raised to at least 1.                       *)
(***************************************************************************)
EXTENDS Integers, Sequences

CONSTANTS Modes,        \* VENUES_ADAPTER_MODE
          BacktestIds,  \* VENUES_BACKTEST_VENUE_IDS
          SeedLimit,    \* threshold of the seeded records, from the environment
          OwnLimit,     \* threshold an adapter is built with, from its own variables
          OldVenueRows, \* venue_config of an earlier day: sets of [venue, row]
          VenuePatches, \* [on, mode, limit] of requests, "keep" and -1: a field left out
          Spare,        \* venue ids operators add without an adapter behind them
          Managed,      \* venues the operators of this instance change
          Requests,     \* admin requests served at the same time
          MaxWrites,    \* bound: admin requests
          MaxReboots    \* bound: restarts of venues

VenueIds == {"binance", "coinbase", "uniswap_v3"} \cup Spare

(* What the constants satisfy; the instances that are checked assert it.   *)
VenueAdminAssumption ==
  /\ SeedLimit \in Nat \ {0} /\ OwnLimit \in Nat \ {0}
  /\ MaxWrites \in Nat /\ MaxReboots \in Nat
  /\ BacktestIds \in Seq(VenueIds) /\ Managed \subseteq VenueIds
  /\ \A old \in OldVenueRows : \A r \in old : r.row \in [on : BOOLEAN, mode : STRING, limit : Int]
  /\ \A p \in VenuePatches : p.mode \in STRING /\ p.limit \in Int

VARIABLES fleet,     \* adapters_, in order
          phase,     \* "seeded": loops run, rows not loaded; "serving"
          toLoad,    \* rows LoadAll returned, still to be upserted
          records,   \* venue_configs_
          limits,    \* threshold each adapter works with
          table,     \* venue_config in PostgreSQL
          writer,   \* admin requests in progress
          links,     \* connection of each adapter
          muted,     \* venues whose last heartbeat says disabled_by_operator
          nextIdx,   \* next_exec_adapter_idx_
          waited,    \* intents routed past an eligible connected adapter
          strayed,   \* phases in which an intent went to a venue whose row is off
          unsafe,    \* venues with overlapping requests, or a failed write or load
          spent      \* [writes, reboots]

adminVars == <<fleet, phase, toLoad, records, limits, table, writer, links, muted,
               nextIdx, waited, strayed, unsafe, spent>>

NoRecord == [on |-> FALSE, mode |-> "none", limit |-> 0]
Fresh    == [on |-> TRUE, mode |-> "auto", limit |-> 1]   \* VenueConfigRecord{}
Idle     == [op |-> "none", venue |-> "none", rec |-> NoRecord, at |-> "idle"]

(* The constructor: which adapters a mode builds.                          *)
BacktestFleet   == IF BacktestIds = <<>> THEN <<"binance">> ELSE BacktestIds
RealMultiFleet  == <<"binance", "coinbase", "uniswap_v3">>
SimMultiFleet   == <<"binance", "coinbase", "uniswap_v3">>
CexFleet        == <<"binance">>
DexFleet        == <<"uniswap_v3">>
SimulatedFleet  == <<"binance">>

FleetOf(mode) ==
  CASE mode = "backtest_venuesim"                     -> BacktestFleet
    [] mode \in {"real_multi_2cex_1dex", "multi_real"} -> RealMultiFleet
    [] mode = "cex_ws_rest"                           -> CexFleet
    [] mode \in {"simulated_multi", "multi_2cex_1dex"} -> SimMultiFleet
    [] mode = "dex_amm_rpc"                           -> DexFleet
    [] OTHER                                          -> SimulatedFleet

Served   == {fleet[i] : i \in DOMAIN fleet}
Built(f) == {f[i] : i \in DOMAIN f}

(* Records are seeded for every adapter, active and routed; the adapter    *)
(* itself keeps the thresholds it was built with until a write reaches it. *)
Seeded(f) == [v \in VenueIds |->
                IF v \in Built(f) THEN [on |-> TRUE, mode |-> "auto", limit |-> SeedLimit]
                ELSE NoRecord]

StartsWith(f) ==
  /\ fleet' = f /\ phase' = "seeded"
  /\ records' = Seeded(f)
  /\ limits' = [v \in VenueIds |-> OwnLimit]
  /\ links' = [v \in VenueIds |-> "up"]
  /\ muted' = {}
  /\ nextIdx' = 0 /\ waited' = [v \in VenueIds |-> 0] /\ strayed' = {}
  /\ writer' = [h \in Requests |-> Idle]

(* UpsertVenueConfig: a normalised copy.                                   *)
Watching(mode) == IF mode \in {"watch", "WATCH"} THEN "watch" ELSE "auto"
Normalised(rec) == [rec EXCEPT !.limit = IF @ < 1 THEN 1 ELSE @, !.mode = Watching(@)]

(* apply_runtime_config_locked reaches the adapter, if the venue has one,  *)
(* and reconnects it when it will not subscribe.                           *)
ApplyRuntimeConfig(v, rec) ==
  /\ limits' = IF v \in Served THEN [limits EXCEPT ![v] = Normalised(rec).limit] ELSE limits
  /\ links' \in IF v \in Served /\ links[v] = "down"
                THEN {links, [links EXCEPT ![v] = "up"]} ELSE {links}

(* Start of the process: the loops run before the rows are read.  LoadAll  *)
(* returns nothing when it fails.                                          *)
LoadRows ==
  /\ phase = "seeded" /\ toLoad = {}
  /\ \/ /\ toLoad' = {v \in VenueIds : table[v] # NoRecord}
        /\ unsafe' = unsafe
     \/ /\ toLoad' = {}
        /\ unsafe' = unsafe \cup {v \in VenueIds : table[v] # NoRecord}
  /\ phase' = IF toLoad' = {} THEN "serving" ELSE "loading"
  /\ UNCHANGED <<fleet, records, limits, table, writer, links, muted, nextIdx, waited, strayed, spent>>

LoadLimits(v) ==
  /\ phase = "loading" /\ v \in toLoad
  /\ ApplyRuntimeConfig(v, table[v])
  /\ records' = [records EXCEPT ![v].limit = Normalised(table[v]).limit, ![v].mode = "auto"]
  /\ toLoad' = toLoad \ {v}
  /\ phase' = IF toLoad' = {} THEN "serving" ELSE phase
  /\ UNCHANGED <<fleet, table, writer, muted, nextIdx, waited, strayed, unsafe, spent>>

LoadRow(v) ==
  /\ phase = "loading" /\ v \in toLoad
  /\ ApplyRuntimeConfig(v, table[v])
  /\ records' = [records EXCEPT ![v] = Normalised(table[v])]
  /\ toLoad' = toLoad \ {v}
  /\ phase' = IF toLoad' = {} THEN "serving" ELSE phase
  /\ waited' = IF table[v].on /\ Watching(table[v].mode) = "auto" THEN waited ELSE [waited EXCEPT ![v] = 0]
  /\ UNCHANGED <<fleet, table, writer, muted, nextIdx, strayed, unsafe, spent>>

(* Admin requests.                                                         *)
Others(h, v) == {g \in Requests \ {h} : writer[g].at # "idle" /\ writer[g].venue = v}

Accept(h, op, v, rec, at) ==
  /\ phase = "serving" /\ writer[h].at = "idle" /\ spent.writes < MaxWrites
  /\ writer' = [writer EXCEPT ![h] = [op |-> op, venue |-> v, rec |-> rec, at |-> at]]
  /\ spent' = [spent EXCEPT !.writes = @ + 1]
  /\ unsafe' = IF Others(h, v) = {} THEN unsafe ELSE unsafe \cup {v}

Patched(rec, p) ==
  [on    |-> IF p.on = "keep" THEN rec.on ELSE p.on = "yes",
   mode  |-> IF p.mode = "keep" THEN rec.mode ELSE p.mode,
   limit |-> IF p.limit < 0 THEN rec.limit ELSE p.limit]

(* POST and PUT create what is missing.                                    *)
PutVenue(h) ==
  \E v \in Managed, p \in VenuePatches :
    /\ Accept(h, "put", v, Patched(IF records[v] = NoRecord THEN Fresh ELSE records[v], p), "apply")
    /\ UNCHANGED <<fleet, phase, toLoad, records, limits, table, links, muted, nextIdx, waited, strayed>>

Disable(h) ==
  \E v \in Managed :
    /\ records[v] # NoRecord
    /\ Accept(h, "disable", v, [records[v] EXCEPT !.on = FALSE], "apply")
    /\ UNCHANGED <<fleet, phase, toLoad, records, limits, table, links, muted, nextIdx, waited, strayed>>

Enable(h) ==
  \E v \in Managed :
    /\ records[v] # NoRecord
    /\ Accept(h, "enable", v, [records[v] EXCEPT !.on = TRUE], "apply")
    /\ UNCHANGED <<fleet, phase, toLoad, records, limits, table, links, muted, nextIdx, waited, strayed>>

SetRouting(h) ==
  \E v \in Managed, mode \in {"watch", "auto"} :
    /\ records[v] # NoRecord
    /\ Accept(h, "routing", v, [records[v] EXCEPT !.mode = mode], "apply")
    /\ UNCHANGED <<fleet, phase, toLoad, records, limits, table, links, muted, nextIdx, waited, strayed>>

(* DELETE turns the record off first and the adapter sees it afterwards.   *)
DeleteVenue(h) ==
  \E v \in Managed :
    /\ records[v] # NoRecord
    /\ Accept(h, "delete", v, [records[v] EXCEPT !.on = FALSE], "apply")
    /\ records' = [records EXCEPT ![v].on = FALSE]
    /\ waited' = [waited EXCEPT ![v] = 0]
    /\ UNCHANGED <<fleet, phase, toLoad, limits, table, links, muted, nextIdx, strayed>>

Move(h, at) == writer' = [writer EXCEPT ![h].at = at]

Apply(h) ==
  /\ writer[h].at = "apply"
  /\ ApplyRuntimeConfig(writer[h].venue, writer[h].rec)
  /\ Move(h, IF writer[h].op = "delete" THEN "reread" ELSE "save")
  /\ UNCHANGED <<fleet, phase, toLoad, records, table, muted, nextIdx, waited, strayed, unsafe, spent>>

Eligible(rec) == rec = NoRecord \/ (rec.on /\ Watching(rec.mode) = "auto")

Save(h) ==
  LET v == writer[h].venue  rec == Normalised(writer[h].rec) IN
  /\ writer[h].at = "save"
  /\ records' = [records EXCEPT ![v] = rec]
  /\ waited' = IF Eligible(rec) THEN waited ELSE [waited EXCEPT ![v] = 0]
  /\ Move(h, "persist")
  /\ UNCHANGED <<fleet, phase, toLoad, limits, table, links, muted, nextIdx, strayed, unsafe, spent>>

(* DELETE reads the record again for its row and forces is_active off.     *)
Reread(h) ==
  /\ writer[h].at = "reread"
  /\ writer' = [writer EXCEPT ![h].rec = [records[writer[h].venue] EXCEPT !.on = FALSE], ![h].at = "persist"]
  /\ UNCHANGED <<fleet, phase, toLoad, records, limits, table, links, muted, nextIdx, waited, strayed, unsafe, spent>>

(* The row is built from the record as the writer left it.                *)
Persist(h) ==
  /\ writer[h].at = "persist"
  /\ table' = [table EXCEPT ![writer[h].venue] = writer[h].rec]
  /\ writer' = [writer EXCEPT ![h] = Idle]
  /\ UNCHANGED <<fleet, phase, toLoad, records, limits, links, muted, nextIdx, waited, strayed, unsafe, spent>>

(* A failed upsert answers 500; the process goes on with the new record.   *)
PersistFails(h) ==
  /\ writer[h].at = "persist"
  /\ unsafe' = unsafe \cup {writer[h].venue}
  /\ writer' = [writer EXCEPT ![h] = Idle]
  /\ UNCHANGED <<fleet, phase, toLoad, records, limits, table, links, muted, nextIdx, waited, strayed, spent>>

(* ForceReconnect, and the connection going down.                          *)
Reconnect(v) ==
  /\ phase = "serving" /\ v \in Served /\ links[v] = "down"
  /\ links' = [links EXCEPT ![v] = "up"]
  /\ UNCHANGED <<fleet, phase, toLoad, records, limits, table, writer, muted, nextIdx, waited, strayed, unsafe, spent>>

Disconnect(v) ==
  /\ v \in Served /\ links[v] = "up"
  /\ links' = [links EXCEPT ![v] = "down"]
  /\ waited' = [waited EXCEPT ![v] = 0]
  /\ UNCHANGED <<fleet, phase, toLoad, records, limits, table, writer, muted, nextIdx, strayed, unsafe, spent>>

Writing(v) == \E h \in Requests : writer[h].at # "idle" /\ writer[h].venue = v

(* find_adapter.  With a venue only that adapter counts; without one the   *)
(* next eligible connected adapter after the last, or the next eligible.   *)
From(i, k) == ((i + k) % Len(fleet)) + 1
NextOf(venues) ==
  LET found == {k \in 0..(Len(fleet) - 1) : fleet[From(nextIdx, k)] \in venues}
  IN IF found = {} THEN 0
     ELSE From(nextIdx, CHOOSE k \in found : \A j \in found : k <= j)

EligibleVenues  == {v \in Served : Eligible(records[v])}
ConnectedVenues == {v \in EligibleVenues : links[v] = "up"}

Sent(v) ==
  strayed' = IF table[v] = NoRecord \/ table[v].on \/ v \in unsafe \/ Writing(v)
             THEN strayed ELSE strayed \cup {phase}

RouteTo(v) ==
  /\ v \in Served /\ Eligible(records[v])
  /\ Sent(v)
  /\ UNCHANGED <<fleet, phase, toLoad, records, limits, table, writer, links, muted, nextIdx, waited, unsafe, spent>>

RouteAnywhere ==
  LET healthy == NextOf(ConnectedVenues)
      i == IF healthy # 0 THEN healthy ELSE NextOf(EligibleVenues)
  IN /\ i # 0
     /\ Sent(fleet[i])
     /\ nextIdx' = i % Len(fleet)
     /\ waited' = [v \in VenueIds |->
                     IF v = fleet[i] \/ v \notin ConnectedVenues THEN 0 ELSE waited[v] + 1]
     /\ UNCHANGED <<fleet, phase, toLoad, records, limits, table, writer, links, muted, unsafe, spent>>

(* md_publish_loop visits every adapter in turn: the heartbeat is stored,  *)
(* muted when the venue is off, and a connection that is down is           *)
(* reconnected.                                                            *)
MdPoll(v) ==
  /\ v \in Served
  /\ muted' = IF records[v].on THEN muted \ {v} ELSE muted \cup {v}
  /\ links' \in IF records[v].on /\ links[v] = "down" THEN {links, [links EXCEPT ![v] = "up"]} ELSE {links}
  /\ UNCHANGED <<fleet, phase, toLoad, records, limits, table, writer, nextIdx, waited, strayed, unsafe, spent>>

Reboot ==
  /\ spent.reboots < MaxReboots
  /\ StartsWith(fleet) /\ toLoad' = {}
  /\ unsafe' = unsafe \cup {writer[h].venue : h \in {g \in Requests : writer[g].at # "idle"}}
  /\ spent' = [spent EXCEPT !.reboots = @ + 1]
  /\ UNCHANGED table

AdminInit ==
  \E mode \in Modes, old \in OldVenueRows :
    /\ fleet = FleetOf(mode) /\ phase = "seeded" /\ toLoad = {}
    /\ records = Seeded(FleetOf(mode))
    /\ limits = [v \in VenueIds |-> OwnLimit]
    /\ table = [v \in VenueIds |-> IF \E r \in old : r.venue = v
                                   THEN (CHOOSE r \in old : r.venue = v).row ELSE NoRecord]
    /\ writer = [h \in Requests |-> Idle]
    /\ links = [v \in VenueIds |-> "up"]
    /\ muted = {}
    /\ nextIdx = 0 /\ waited = [v \in VenueIds |-> 0] /\ strayed = {}
    /\ unsafe = {} /\ spent = [writes |-> 0, reboots |-> 0]

AdminNext ==
  \/ LoadRows \/ Reboot \/ RouteAnywhere
  \/ \E v \in VenueIds : LoadRow(v) \/ Reconnect(v) \/ Disconnect(v) \/ RouteTo(v) \/ MdPoll(v)
  \/ \E h \in Requests : PutVenue(h) \/ Disable(h) \/ Enable(h) \/ SetRouting(h) \/ DeleteVenue(h)
                         \/ Apply(h) \/ Save(h) \/ Reread(h) \/ Persist(h) \/ PersistFails(h)

AdminSpec == AdminInit /\ [][AdminNext]_adminVars

(***************************************************************************)
(* Properties.                                                             *)
(***************************************************************************)

(* Every variable keeps its shape; records and adapters never hold a       *)
(* threshold below 1, whatever requests and rows carry.                    *)
AdminTypeOK ==
  /\ phase \in {"seeded", "loading", "serving"}
  /\ toLoad \subseteq VenueIds /\ muted \subseteq VenueIds /\ unsafe \subseteq VenueIds
  /\ \A v \in VenueIds : /\ records[v] = NoRecord \/ records[v].limit >= 1
                         /\ limits[v] >= 1
                         /\ links[v] \in {"up", "down"}
  /\ \A h \in Requests : writer[h].at \in {"idle", "apply", "save", "reread", "persist"}
  /\ nextIdx \in 0..(Len(fleet) - 1)

(* Hot reload: once no request is in progress, the record the loops read,  *)
(* the row a restart will load and the adapter agree, unless requests of   *)
(* the venue overlapped or PostgreSQL failed.                              *)
HotReloadAtRest ==
  phase = "serving" =>
    \A v \in VenueIds \ unsafe :
      (table[v] # NoRecord /\ ~Writing(v)) =>
        /\ records[v] = Normalised(table[v])
        /\ v \in Served => limits[v] = records[v].limit

(* A venue whose row says it is off receives no intent while the process   *)
(* serves, not even after restarts (find_adapter, UC-F11-05).              *)
StoredOffIsNotRouted == "serving" \notin strayed

(* An eligible connected venue is passed over fewer times than there are   *)
(* adapters, however the others come and go (next_exec_adapter_idx_).      *)
RoundRobinIsFair == \A v \in VenueIds : waited[v] < Len(fleet)

(* Once no request is in progress the record the loops read, the row a     *)
(* restart will load and the adapter agree, unless requests overlapped or  *)
(* PostgreSQL failed; a venue whose row says it is off receives no intent; *)
(* an eligible venue is passed over fewer times than there are adapters.   *)
AdminSafety == AdminTypeOK /\ HotReloadAtRest /\ StoredOffIsNotRouted /\ RoundRobinIsFair
============================================================================

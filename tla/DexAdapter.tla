----------------------------- MODULE DexAdapter -----------------------------
(***************************************************************************)
(* DexAmmRpcAdapter: the adapter of one AMM pool.  The market data thread  *)
(* connects, sends heartbeats, reconnects and asks for snapshots; another  *)
(* thread sends orders; the operator changes the configuration; a          *)
(* subscription session may deliver pool states and swaps.  One mutex      *)
(* guards the fields; it is held over a poll of the RPC endpoint, not over *)
(* an order or between the attempts of a reconnect.                        *)
(*                                                                         *)
(* The chain has one swap per block; the price of the pool is the number   *)
(* of its block, 0 when unknown.  Timers are flags that may change at any  *)
(* moment: cooled (the circuit cooldown is over), backoff (the reconnect   *)
(* cooldown runs), fresh (the cache is younger than stale_threshold_ms).   *)
(***************************************************************************)
EXTENDS Integers, Sequences, FiniteSets, SequencesExt

CONSTANTS
  Hashes,           \* the transaction hash of the swap of each block, 0 for none
  DexConfigs,       \* sync_mode, kind of rpc_url, simulate_orders
  MaxSwapEvents,    \* max_swap_events
  DexErrors,        \* circuit_breaker_errors
  DexTries,         \* reconnect_max_attempts
  MaxSeq,           \* bound on the sequence
  MaxSends,         \* bound on orders
  MaxDexFaults      \* bound on failures and operator steps

(* What the constants satisfy; the instances that are checked assert it.   *)
DexAssumption ==
  /\ Hashes \in Seq(Nat) /\ DexConfigs \subseteq [mode : {"polling", "subscription", "hybrid"}, source : {"rpc", "screener"}, simulate : BOOLEAN]
  /\ MaxSwapEvents \in Nat /\ DexErrors \in Nat \ {0} /\ DexTries \in Nat \ {0}
  /\ MaxSeq \in Nat /\ MaxSends \in Nat /\ MaxDexFaults \in Nat

VARIABLES
  config,           \* [mode, source, simulate] of the adapter
  chain,            \* number of blocks
  dex,              \* [up, circuit, cooled, errs, backoff, enabled, pong]
  pool,             \* pool_cache_ of the symbol
  snap,             \* status of the last snapshot handed out
  mdpc,             \* market data thread: [at, tries]
  send,             \* order thread: [at, n]
  dexFaults

dexVars == <<config, chain, dex, pool, snap, mdpc, send, dexFaults>>
Calls == <<snap, send>>

NoPool == [present |-> FALSE, price |-> 0, seq |-> 0, fresh |-> FALSE,
           swaps |-> <<>>, window |-> <<>>]
DexInit ==
  /\ config \in DexConfigs /\ chain = 1
  /\ dex = [up |-> FALSE, circuit |-> "closed", cooled |-> FALSE, errs |-> 0, backoff |-> FALSE,
            enabled |-> TRUE, pong |-> TRUE]
  /\ pool = NoPool /\ snap = "none"
  /\ mdpc = [at |-> "connect", tries |-> 0] /\ send = [at |-> "idle", n |-> 0]
  /\ dexFaults = 0

Mishap   == dexFaults < MaxDexFaults /\ dexFaults' = dexFaults + 1
NoMishap == UNCHANGED dexFaults
-----------------------------------------------------------------------------
(* The circuit breaker.                                                    *)
Admits(d) == ~d.enabled \/ d.circuit # "open" \/ d.cooled
Admitted(d) == IF d.enabled /\ d.circuit = "open" THEN [d EXCEPT !.circuit = "half_open"] ELSE d
Success(d) ==
  IF d.enabled /\ d.circuit # "closed"
  THEN [d EXCEPT !.circuit = "closed", !.cooled = FALSE, !.errs = 0] ELSE d
open_circuit(d) == [d EXCEPT !.circuit = "open", !.cooled = FALSE, !.up = FALSE]
Error(d) ==
  LET e == [d EXCEPT !.errs = @ + 1]
  IN  CASE ~d.enabled -> d
        [] d.enabled /\ (d.circuit = "half_open" \/ e.errs >= DexErrors) -> open_circuit(e)
        [] OTHER -> e
-----------------------------------------------------------------------------
(* The pool cache.  A pool state replaces the cached one, whatever block   *)
(* it is of.                                                               *)
NextSequence(seq, block) == IF block > seq + 1 THEN block ELSE seq + 1
parse_pool_state_result(p, block) ==
  [p EXCEPT !.present = TRUE, !.price = block, !.fresh = TRUE,
            !.seq = NextSequence(p.seq, block)]
(* A DexScreener answer has a price and its own volume, and no block.      *)
poll_screener(p, block) ==
  [p EXCEPT !.present = TRUE, !.price = block, !.fresh = TRUE, !.seq = @ + 1]

SameSwap(a, b) == a # 0 /\ a = b
KnownInEvents(p, h) == \E i \in DOMAIN p.swaps : SameSwap(h, p.swaps[i])
KnownSwap(p, h) ==
  \/ \E i \in DOMAIN p.swaps : SameSwap(h, p.swaps[i])
  \/ \E i \in DOMAIN p.window : SameSwap(h, p.window[i])
AddSwap(p, b) ==
  IF KnownSwap(p, Hashes[b]) THEN p
  ELSE [p EXCEPT !.swaps = Append(@, Hashes[b]), !.window = Append(@, Hashes[b])]
Trimmed(s) == IF Len(s) > MaxSwapEvents THEN SubSeq(s, Len(s) - MaxSwapEvents + 1, Len(s)) ELSE s
(* The first k samples have left the 24 hour window.                       *)
Pruned(p, k) == [p EXCEPT !.window = SubSeq(@, k + 1, Len(@))]
parse_swaps_result(p, blocks, k) ==
  LET q == FoldLeft(AddSwap, Pruned(p, k), blocks)
  IN  [q EXCEPT !.present = TRUE, !.fresh = TRUE, !.swaps = Trimmed(@)]

(* Results of poll_symbol: the states of the cache after a success.  The   *)
(* swaps are asked for when a token is left, and their failure is ignored. *)
LastSwaps == [i \in 1..(IF chain < MaxSwapEvents THEN chain ELSE MaxSwapEvents) |->
                chain - (IF chain < MaxSwapEvents THEN chain ELSE MaxSwapEvents) + i]
poll_symbol(p) ==
  IF config.source = "screener" THEN {poll_screener(p, chain)}
  ELSE LET q == parse_pool_state_result(p, chain)
       IN  {q} \cup {parse_swaps_result(q, LastSwaps, k) : k \in 0..Len(p.window)}

(* No snapshot without a price.                                            *)
HasPrice(p) == p.present /\ p.price > 0
-----------------------------------------------------------------------------
(* The market data thread.                                                 *)
Down(d) == [d EXCEPT !.up = FALSE]
Up(d)   == Success([d EXCEPT !.up = TRUE, !.pong = TRUE, !.backoff = FALSE])
Connect ==
  /\ mdpc.at = "connect"
  /\ \/ /\ dex.up \/ dex.backoff \/ ~Admits(dex)
        /\ dex' = IF ~dex.up /\ dex.backoff THEN Down(dex) ELSE dex
        /\ NoMishap
     \/ ~dex.up /\ ~dex.backoff /\ Admits(dex) /\ dex' = Up(Admitted(dex)) /\ NoMishap
     \/ /\ ~dex.up /\ ~dex.backoff /\ Admits(dex)
        /\ \/ dex' = Down(Admitted(dex))                            \* no token
           \/ config.mode # "polling" /\ dex' = Error(Down(Admitted(dex))) \* the session fails
        /\ Mishap
  /\ mdpc' = [mdpc EXCEPT !.at = "subscribe"]
  /\ UNCHANGED <<config, chain, pool, Calls>>

Subscribe ==
  /\ mdpc.at = "subscribe"
  /\ \/ ~dex.up /\ dex' = dex /\ NoMishap
     \/ dex.up /\ (config.mode = "polling" \/ Admits(dex)) /\ NoMishap
        /\ dex' = Success(IF config.mode = "polling" THEN dex ELSE Admitted(dex))
     \/ dex.up /\ config.mode # "polling" /\ ~Admits(dex) /\ dex' = dex /\ NoMishap
     \/ dex.up /\ config.mode # "polling" /\ Admits(dex) /\ dex' = Error(Admitted(dex)) /\ Mishap
  /\ mdpc' = [mdpc EXCEPT !.at = "heartbeat"]
  /\ UNCHANGED <<config, chain, pool, Calls>>

(* Ping, pong timeout, then the status of the heartbeat.                   *)
Pinged(d) == IF d.up /\ config.mode # "polling" THEN {d, Error(d)} ELSE {d}
PongChecked(d) == IF d.up /\ config.mode # "polling" /\ ~d.pong THEN Error(Down(d)) ELSE d
Heartbeat ==
  /\ mdpc.at = "heartbeat"
  /\ \E d \in Pinged(dex) :
       /\ dex' = PongChecked(d)
       /\ IF d = dex THEN NoMishap ELSE Mishap
  /\ mdpc' = [at |-> IF dex'.up THEN "snapshot" ELSE "reconnect", tries |-> 0]
  /\ UNCHANGED <<config, chain, pool, Calls>>

(* One attempt: the section that closes the session, then the one that     *)
(* opens it again.  Without the session there is nothing to open.          *)
ReconnectPolling ==
  /\ mdpc.at = "reconnect" /\ config.mode = "polling" /\ ~dex.backoff /\ Admits(dex)
  /\ \/ dex' = Up(Admitted(dex)) /\ NoMishap
     \/ dex' = Down(Admitted(dex)) /\ Mishap
  /\ mdpc' = [mdpc EXCEPT !.at = "snapshot"]
  /\ UNCHANGED <<config, chain, pool, Calls>>
ReconnectRefused ==
  /\ mdpc.at = "reconnect" /\ mdpc.tries < DexTries /\ (dex.backoff \/ ~Admits(dex))
  /\ mdpc' = [mdpc EXCEPT !.at = "snapshot"]
  /\ UNCHANGED <<config, chain, dex, pool, Calls, dexFaults>>
ReconnectClose ==
  /\ mdpc.at = "reconnect" /\ config.mode # "polling" /\ mdpc.tries < DexTries /\ ~dex.backoff /\ Admits(dex)
  /\ \/ /\ dex' = Down(Admitted(dex)) /\ NoMishap
        /\ mdpc' = [at |-> "reopen", tries |-> mdpc.tries + 1]
     \/ /\ dex' = Admitted(dex) /\ Mishap                           \* no token
        /\ mdpc' = [mdpc EXCEPT !.tries = @ + 1]
  /\ UNCHANGED <<config, chain, pool, Calls>>
ReconnectOpen ==
  /\ mdpc.at = "reopen"
  /\ \/ dex' = Up(dex) /\ mdpc' = [mdpc EXCEPT !.at = "snapshot"] /\ NoMishap
     \/ dex' = Error(Down(dex)) /\ mdpc' = [mdpc EXCEPT !.at = "reconnect"] /\ Mishap
  /\ UNCHANGED <<config, chain, pool, Calls>>
ReconnectGivesUp ==
  /\ mdpc.at = "reconnect" /\ mdpc.tries = DexTries
  /\ dex' = [dex EXCEPT !.backoff = TRUE] /\ mdpc' = [mdpc EXCEPT !.at = "snapshot"]
  /\ UNCHANGED <<config, chain, pool, Calls, dexFaults>>

CanPoll == config.mode \in {"polling", "hybrid"} \/ ~pool.present
StatusOf(d, p) ==
  CASE ~d.up -> "disconnected" [] d.up /\ p.present /\ ~p.fresh -> "stale" [] OTHER -> "connected"
(* A snapshot with status connected counts as a successful call, even when *)
(* it comes from the cache.                                                *)
Served(d, p) ==
  /\ pool' = p
  /\ snap' = IF HasPrice(p) THEN StatusOf(d, p) ELSE snap
  /\ dex' = IF HasPrice(p) /\ StatusOf(d, p) = "connected" THEN Success(d) ELSE d
RequestSnapshot ==
  /\ mdpc.at = "snapshot"
  /\ \/ ~(CanPoll /\ dex.up /\ ~pool.present) /\ Served(dex, pool) /\ NoMishap  \* no poll is due
     \/ CanPoll /\ dex.up /\ ~Admits(dex) /\ Served(Down(dex), pool) /\ NoMishap
     \/ /\ CanPoll /\ dex.up /\ Admits(dex) /\ pool.seq < MaxSeq
        /\ \/ \E p \in poll_symbol(pool) : Served(Admitted(dex), p)
              /\ NoMishap
           \/ Served(Error(Admitted(dex)), pool) /\ Mishap
  /\ mdpc' = [mdpc EXCEPT !.at = "heartbeat"]
  /\ UNCHANGED <<config, chain, send>>
-----------------------------------------------------------------------------
(* The order thread.  A simulated order is filled on the spot; the call of *)
(* a real one runs without the lock.                                       *)
Ready(d) == Admits(dex) /\ d.up
SendOrder ==
  /\ send.at = "idle" /\ send.n < MaxSends
  /\ LET d == IF Admits(dex) THEN Admitted(dex) ELSE dex
     IN  /\ dex' = IF Ready(d) /\ config.simulate THEN Success(d) ELSE d
         /\ send' = [at |-> IF Ready(d) /\ ~config.simulate THEN "calling" ELSE "idle", n |-> send.n + 1]
  /\ UNCHANGED <<config, chain, pool, snap, mdpc, dexFaults>>
OrderAnswered ==
  /\ send.at = "calling" /\ send' = [send EXCEPT !.at = "idle"]
  /\ \/ dex' = Success(dex) /\ NoMishap                            \* accepted
     \/ dex' = Error(dex) /\ Mishap                                \* not accepted, or no answer
  /\ UNCHANGED <<config, chain, pool, snap, mdpc>>

(* The subscription session: a state of any block so far, or a swap.       *)
OnSubscriptionMessage ==
  /\ config.mode # "polling" /\ dex.up
  /\ \/ /\ pool.seq < MaxSeq /\ NoMishap
        /\ \E b \in 1..chain : pool' = parse_pool_state_result(pool, b)
        /\ dex' = Success([dex EXCEPT !.pong = TRUE])
     \/ /\ NoMishap
        /\ \E b \in 1..chain, k \in 0..Len(pool.window) : pool' = parse_swaps_result(pool, <<b>>, k)
        /\ Len(pool'.window) <= MaxSeq
        /\ dex' = Success([dex EXCEPT !.pong = TRUE])
     \/ dex' = Error(dex) /\ UNCHANGED pool /\ Mishap
  /\ UNCHANGED <<config, chain, mdpc, Calls>>
OnSubscriptionPong ==
  /\ config.mode # "polling" /\ dex' = Success([dex EXCEPT !.pong = TRUE])
  /\ UNCHANGED <<config, chain, pool, mdpc, Calls, dexFaults>>

(* A new endpoint closes the connection; the breaker is switched on or off.*)
ApplyRuntimeConfig ==
  /\ Mishap
  /\ \E newUrl, on \in BOOLEAN :
       dex' = [dex EXCEPT !.enabled = on, !.up = @ /\ ~newUrl]
  /\ UNCHANGED <<config, chain, pool, mdpc, Calls>>

(* The chain, and time.                                                    *)
Block == chain < Len(Hashes) /\ chain' = chain + 1
         /\ UNCHANGED <<config, dex, pool, mdpc, Calls, dexFaults>>
CooldownEnds ==
  /\ \/ dex.circuit = "open" /\ ~dex.cooled /\ dex' = [dex EXCEPT !.cooled = TRUE]
     \/ dex.backoff /\ dex' = [dex EXCEPT !.backoff = FALSE]
  /\ UNCHANGED <<config, chain, pool, mdpc, Calls, dexFaults>>
TimePasses ==
  /\ \/ dex.errs > 0 /\ dex' = [dex EXCEPT !.errs = @ - 1] /\ UNCHANGED pool
     \/ dex.pong /\ config.mode # "polling" /\ dex' = [dex EXCEPT !.pong = FALSE] /\ UNCHANGED pool
     \/ pool.fresh /\ pool' = [pool EXCEPT !.fresh = FALSE] /\ UNCHANGED dex
  /\ UNCHANGED <<config, chain, mdpc, Calls, dexFaults>>
-----------------------------------------------------------------------------
DexNext ==
  \/ Connect \/ Subscribe \/ Heartbeat \/ RequestSnapshot
  \/ ReconnectPolling \/ ReconnectRefused \/ ReconnectClose \/ ReconnectOpen \/ ReconnectGivesUp
  \/ SendOrder \/ OrderAnswered
  \/ OnSubscriptionMessage \/ OnSubscriptionPong \/ ApplyRuntimeConfig \/ Block \/ CooldownEnds \/ TimePasses
MdThread == Connect \/ Subscribe \/ Heartbeat \/ RequestSnapshot \/ ReconnectPolling
            \/ ReconnectRefused \/ ReconnectClose \/ ReconnectOpen \/ ReconnectGivesUp
DexSpec == DexInit /\ [][DexNext]_dexVars /\ WF_dexVars(MdThread) /\ SF_dexVars(CooldownEnds)
-----------------------------------------------------------------------------
DexTypeOK ==
  /\ dex.circuit \in {"closed", "half_open", "open"} /\ dex.errs \in 0..(DexErrors + MaxDexFaults)
  /\ mdpc.tries \in 0..DexTries /\ Len(pool.swaps) <= MaxSwapEvents
  /\ snap \in {"none", "connected", "stale", "disconnected"}

(* The volume of the last day counts a swap that has a hash once, whether  *)
(* polls and messages bring it twice, late, or after the list of recent    *)
(* swaps has dropped it.                                                   *)
VolumeCountsOnce ==
  \A i, j \in DOMAIN pool.window : SameSwap(pool.window[i], pool.window[j]) => i = j

(* A pool state that changes the price gets a larger sequence: the         *)
(* snapshot producer drops repeated sequences, so an equal one would hide  *)
(* the new price.                                                          *)
NewStateNewSequence == [][pool'.price # pool.price => pool'.seq > pool.seq]_dexVars

(* A snapshot handed out as connected was taken of a cache younger than    *)
(* the threshold, by a connected adapter.                                  *)
ConnectedIsFresh ==
  [][snap' # snap /\ snap' = "connected" => dex'.up /\ pool'.fresh]_dexVars

(* The adapter is not disconnected for ever: failures are finite here, and *)
(* the cooldowns end.                                                      *)
ComesBack == []<>dex.up
=============================================================================

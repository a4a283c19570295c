--------------------------- MODULE PositionsView ---------------------------
(***************************************************************************)
(* How a client sees its positions through gateway: the REST endpoint with *)
(* its short-lived cache, and the WebSocket that sends a snapshot when it  *)
(* opens and another for every positions.update of ledger.                 *)
(*                                                                         *)
(* One user.  The truth is a version number in ledger; a snapshot is the   *)
(* version it was built from.  The consumer, the REST workers and the      *)
(* sockets are threads; PositionsHub copies its listeners under the lock   *)
(* and calls them without it.                                              *)
(***************************************************************************)
EXTENDS Integers, Sequences, FiniteSets

CONSTANTS Getters,       \* workers that serve GET /v1/positions
          Sockets,       \* WebSocket connections
          MaxVersions,   \* bound: batches that change the positions
          DedupCapacity, \* kDedupCapacity
          MaxRedelivered \* bound: records delivered again

ASSUME ViewAssumption == DedupCapacity \in Nat \ {0} /\ MaxVersions \in Nat /\ MaxRedelivered \in Nat

VARIABLES version,    \* of the positions in ledger
          updates,    \* topic positions.update: versions (one batch each)
          offset,     \* of the consumer
          seenKeys,   \* seen_order_: batches already published, oldest first
          cache,      \* PositionsCache: a version, 0 for no entry
          getter,     \* [Getters -> a request in progress]
          socket,     \* [Sockets -> its context]
          pushing,    \* the event being published: its batch and the listeners left
          redelivered

viewVars == <<version, updates, offset, seenKeys, cache, getter, socket, pushing, redelivered>>

Resting == [at |-> "idle", body |-> 0]
Shut    == [at |-> "closed", body |-> 0, shown |-> 0, subscribed |-> FALSE]
NoPush  == [batch |-> 0, invalidated |-> TRUE, left |-> {}]

(* ledger settles a batch, then publishes the signal.                      *)
Settle ==
  /\ version < MaxVersions
  /\ version' = version + 1
  /\ UNCHANGED <<updates, offset, seenKeys, cache, getter, socket, pushing, redelivered>>

Signal ==
  /\ Len(updates) < version
  /\ updates' = Append(updates, Len(updates) + 1)
  /\ UNCHANGED <<version, offset, seenKeys, cache, getter, socket, pushing, redelivered>>

(* HandlePayload: one publication per (user, batch) among the last         *)
(* DedupCapacity; the offset is committed after the handler.               *)
Trimmed(keys) == IF Len(keys) > DedupCapacity THEN Tail(keys) ELSE keys
Listening == {s \in Sockets : socket[s].subscribed}

(* PositionsHub::Publish: the cache's listener and those of the sockets,   *)
(* in the order of a hash map.                                             *)
PublishTo(batch) == [batch |-> batch, invalidated |-> FALSE, left |-> Listening]

HandlePayload ==
  /\ pushing = NoPush /\ offset < Len(updates)
  /\ LET b == updates[offset + 1]
     IN  IF \E i \in DOMAIN seenKeys : seenKeys[i] = b
         THEN UNCHANGED <<seenKeys, pushing>>
         ELSE /\ seenKeys' = Trimmed(Append(seenKeys, b))
              /\ pushing' = PublishTo(b)
  /\ offset' = offset + 1
  /\ UNCHANGED <<version, updates, cache, getter, socket, redelivered>>

Finished(p) == IF p.invalidated /\ p.left = {} THEN NoPush ELSE p

InvalidateCache ==
  /\ ~pushing.invalidated
  /\ cache' = 0
  /\ pushing' = Finished([pushing EXCEPT !.invalidated = TRUE])
  /\ UNCHANGED <<version, updates, offset, seenKeys, getter, socket, redelivered>>

\* Mutant: the push takes the cached snapshot.
PushCached(s) ==
  /\ s \in pushing.left
  /\ socket' = [socket EXCEPT ![s].shown = IF cache = 0 THEN version ELSE cache]
  /\ pushing' = Finished([pushing EXCEPT !.left = @ \ {s}])
  /\ UNCHANGED <<version, updates, offset, seenKeys, cache, getter, redelivered>>

(* The listener of a socket: BuildPositionsJson past the cache; nothing is *)
(* sent when ledger does not answer or the socket was closed meanwhile.    *)
Push(s) ==
  /\ s \in pushing.left
  /\ \E built \in BOOLEAN :
       socket' = IF built THEN [socket EXCEPT ![s].shown = version] ELSE socket
  /\ pushing' = Finished([pushing EXCEPT !.left = @ \ {s}])
  /\ UNCHANGED <<version, updates, offset, seenKeys, cache, getter, redelivered>>

(* A record comes again: the commit failed or the group was rebalanced.    *)
Redeliver ==
  /\ redelivered < MaxRedelivered /\ offset > 0 /\ pushing = NoPush
  /\ offset' = offset - 1 /\ redelivered' = redelivered + 1
  /\ UNCHANGED <<version, updates, seenKeys, cache, getter, socket, pushing>>

(* GET /v1/positions: the cache, or BuildPositionsJson and Put.            *)
GetStart(g) ==
  /\ getter[g].at = "idle"
  /\ getter' = [getter EXCEPT ![g] = [at |-> IF cache = 0 THEN "build" ELSE "answer", body |-> cache]]
  /\ UNCHANGED <<version, updates, offset, seenKeys, cache, socket, pushing, redelivered>>

Build(g) ==
  /\ getter[g].at = "build"
  /\ \/ getter' = [getter EXCEPT ![g].at = "put", ![g].body = version]
     \/ getter' = [getter EXCEPT ![g] = Resting]    \* 503 ledger_unavailable
  /\ UNCHANGED <<version, updates, offset, seenKeys, cache, socket, pushing, redelivered>>

Put(g) ==
  /\ getter[g].at = "put"
  /\ cache' = getter[g].body
  /\ getter' = [getter EXCEPT ![g].at = "answer"]
  /\ UNCHANGED <<version, updates, offset, seenKeys, socket, pushing, redelivered>>

Answer(g) ==
  /\ getter[g].at = "answer"
  /\ getter' = [getter EXCEPT ![g] = Resting]
  /\ UNCHANGED <<version, updates, offset, seenKeys, cache, socket, pushing, redelivered>>


(* The entry is older than GATEWAY_POSITIONS_CACHE_TTL_MS.                 *)
Expire ==
  /\ cache # 0 /\ cache' = 0
  /\ UNCHANGED <<version, updates, offset, seenKeys, getter, socket, pushing, redelivered>>

(* onopen: the snapshot first, from the cache or built and put; then the   *)
(* subscription.                                                           *)
OpenSocket(s) ==
  /\ socket[s].at = "closed" /\ ~socket[s].subscribed
  /\ socket' = [socket EXCEPT ![s] = [Shut EXCEPT !.at = IF cache = 0 THEN "build" ELSE "send",
                                                  !.body = cache]]
  /\ UNCHANGED <<version, updates, offset, seenKeys, cache, getter, pushing, redelivered>>

BuildFirst(s) ==
  /\ socket[s].at = "build"
  /\ \/ socket' = [socket EXCEPT ![s].at = "put", ![s].body = version]
     \/ socket' = [socket EXCEPT ![s].at = "send"]   \* ledger does not answer: nothing is sent
  /\ UNCHANGED <<version, updates, offset, seenKeys, cache, getter, pushing, redelivered>>

PutFirst(s) ==
  /\ socket[s].at = "put"
  /\ cache' = socket[s].body
  /\ socket' = [socket EXCEPT ![s].at = "send"]
  /\ UNCHANGED <<version, updates, offset, seenKeys, getter, pushing, redelivered>>

SendFirst(s) ==
  /\ socket[s].at = "send"
  /\ socket' = [socket EXCEPT ![s].at = "subscribe", ![s].shown = socket[s].body]
  /\ UNCHANGED <<version, updates, offset, seenKeys, cache, getter, pushing, redelivered>>

Subscribe(s) ==
  /\ socket[s].at = "subscribe"
  /\ socket' = [socket EXCEPT ![s].at = "open", ![s].subscribed = TRUE]
  /\ UNCHANGED <<version, updates, offset, seenKeys, cache, getter, pushing, redelivered>>

(* onclose, onerror: closed under the lock, then Unsubscribe.              *)
CloseSocket(s) ==
  /\ socket[s].at = "open"
  /\ socket' = [socket EXCEPT ![s] = Shut]
  /\ pushing' = Finished([pushing EXCEPT !.left = @ \ {s}])   \* its listener returns at once
  /\ UNCHANGED <<version, updates, offset, seenKeys, cache, getter, redelivered>>

ViewInit ==
  /\ version = 0 /\ updates = <<>> /\ offset = 0 /\ seenKeys = <<>> /\ cache = 0
  /\ getter = [g \in Getters |-> Resting] /\ socket = [s \in Sockets |-> Shut]
  /\ pushing = NoPush /\ redelivered = 0

ViewNext ==
  \/ Settle \/ Signal \/ HandlePayload \/ InvalidateCache \/ Redeliver \/ Expire
  \/ \E g \in Getters : GetStart(g) \/ Build(g) \/ Put(g) \/ Answer(g)
  \/ \E s \in Sockets : \/ OpenSocket(s) \/ BuildFirst(s) \/ PutFirst(s) \/ SendFirst(s)
                        \/ Subscribe(s) \/ CloseSocket(s) \/ Push(s)

ViewSpec == ViewInit /\ [][ViewNext]_viewVars
-----------------------------------------------------------------------------
(* Nothing shown is newer than the ledger, the consumer is within the      *)
(* topic, and dedup keeps at most its capacity.                            *)
ViewTypeOK ==
  /\ cache \in 0 .. version /\ offset \in 0 .. Len(updates) /\ Len(updates) <= version
  /\ Len(seenKeys) <= DedupCapacity
  /\ \A s \in Sockets : socket[s].shown \in 0 .. version
  /\ pushing.left \subseteq Sockets

(* A socket that stays open is never shown an older snapshot after a newer *)
(* one.                                                                    *)
NeverBackwards ==
  [][\A s \in Sockets : socket[s].at = "open" /\ socket'[s].at = "open"
                          => socket'[s].shown >= socket[s].shown]_viewVars

(* Nothing a client is shown or the cache holds is newer than the ledger,  *)
(* the deduplicator keeps to its capacity, and no socket goes back.        *)
ViewSafety == []ViewTypeOK /\ NeverBackwards

(* A stale entry does not outlive its expiry: the cache is empty or        *)
(* current again and again.                                                *)
StaleEntryGoes == [](version = MaxVersions => <>(cache \in {0, MaxVersions}))
=============================================================================

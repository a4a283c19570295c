--------------------------- MODULE ResultsStream ---------------------------
(***************************************************************************)
(* Replay results as clients of gateway receive them: the consumer of      *)
(* replay.results, ReplayResultsHub with its numbered recent events, the   *)
(* bounded event streams (SSE) and the WebSocket.                          *)
(*                                                                         *)
(* A result is its position in the topic.  A client keeps the number of    *)
(* the last event it got (Last-Event-ID, after_seq) over reconnections;    *)
(* the numbers start again at 1 with every process.                        *)
(***************************************************************************)
EXTENDS Integers, Sequences, FiniteSets

CONSTANTS SseClients, WsClients,
          ResultSessions,  \* sequence: the session of every result of the topic
          Follows,         \* client -> the session it asks for
          RecentCapacity,  \* events kept by the hub (1024)
          MaxStreams,      \* REPLAY_SSE_MAX_STREAMS
          MaxHubRestarts   \* bound: restarts of gateway

ASSUME StreamAssumption ==
  /\ SseClients \cap WsClients = {} /\ ResultSessions \in Seq(STRING)
  /\ RecentCapacity \in Nat \ {0} /\ MaxStreams \in Nat /\ MaxHubRestarts \in Nat

VARIABLES position,   \* committed offset of the consumer
          polled,     \* a record was handled and is not committed yet
          hub,        \* [next, recent, published]: published is a history of (sequence, result)
          active,     \* active_streams
          stream,     \* [clients -> [at, after]]: after is the cursor in the connection
          cursor,     \* [clients -> [seq, life, clean]]: what the client remembers; clean: its numbers
                      \* are all of one process
          got,        \* [clients -> results received]
          missed,     \* [clients -> results evicted before they were read]
          life        \* number of the process

streamVars == <<position, polled, hub, active, stream, cursor, got, missed, life>>

StreamClients == SseClients \cup WsClients
Gone == [at |-> "away", after |-> 0]
EmptyHub == [next |-> 1, recent |-> <<>>, published |-> {}]
For(c, result) == ResultSessions[result] = Follows[c]

(* ReplayResultsHub::Publish, and the listeners of the open WebSockets.    *)
Trim(events) == IF Len(events) > RecentCapacity THEN Tail(events) ELSE events

Moved(c, seq) == [seq |-> seq, life |-> life,
                  clean |-> cursor[c].clean /\ (cursor[c].seq = 0 \/ cursor[c].life = life)]

Heard(c, e) == /\ stream[c].at = "ws" /\ For(c, e.result) /\ e.seq > stream[c].after

ConsumeResult ==
  /\ ~polled /\ position < Len(ResultSessions)
  /\ LET e == [seq |-> hub.next, result |-> position + 1]
         gone == IF Len(hub.recent) = RecentCapacity THEN {Head(hub.recent)} ELSE {}
     IN  /\ hub' = [next |-> hub.next + 1, recent |-> Trim(Append(hub.recent, e)),
                    published |-> hub.published \cup {e}]
         /\ got' = [c \in StreamClients |-> IF Heard(c, e) THEN got[c] \cup {e.result} ELSE got[c]]
         /\ stream' = [c \in StreamClients |-> IF Heard(c, e) THEN [stream[c] EXCEPT !.after = e.seq]
                                               ELSE stream[c]]
         /\ cursor' = [c \in StreamClients |-> IF Heard(c, e) THEN Moved(c, e.seq)
                                               ELSE cursor[c]]
         /\ missed' = [c \in StreamClients |-> missed[c] \cup {d.result : d \in gone}]
  /\ polled' = TRUE
  /\ UNCHANGED <<position, active, life>>

CommitResult ==
  /\ polled /\ polled' = FALSE /\ position' = position + 1
  /\ UNCHANGED <<hub, active, stream, cursor, got, missed, life>>

(* GET /replay/results/stream: a slot or 503; the cursor of the client.    *)
TakeSlot(c) ==
  IF active + 1 > MaxStreams THEN UNCHANGED <<active, stream>>
  ELSE /\ active' = active + 1
       /\ stream' = [stream EXCEPT ![c] = [at |-> "sse", after |-> cursor[c].seq]]

OpenStream(c) ==
  /\ c \in SseClients /\ stream[c].at = "away"
  /\ TakeSlot(c)
  /\ UNCHANGED <<position, polled, hub, cursor, got, missed, life>>

\* Mutant: the newest event instead of the next one.
NewestFor(c) ==
  LET later == {i \in DOMAIN hub.recent : hub.recent[i].seq > stream[c].after /\ For(c, hub.recent[i].result)}
  IN  {hub.recent[i] : i \in {k \in later : \A o \in later : o <= k}}

(* FindNextLocked: the first event after the cursor.                       *)
NextFor(c) ==
  LET later == {i \in DOMAIN hub.recent : hub.recent[i].seq > stream[c].after /\ For(c, hub.recent[i].result)}
  IN  {hub.recent[i] : i \in {k \in later : \A o \in later : k <= o}}

StreamNext(c) ==
  /\ stream[c].at = "sse"
  /\ \E e \in NextFor(c) :
       /\ stream' = [stream EXCEPT ![c].after = e.seq]
       /\ cursor' = [cursor EXCEPT ![c] = Moved(c, e.seq)]
       /\ got' = [got EXCEPT ![c] = @ \cup {e.result}]
  /\ UNCHANGED <<position, polled, hub, active, missed, life>>

(* The deadline, an idle wait after an event, or the client left.          *)
EndStream(c) ==
  /\ stream[c].at = "sse"
  /\ stream' = [stream EXCEPT ![c] = Gone] /\ active' = active - 1
  /\ UNCHANGED <<position, polled, hub, cursor, got, missed, life>>

(* The WebSocket hears only events published while it is open.             *)
OpenWs(c) ==
  /\ c \in WsClients /\ stream[c].at = "away"
  /\ stream' = [stream EXCEPT ![c] = [at |-> "ws", after |-> cursor[c].seq]]
  /\ UNCHANGED <<position, polled, hub, active, cursor, got, missed, life>>

CloseWs(c) ==
  /\ stream[c].at = "ws"
  /\ stream' = [stream EXCEPT ![c] = Gone]
  /\ UNCHANGED <<position, polled, hub, active, cursor, got, missed, life>>

(* gateway restarts: the hub is empty and numbers from 1.                  *)
RestartGateway ==
  /\ life <= MaxHubRestarts
  /\ life' = life + 1
  /\ hub' = EmptyHub /\ active' = 0 /\ polled' = FALSE
  /\ stream' = [c \in StreamClients |-> Gone]
  /\ missed' = [c \in StreamClients |-> missed[c] \cup {e.result : e \in hub.published}]
  /\ UNCHANGED <<position, cursor, got>>

StreamInit ==
  /\ position = 0 /\ polled = FALSE /\ hub = EmptyHub /\ active = 0 /\ life = 1
  /\ stream = [c \in StreamClients |-> Gone]
  /\ cursor = [c \in StreamClients |-> [seq |-> 0, life |-> 1, clean |-> TRUE]]
  /\ got = [c \in StreamClients |-> {}] /\ missed = got

StreamStep ==
  \/ ConsumeResult \/ CommitResult \/ RestartGateway
  \/ \E c \in SseClients : OpenStream(c) \/ StreamNext(c) \/ EndStream(c)
  \/ \E c \in WsClients : OpenWs(c) \/ CloseWs(c)

StreamSpec == StreamInit /\ [][StreamStep]_streamVars
-----------------------------------------------------------------------------
StreamTypeOK ==
  /\ active = Cardinality({c \in SseClients : stream[c].at = "sse"}) /\ active <= MaxStreams
  /\ Len(hub.recent) <= RecentCapacity
  /\ \A c \in StreamClients : got[c] \subseteq DOMAIN ResultSessions

(* Behind its cursor a stream client lacks only what the hub had dropped,  *)
(* over any number of reconnections to one process.                        *)
NoGapBehindCursor ==
  \A c \in SseClients :
    cursor[c].clean /\ cursor[c].life = life =>
      \A e \in hub.published :
        e.seq <= cursor[c].seq /\ For(c, e.result) => e.result \in got[c] \cup missed[c]

(* Slots are counted right, and no client has a gap it was not told of.    *)
StreamSafety == StreamTypeOK /\ NoGapBehindCursor

(* A client that had no cursor of an earlier process gets every result of  *)
(* its session, or the hub had to drop it.                                 *)
ResultsArrive ==
  <>(life > 1 \/ \A c \in SseClients : \A r \in DOMAIN ResultSessions :
                    For(c, r) => r \in got[c] \cup missed[c])
=============================================================================

--------------------------- MODULE GatewayProofs ---------------------------
(***************************************************************************)
(* What a client of gateway sees, for any number of clients and results:   *)
(* positions never go back on an open socket, a replay stream leaves no    *)
(* gap behind the cursor of a client, and a call is answered with what the *)
(* services behind gateway hold.  And what its operators rely on: a venue  *)
(* works with the configuration that is stored for it.                     *)
(***************************************************************************)
EXTENDS PositionsView, ResultsStream, GatewayApi, VenueAdmin, InductionLemmas, SequenceTheorems

GetterStages == {"idle", "build", "put", "answer"}
SocketStages == {"closed", "build", "put", "send", "subscribe", "open"}

(* Whatever is on its way to a client was built from some earlier version. *)
ViewShaped ==
  /\ version \in Nat /\ updates \in Seq(Nat) /\ seenKeys \in Seq(Nat) /\ offset \in Nat
  /\ cache \in Nat
  /\ getter \in [Getters -> [at : GetterStages, body : Nat]]
  /\ socket \in [Sockets -> [at : SocketStages, body : Nat, shown : Nat, subscribed : BOOLEAN]]
  /\ pushing \in [batch : Nat, invalidated : BOOLEAN, left : SUBSET Sockets]

NothingFromTheFuture ==
  /\ cache <= version
  /\ \A g \in Getters : getter[g].body <= version
  /\ \A s \in Sockets : socket[s].body <= version /\ socket[s].shown <= version

ViewInv == ViewShaped /\ NothingFromTheFuture /\ ViewTypeOK
-----------------------------------------------------------------------------
LEMMA FinishedShaped ==
  ASSUME NEW p \in [batch : Nat, invalidated : BOOLEAN, left : SUBSET Sockets]
  PROVE  Finished(p) \in [batch : Nat, invalidated : BOOLEAN, left : SUBSET Sockets]
  BY DEF Finished, NoPush

LEMMA TrimmedShaped ==
  ASSUME NEW keys \in Seq(Nat), Len(keys) <= DedupCapacity, NEW b \in Nat
  PROVE  /\ Trimmed(Append(keys, b)) \in Seq(Nat)
         /\ Len(Trimmed(Append(keys, b))) <= DedupCapacity
<1>1. /\ Append(keys, b) \in Seq(Nat) /\ Len(Append(keys, b)) = Len(keys) + 1
      /\ Append(keys, b) # <<>> /\ Len(keys) \in Nat
  BY AppendProperties
<1>2. Tail(Append(keys, b)) \in Seq(Nat) /\ Len(Tail(Append(keys, b))) = Len(keys)
  BY <1>1
<1> QED
  BY <1>1, <1>2, ViewAssumption DEF Trimmed

LEMMA ViewInitInv == ViewInit => ViewInv
<1> SUFFICES ASSUME ViewInit PROVE ViewInv
  OBVIOUS
<1>1. /\ updates \in Seq(Nat) /\ seenKeys \in Seq(Nat) /\ Len(updates) = 0 /\ Len(seenKeys) = 0
  BY DEF ViewInit
<1>2. ViewShaped
  BY <1>1 DEF ViewInit, ViewShaped, Resting, Shut, NoPush, GetterStages, SocketStages
<1>3. NothingFromTheFuture
  BY DEF ViewInit, NothingFromTheFuture, Resting, Shut
<1>4. ViewTypeOK
  BY <1>1, ViewAssumption DEF ViewInit, ViewTypeOK, Shut, NoPush
<1> QED
  BY <1>2, <1>3, <1>4 DEF ViewInv

(* The type invariant without what the shapes say already.                 *)
LEMMA ViewTyped ==
  ASSUME ViewShaped, NothingFromTheFuture, offset <= Len(updates), Len(updates) <= version,
         Len(seenKeys) <= DedupCapacity
  PROVE  ViewTypeOK
  BY DEF ViewShaped, NothingFromTheFuture, ViewTypeOK

(* Steps of a request: the threads of gateway move a snapshot that is not  *)
(* newer than the ledger.                                                  *)
LEMMA GetterStep ==
  ASSUME ViewInv, NEW g \in Getters, GetStart(g) \/ Build(g) \/ Put(g) \/ Answer(g)
  PROVE  ViewInv'
<1>1. PICK x \in [at : GetterStages, body : Nat] : x.body <= version /\ getter' = [getter EXCEPT ![g] = x]
  <2>1. CASE GetStart(g)
    <3> DEFINE x == [at |-> IF cache = 0 THEN "build" ELSE "answer", body |-> cache]
    <3>1. x \in [at : GetterStages, body : Nat] /\ x.body <= version
      BY DEF ViewInv, ViewShaped, NothingFromTheFuture, GetterStages
    <3> QED
      BY <2>1, <3>1 DEF GetStart
  <2>2. CASE Build(g)
    <3>1. Resting \in [at : GetterStages, body : Nat] /\ Resting.body = 0
      BY DEF Resting, GetterStages
    <3> DEFINE x == [getter[g] EXCEPT !.at = "put", !.body = version]
    <3>2. x \in [at : GetterStages, body : Nat] /\ x.body = version /\ version \in Nat
      BY DEF ViewInv, ViewShaped, GetterStages
    <3>3. getter' = [getter EXCEPT ![g] = x] \/ getter' = [getter EXCEPT ![g] = Resting]
      BY <2>2 DEF Build, ViewInv, ViewShaped
    <3> HIDE DEF x
    <3> QED
      BY <3>1, <3>2, <3>3
  <2>3. CASE Put(g)
    <3> DEFINE x == [getter[g] EXCEPT !.at = "answer"]
    <3>1. x \in [at : GetterStages, body : Nat] /\ x.body <= version
      BY DEF ViewInv, ViewShaped, NothingFromTheFuture, GetterStages
    <3>2. getter' = [getter EXCEPT ![g] = x]
      BY <2>3 DEF Put, ViewInv, ViewShaped
    <3> HIDE DEF x
    <3> QED
      BY <3>1, <3>2
  <2>4. CASE Answer(g)
    <3>1. Resting \in [at : GetterStages, body : Nat] /\ Resting.body = 0
      BY DEF Resting, GetterStages
    <3>2. Resting.body <= version
      BY <3>1 DEF ViewInv, ViewShaped
    <3> QED
      BY <2>4, <3>1, <3>2 DEF Answer
  <2> QED
    BY <2>1, <2>2, <2>3, <2>4
<1>2. cache' \in Nat /\ cache' <= version
  BY DEF GetStart, Build, Put, Answer, ViewInv, ViewShaped, NothingFromTheFuture
<1>3. UNCHANGED <<version, updates, offset, seenKeys, socket, pushing>>
  BY DEF GetStart, Build, Put, Answer
<1>4. ViewShaped' /\ NothingFromTheFuture'
  BY <1>1, <1>2, <1>3 DEF ViewInv, ViewShaped, NothingFromTheFuture
<1> QED
  BY <1>2, <1>3, <1>4 DEF ViewInv, ViewTypeOK, ViewShaped

(* A socket gets a snapshot that is not newer than the ledger.             *)
LEMMA SocketStep ==
  ASSUME ViewInv, NEW s \in Sockets,
         NEW x \in [at : SocketStages, body : Nat, shown : Nat, subscribed : BOOLEAN],
         x.body <= version, x.shown <= version, socket' = [socket EXCEPT ![s] = x],
         cache' \in Nat, cache' <= version,
         pushing' \in [batch : Nat, invalidated : BOOLEAN, left : SUBSET Sockets],
         UNCHANGED <<version, updates, offset, seenKeys, getter>>
  PROVE  ViewInv'
<1>1. ViewShaped' /\ NothingFromTheFuture'
  BY DEF ViewInv, ViewShaped, NothingFromTheFuture
<1>2. /\ offset' <= Len(updates') /\ Len(updates') <= version' /\ Len(seenKeys') <= DedupCapacity
  BY DEF ViewInv, ViewTypeOK, ViewShaped
<1>3. ViewTypeOK'
  BY <1>1, <1>2 DEF ViewShaped, NothingFromTheFuture, ViewTypeOK
<1> QED
  BY <1>1, <1>3 DEF ViewInv

LEMMA SocketSteps ==
  ASSUME ViewInv, NEW s \in Sockets,
         \/ OpenSocket(s) \/ BuildFirst(s) \/ PutFirst(s) \/ SendFirst(s)
         \/ Subscribe(s) \/ CloseSocket(s) \/ Push(s)
  PROVE  ViewInv'
<1> DEFINE Context == [at : SocketStages, body : Nat, shown : Nat, subscribed : BOOLEAN]
<1>1. /\ Shut \in Context /\ Shut.body = 0 /\ Shut.shown = 0
  BY DEF Shut, SocketStages
<1>2. /\ socket[s] \in Context /\ socket[s].body <= version /\ socket[s].shown <= version
      /\ version \in Nat /\ cache \in Nat /\ cache <= version
      /\ pushing \in [batch : Nat, invalidated : BOOLEAN, left : SUBSET Sockets]
      /\ socket \in [Sockets -> Context]
  BY DEF ViewInv, ViewShaped, NothingFromTheFuture
<1>3. PICK x \in Context : x.body <= version /\ x.shown <= version /\ socket' = [socket EXCEPT ![s] = x]
  <2>1. CASE OpenSocket(s)
    <3> DEFINE stage == IF cache = 0 THEN "build" ELSE "send"
               x == [Shut EXCEPT !.at = stage, !.body = cache]
    <3>0. stage \in SocketStages
      BY DEF SocketStages
    <3>2. socket' = [socket EXCEPT ![s] = x]
      BY <2>1 DEF OpenSocket
    <3> HIDE DEF stage
    <3>1. x \in Context /\ x.body <= version /\ x.shown <= version
      <4>1. x \in Context
        BY <1>1, <1>2, <3>0
      <4>2. x.body = cache /\ x.shown = 0
        BY <1>1
      <4> QED
        BY <1>2, <4>1, <4>2
    <3> HIDE DEF x
    <3> QED
      BY <3>1, <3>2
  <2>2. CASE socket' = [socket EXCEPT ![s].at = "put", ![s].body = version]
    <3> DEFINE x == [socket[s] EXCEPT !.at = "put", !.body = version]
    <3>1. x \in Context /\ x.body <= version /\ x.shown <= version
      <4>1. x \in Context
        BY <1>2 DEF SocketStages
      <4>2. x.body = version /\ x.shown = socket[s].shown
        BY <1>2
      <4> QED
        BY <1>2, <4>1, <4>2
    <3>2. socket' = [socket EXCEPT ![s] = x]
      BY <1>2, <2>2
    <3> HIDE DEF x
    <3> QED
      BY <3>1, <3>2
  <2>3. CASE socket' = [socket EXCEPT ![s].at = "send"]
    <3> DEFINE x == [socket[s] EXCEPT !.at = "send"]
    <3>1. x \in Context /\ x.body <= version /\ x.shown <= version
      BY <1>2 DEF SocketStages
    <3>2. socket' = [socket EXCEPT ![s] = x]
      BY <1>2, <2>3
    <3> HIDE DEF x
    <3> QED
      BY <3>1, <3>2
  <2>4. CASE SendFirst(s)
    <3> DEFINE x == [socket[s] EXCEPT !.at = "subscribe", !.shown = socket[s].body]
    <3>1. x \in Context /\ x.body <= version /\ x.shown <= version
      BY <1>2 DEF SocketStages
    <3>2. socket' = [socket EXCEPT ![s] = x]
      BY <1>2, <2>4 DEF SendFirst
    <3> HIDE DEF x
    <3> QED
      BY <3>1, <3>2
  <2>5. CASE Subscribe(s)
    <3> DEFINE x == [socket[s] EXCEPT !.at = "open", !.subscribed = TRUE]
    <3>1. x \in Context /\ x.body <= version /\ x.shown <= version
      BY <1>2 DEF SocketStages
    <3>2. socket' = [socket EXCEPT ![s] = x]
      BY <1>2, <2>5 DEF Subscribe
    <3> HIDE DEF x
    <3> QED
      BY <3>1, <3>2
  <2>6. CASE socket' = [socket EXCEPT ![s] = Shut]
    <3>1. Shut.body <= version /\ Shut.shown <= version
      BY <1>1, <1>2
    <3> QED
      BY <1>1, <2>6, <3>1
  <2>7. CASE socket' = [socket EXCEPT ![s].shown = version]
    <3> DEFINE x == [socket[s] EXCEPT !.shown = version]
    <3>1. x \in Context /\ x.body <= version /\ x.shown <= version
      BY <1>2
    <3>2. socket' = [socket EXCEPT ![s] = x]
      BY <1>2, <2>7
    <3> HIDE DEF x
    <3> QED
      BY <3>1, <3>2
  <2>8. CASE socket' = socket
    BY <1>2, <2>8
  <2> QED
    BY <2>1, <2>2, <2>3, <2>4, <2>5, <2>6, <2>7, <2>8 DEF BuildFirst, PutFirst, CloseSocket, Push
<1>4. cache' \in Nat /\ cache' <= version
  BY <1>2 DEF OpenSocket, BuildFirst, PutFirst, SendFirst, Subscribe, CloseSocket, Push
<1>5. pushing' \in [batch : Nat, invalidated : BOOLEAN, left : SUBSET Sockets]
  <2>1. [pushing EXCEPT !.left = @ \ {s}] \in [batch : Nat, invalidated : BOOLEAN, left : SUBSET Sockets]
    BY <1>2
  <2>2. Finished([pushing EXCEPT !.left = @ \ {s}]) \in [batch : Nat, invalidated : BOOLEAN, left : SUBSET Sockets]
    BY <2>1, FinishedShaped
  <2> QED
    BY <1>2, <2>2 DEF OpenSocket, BuildFirst, PutFirst, SendFirst, Subscribe, CloseSocket, Push
<1>6. UNCHANGED <<version, updates, offset, seenKeys, getter>>
  BY DEF OpenSocket, BuildFirst, PutFirst, SendFirst, Subscribe, CloseSocket, Push
<1> QED
  BY <1>3, <1>4, <1>5, <1>6, SocketStep

LEMMA ConsumerStep ==
  ASSUME ViewInv, Settle \/ Signal \/ HandlePayload \/ InvalidateCache \/ Redeliver \/ Expire
  PROVE  ViewInv'
<1>0. /\ version \in Nat /\ Len(updates) \in Nat /\ offset \in Nat /\ offset <= Len(updates)
      /\ Len(updates) <= version /\ updates \in Seq(Nat) /\ seenKeys \in Seq(Nat)
      /\ Len(seenKeys) <= DedupCapacity
      /\ pushing \in [batch : Nat, invalidated : BOOLEAN, left : SUBSET Sockets]
  BY DEF ViewInv, ViewShaped, ViewTypeOK
<1>1. CASE Settle
  <2>1. ViewShaped' /\ NothingFromTheFuture'
    BY <1>1 DEF Settle, ViewInv, ViewShaped, NothingFromTheFuture
  <2> QED
    BY <1>0, <1>1, <2>1 DEF Settle, ViewInv, ViewTypeOK, ViewShaped, NothingFromTheFuture
<1>2. CASE Signal
  <2>1. updates' \in Seq(Nat) /\ Len(updates') = Len(updates) + 1
    BY <1>0, <1>2, AppendProperties DEF Signal
  <2>2. ViewShaped' /\ NothingFromTheFuture'
    BY <1>2, <2>1 DEF Signal, ViewInv, ViewShaped, NothingFromTheFuture
  <2> QED
    BY <1>0, <1>2, <2>1, <2>2 DEF Signal, ViewInv, ViewTypeOK
<1>3. CASE HandlePayload
  <2> DEFINE b == updates[offset + 1]
  <2>1. b \in Nat /\ offset' = offset + 1 /\ offset + 1 <= Len(updates)
    BY <1>0, <1>3 DEF HandlePayload
  <2>2. seenKeys' \in Seq(Nat) /\ Len(seenKeys') <= DedupCapacity
    <3> HIDE DEF b
    <3>1. seenKeys' \in {seenKeys, Trimmed(Append(seenKeys, b))}
      BY <1>3 DEF HandlePayload, b
    <3> QED
      BY <1>0, <2>1, <3>1, TrimmedShaped
  <2>3. pushing' \in [batch : Nat, invalidated : BOOLEAN, left : SUBSET Sockets]
    <3>1. PublishTo(b) \in [batch : Nat, invalidated : BOOLEAN, left : SUBSET Sockets]
      BY <2>1 DEF PublishTo, Listening
    <3> HIDE DEF b
    <3>2. pushing' \in {pushing, PublishTo(b)}
      BY <1>3 DEF HandlePayload, b
    <3> QED
      BY <1>0, <3>1, <3>2
  <2>4. UNCHANGED <<version, updates, cache, getter, socket>>
    BY <1>3 DEF HandlePayload
  <2>5. ViewShaped' /\ NothingFromTheFuture'
    BY <1>0, <2>1, <2>2, <2>3, <2>4 DEF ViewInv, ViewShaped, NothingFromTheFuture
  <2> QED
    BY <1>0, <2>1, <2>2, <2>3, <2>4, <2>5 DEF ViewInv, ViewTypeOK
<1>4. CASE InvalidateCache
  <2>1. [pushing EXCEPT !.invalidated = TRUE] \in [batch : Nat, invalidated : BOOLEAN, left : SUBSET Sockets]
    BY <1>0
  <2>2. pushing' \in [batch : Nat, invalidated : BOOLEAN, left : SUBSET Sockets]
    BY <1>4, <2>1, FinishedShaped DEF InvalidateCache
  <2>3. cache' = 0 /\ UNCHANGED <<version, updates, offset, seenKeys, getter, socket>>
    BY <1>4 DEF InvalidateCache
  <2>4. ViewShaped' /\ NothingFromTheFuture'
    BY <1>0, <2>2, <2>3 DEF ViewInv, ViewShaped, NothingFromTheFuture
  <2> QED
    BY <1>0, <2>2, <2>3, <2>4 DEF ViewInv, ViewTypeOK
<1>5. CASE Redeliver
  <2>1. ViewShaped' /\ NothingFromTheFuture'
    BY <1>0, <1>5 DEF Redeliver, ViewInv, ViewShaped, NothingFromTheFuture
  <2> QED
    BY <1>0, <1>5, <2>1 DEF Redeliver, ViewInv, ViewTypeOK
<1>6. CASE Expire
  <2>1. ViewShaped' /\ NothingFromTheFuture'
    BY <1>0, <1>6 DEF Expire, ViewInv, ViewShaped, NothingFromTheFuture
  <2> QED
    BY <1>0, <1>6, <2>1 DEF Expire, ViewInv, ViewTypeOK
<1> QED
  BY <1>1, <1>2, <1>3, <1>4, <1>5, <1>6

LEMMA ViewStep == ViewInv /\ [ViewNext]_viewVars => ViewInv'
<1> SUFFICES ASSUME ViewInv, [ViewNext]_viewVars PROVE ViewInv'
  OBVIOUS
<1>1. CASE UNCHANGED viewVars
  BY <1>1 DEF viewVars, ViewInv, ViewShaped, NothingFromTheFuture, ViewTypeOK
<1> QED
  BY <1>1, ConsumerStep, GetterStep, SocketSteps DEF ViewNext

(* Nothing a client is shown or the cache holds is newer than the ledger,  *)
(* the consumer stays within its topic, and the deduplicator never keeps   *)
(* more keys than its capacity (BuildPositionsJson, PositionsCache).       *)
THEOREM ViewTypeCorrect == ViewSpec => []ViewTypeOK
<1>1. ViewInv => ViewTypeOK
  BY DEF ViewInv
<1> QED
  BY <1>1, ViewInitInv, ViewStep, PTL DEF ViewSpec

(* A socket that stays open is never shown an older snapshot after a newer *)
(* one: only the listener of PositionsHub writes to it, and it builds past *)
(* the cache that a slow REST worker may still fill with an old version    *)
(* (BuildPositionsJson, PositionsCache::Put).                              *)
THEOREM PositionsNeverGoBack == ViewSpec => NeverBackwards
<1>1. ViewInv /\ [ViewNext]_viewVars =>
        [\A s \in Sockets : socket[s].at = "open" /\ socket'[s].at = "open"
                               => socket'[s].shown >= socket[s].shown]_viewVars
  <2> SUFFICES ASSUME ViewInv, ViewNext, NEW s \in Sockets,
                      socket[s].at = "open", socket'[s].at = "open"
               PROVE  socket'[s].shown >= socket[s].shown
    BY DEF viewVars
  <2>0. /\ socket \in [Sockets -> [at : SocketStages, body : Nat, shown : Nat, subscribed : BOOLEAN]]
        /\ socket[s].shown \in Nat /\ version \in Nat /\ socket[s].shown <= version
    BY DEF ViewInv, ViewShaped, NothingFromTheFuture
  <2>1. CASE socket'[s] = socket[s]
    BY <2>0, <2>1
  <2>2. ASSUME NEW t \in Sockets,
               \/ OpenSocket(t) \/ BuildFirst(t) \/ PutFirst(t) \/ SendFirst(t)
               \/ Subscribe(t) \/ CloseSocket(t)
        PROVE  socket'[s] = socket[s]
    BY <2>0, <2>2 DEF OpenSocket, BuildFirst, PutFirst, SendFirst, Subscribe, CloseSocket, Shut
  <2>3. ASSUME NEW t \in Sockets, Push(t) PROVE socket'[s].shown \in {socket[s].shown, version}
    BY <2>0, <2>3 DEF Push
  <2>4. CASE Settle \/ Signal \/ HandlePayload \/ InvalidateCache \/ Redeliver \/ Expire
    BY <2>1, <2>4 DEF Settle, Signal, HandlePayload, InvalidateCache, Redeliver, Expire
  <2>5. CASE \E g \in Getters : GetStart(g) \/ Build(g) \/ Put(g) \/ Answer(g)
    BY <2>1, <2>5 DEF GetStart, Build, Put, Answer
  <2>6. ASSUME NEW t \in Sockets, Push(t) PROVE socket'[s].shown >= socket[s].shown
    BY <2>0, <2>3, <2>6
  <2> QED
    BY <2>1, <2>2, <2>4, <2>5, <2>6 DEF ViewNext
<1> QED
  BY <1>1, ViewInitInv, ViewStep, PTL DEF ViewSpec, NeverBackwards

(* Both together: what the gateway shows of positions is never ahead of    *)
(* the ledger and never goes back on an open socket.                       *)
THEOREM PositionsAreSafe == ViewSpec => ViewSafety
BY ViewTypeCorrect, PositionsNeverGoBack, PTL DEF ViewSafety
-----------------------------------------------------------------------------
(* Replay results.                                                         *)
Results == DOMAIN ResultSessions
Event   == [seq : Nat \ {0}, result : Results]

StreamShaped ==
  /\ position \in Nat /\ life \in Nat
  /\ hub.next \in Nat \ {0} /\ hub.recent \in Seq(Event) /\ hub.published \subseteq Event
  /\ stream \in [StreamClients -> [at : {"away", "sse", "ws"}, after : Nat]]
  /\ cursor \in [StreamClients -> [seq : Nat, life : Nat, clean : BOOLEAN]]
  /\ got \in [StreamClients -> SUBSET Results] /\ missed \in [StreamClients -> SUBSET Results]

(* The slots counted are the streams open.                                 *)
Streaming == {c \in SseClients : stream[c].at = "sse"}
SlotsCounted ==
  /\ IsFiniteSet(Streaming) /\ active = Cardinality(Streaming) /\ active <= MaxStreams

(* The hub numbers its events upwards; what it published and no longer     *)
(* keeps counts as missed.                                                 *)
HubOrdered ==
  /\ Len(hub.recent) <= RecentCapacity
  /\ \A e \in hub.published : e.seq < hub.next
  /\ \A i \in DOMAIN hub.recent : hub.recent[i] \in hub.published
  /\ \A i, j \in DOMAIN hub.recent : i < j => hub.recent[i].seq < hub.recent[j].seq
  /\ \A e \in hub.published :
       \/ \E i \in DOMAIN hub.recent : hub.recent[i] = e
       \/ \A c \in StreamClients : e.result \in missed[c]

(* A cursor of this process is behind its next number, and an open stream  *)
(* stands where its client's cursor does.                                  *)
CursorsBehind ==
  /\ \A c \in StreamClients :
       cursor[c].life <= life /\ (cursor[c].life = life => cursor[c].seq < hub.next)
  /\ \A c \in SseClients :
       stream[c].at # "ws" /\ (stream[c].at = "sse" => stream[c].after = cursor[c].seq)

StreamInv == StreamShaped /\ SlotsCounted /\ HubOrdered /\ CursorsBehind /\ NoGapBehindCursor

LEMMA StreamInvSafe == StreamInv => StreamSafety
<1> SUFFICES ASSUME StreamInv PROVE StreamSafety
  OBVIOUS
<1>1. active = Cardinality({c \in SseClients : stream[c].at = "sse"}) /\ active <= MaxStreams
  BY DEF StreamInv, SlotsCounted, Streaming
<1>2. /\ Len(hub.recent) <= RecentCapacity
      /\ \A c \in StreamClients : got[c] \subseteq DOMAIN ResultSessions
  BY DEF StreamInv, HubOrdered, StreamShaped, Results
<1> QED
  BY <1>1, <1>2 DEF StreamSafety, StreamTypeOK, StreamInv

LEMMA EmptyHubOrdered == ASSUME hub = EmptyHub PROVE HubOrdered
<1>1. hub.recent = <<>> /\ hub.published = {} /\ Len(hub.recent) = 0 /\ DOMAIN hub.recent = {}
  BY DEF EmptyHub
<1> QED
  BY <1>1, StreamAssumption DEF HubOrdered

LEMMA StreamInitInv == StreamInit => StreamInv
<1> SUFFICES ASSUME StreamInit PROVE StreamInv
  OBVIOUS
<1>1. hub.next = 1 /\ hub.recent = <<>> /\ hub.published = {}
  BY DEF StreamInit, EmptyHub
<1>2. StreamShaped
  <2>1. hub.next \in Nat \ {0} /\ hub.recent \in Seq(Event) /\ hub.published \subseteq Event
    BY <1>1
  <2> QED
    BY <2>1 DEF StreamInit, StreamShaped, Gone
<1>3. Streaming = {}
  BY DEF StreamInit, Streaming, Gone, StreamClients
<1>4. SlotsCounted
  BY <1>3, FS_EmptySet, StreamAssumption DEF StreamInit, SlotsCounted
<1>5. HubOrdered
  BY EmptyHubOrdered DEF StreamInit
<1>6. CursorsBehind
  BY <1>1 DEF StreamInit, CursorsBehind, Gone, StreamClients
<1>7. NoGapBehindCursor
  BY <1>1 DEF NoGapBehindCursor
<1> QED
  BY <1>2, <1>4, <1>5, <1>6, <1>7 DEF StreamInv

(* Opening, ending and failing streams move no cursor and no event.        *)
LEMMA ConnectionStep ==
  ASSUME StreamInv, UNCHANGED <<position, hub, cursor, got, missed, life>>,
         stream' \in [StreamClients -> [at : {"away", "sse", "ws"}, after : Nat]],
         \A c \in SseClients :
           stream'[c].at # "ws" /\ (stream'[c].at = "sse" => stream'[c].after = cursor[c].seq),
         SlotsCounted'
  PROVE  StreamInv'
<1>1. StreamShaped' /\ HubOrdered' /\ NoGapBehindCursor'
  BY DEF StreamInv, StreamShaped, HubOrdered, NoGapBehindCursor, For
<1>2. CursorsBehind'
  BY DEF StreamInv, CursorsBehind
<1> QED
  BY <1>1, <1>2 DEF StreamInv

(* The same streams are open: the slots stay counted.                      *)
LEMMA SameSlots ==
  ASSUME SlotsCounted, active' = active, \A c \in SseClients : stream'[c].at = "sse" <=> stream[c].at = "sse"
  PROVE  SlotsCounted'
<1>1. Streaming' = Streaming
  BY DEF Streaming
<1> QED
  BY <1>1 DEF SlotsCounted

LEMMA OpenStep ==
  ASSUME StreamInv, NEW c \in SseClients, OpenStream(c)
  PROVE  StreamInv'
<1>0. /\ c \in StreamClients /\ UNCHANGED <<position, hub, cursor, got, missed, life>>
      /\ stream \in [StreamClients -> [at : {"away", "sse", "ws"}, after : Nat]]
      /\ cursor[c].seq \in Nat
  BY DEF OpenStream, StreamClients, StreamInv, StreamShaped
<1>1. CASE UNCHANGED <<active, stream>>
  <2>1. SlotsCounted'
    BY <1>1, SameSlots DEF StreamInv
  <2> QED
    BY <1>0, <1>1, <2>1, ConnectionStep DEF StreamInv, CursorsBehind
<1>2. CASE /\ active + 1 <= MaxStreams /\ active' = active + 1
           /\ stream' = [stream EXCEPT ![c] = [at |-> "sse", after |-> cursor[c].seq]]
  <2>1. Streaming' = Streaming \cup {c} /\ c \notin Streaming
    BY <1>0, <1>2 DEF Streaming, OpenStream, StreamClients
  <2>2. IsFiniteSet(Streaming') /\ Cardinality(Streaming') = Cardinality(Streaming) + 1
    BY <2>1, FS_AddElement DEF StreamInv, SlotsCounted
  <2>3. SlotsCounted'
    BY <1>2, <2>2 DEF StreamInv, SlotsCounted
  <2>4. stream' \in [StreamClients -> [at : {"away", "sse", "ws"}, after : Nat]]
    BY <1>0, <1>2
  <2>5. \A d \in SseClients :
          stream'[d].at # "ws" /\ (stream'[d].at = "sse" => stream'[d].after = cursor[d].seq)
    BY <1>0, <1>2 DEF StreamInv, CursorsBehind, StreamClients
  <2> QED
    BY <1>0, <2>3, <2>4, <2>5, ConnectionStep
<1>3. active \in Nat
  BY FS_CardinalityType DEF StreamInv, SlotsCounted
<1> QED
  BY <1>1, <1>2, <1>3, StreamAssumption DEF OpenStream, TakeSlot

LEMMA EndStep ==
  ASSUME StreamInv, NEW c \in SseClients, EndStream(c)
  PROVE  StreamInv'
<1>0. /\ c \in StreamClients /\ UNCHANGED <<position, hub, cursor, got, missed, life>>
      /\ stream \in [StreamClients -> [at : {"away", "sse", "ws"}, after : Nat]]
      /\ active' = active - 1 /\ stream' = [stream EXCEPT ![c] = Gone] /\ stream[c].at = "sse"
  BY DEF EndStream, StreamClients, StreamInv, StreamShaped
<1>1. Streaming' = Streaming \ {c} /\ c \in Streaming
  BY <1>0 DEF Streaming, Gone, StreamClients
<1>2. IsFiniteSet(Streaming') /\ Cardinality(Streaming') = Cardinality(Streaming) - 1
  BY <1>1, FS_RemoveElement DEF StreamInv, SlotsCounted
<1>3. Cardinality(Streaming) \in Nat
  BY FS_CardinalityType DEF StreamInv, SlotsCounted
<1>4. SlotsCounted'
  BY <1>0, <1>2, <1>3, StreamAssumption DEF StreamInv, SlotsCounted
<1>5. stream' \in [StreamClients -> [at : {"away", "sse", "ws"}, after : Nat]]
  BY <1>0 DEF Gone
<1>6. \A d \in SseClients :
        stream'[d].at # "ws" /\ (stream'[d].at = "sse" => stream'[d].after = cursor[d].seq)
  BY <1>0 DEF StreamInv, CursorsBehind, StreamClients, Gone
<1> QED
  BY <1>0, <1>4, <1>5, <1>6, ConnectionStep

LEMMA WsStep ==
  ASSUME StreamInv, NEW c \in WsClients, OpenWs(c) \/ CloseWs(c)
  PROVE  StreamInv'
<1>0. /\ c \in StreamClients /\ c \notin SseClients
      /\ UNCHANGED <<position, hub, cursor, got, missed, life>> /\ UNCHANGED active
      /\ stream \in [StreamClients -> [at : {"away", "sse", "ws"}, after : Nat]]
      /\ cursor[c].seq \in Nat
  BY StreamAssumption DEF OpenWs, CloseWs, StreamClients, StreamInv, StreamShaped
<1>1. stream' \in [StreamClients -> [at : {"away", "sse", "ws"}, after : Nat]]
  BY <1>0 DEF OpenWs, CloseWs, Gone
<1>2. \A d \in SseClients : stream'[d] = stream[d]
  BY <1>0 DEF OpenWs, CloseWs, StreamClients
<1>3. SlotsCounted'
  BY <1>0, <1>2, SameSlots DEF StreamInv
<1> QED
  BY <1>0, <1>1, <1>2, <1>3, ConnectionStep DEF StreamInv, CursorsBehind

LEMMA CommitStep == StreamInv /\ CommitResult => StreamInv'
<1> SUFFICES ASSUME StreamInv, CommitResult PROVE StreamInv'
  OBVIOUS
<1>1. StreamShaped' /\ HubOrdered' /\ NoGapBehindCursor' /\ CursorsBehind'
  BY DEF CommitResult, StreamInv, StreamShaped, HubOrdered, NoGapBehindCursor, CursorsBehind, For
<1>2. SlotsCounted'
  BY SameSlots DEF CommitResult, StreamInv
<1> QED
  BY <1>1, <1>2 DEF StreamInv

(* A restart loses the hub: everything it had published counts as missed,  *)
(* and the cursors are those of an earlier process.                        *)
LEMMA RestartStep == StreamInv /\ RestartGateway => StreamInv'
<1> SUFFICES ASSUME StreamInv, RestartGateway PROVE StreamInv'
  OBVIOUS
<1>1. hub'.next = 1 /\ hub'.recent = <<>> /\ hub'.published = {}
  BY DEF RestartGateway, EmptyHub
<1>2. StreamShaped'
  <2>1. hub'.next \in Nat \ {0} /\ hub'.recent \in Seq(Event) /\ hub'.published \subseteq Event
    BY <1>1
  <2>2. {e.result : e \in hub.published} \subseteq Results
    BY DEF StreamInv, StreamShaped, Event
  <2>3. missed' \in [StreamClients -> SUBSET Results]
    BY <2>2 DEF RestartGateway, StreamInv, StreamShaped
  <2>4. stream' \in [StreamClients -> [at : {"away", "sse", "ws"}, after : Nat]]
    BY DEF RestartGateway, Gone
  <2> QED
    BY <2>1, <2>3, <2>4 DEF RestartGateway, StreamInv, StreamShaped
<1>3. \A c \in StreamClients : stream'[c].at = "away"
  BY DEF RestartGateway, Gone
<1>4. SlotsCounted'
  <2>1. Streaming' = {}
    BY <1>3 DEF Streaming, StreamClients
  <2> QED
    BY <2>1, FS_EmptySet, StreamAssumption DEF RestartGateway, SlotsCounted
<1>5. HubOrdered'
  <2>1. Len(hub'.recent) = 0 /\ DOMAIN hub'.recent = {}
    BY <1>1
  <2> QED
    BY <1>1, <2>1, StreamAssumption DEF HubOrdered
<1>6. \A c \in StreamClients : cursor'[c].life < life'
  BY DEF RestartGateway, StreamInv, StreamShaped, CursorsBehind
<1>7. CursorsBehind'
  BY <1>2, <1>3, <1>6 DEF CursorsBehind, StreamShaped, StreamClients
<1>8. NoGapBehindCursor'
  BY <1>1 DEF NoGapBehindCursor
<1> QED
  BY <1>2, <1>4, <1>5, <1>7, <1>8 DEF StreamInv

(* Trim drops at most the oldest event, and only from a full buffer.       *)
LEMMA TrimProperties ==
  ASSUME NEW recent \in Seq(Event), NEW e \in Event, Len(recent) <= RecentCapacity
  PROVE  \E shift \in {0, 1} :
           /\ shift = 1 <=> Len(recent) = RecentCapacity
           /\ Trim(Append(recent, e)) \in Seq(Event)
           /\ Len(Trim(Append(recent, e))) = Len(recent) + 1 - shift
           /\ \A i \in 1 .. Len(recent) + 1 - shift :
                Trim(Append(recent, e))[i] = IF i + shift = Len(recent) + 1 THEN e ELSE recent[i + shift]
<1> DEFINE all == Append(recent, e)
<1>1. /\ all \in Seq(Event) /\ Len(all) = Len(recent) + 1 /\ all # <<>> /\ Len(recent) \in Nat
      /\ \A i \in 1 .. Len(recent) + 1 : all[i] = IF i = Len(recent) + 1 THEN e ELSE recent[i]
  BY AppendProperties
<1> HIDE DEF all
<1>2. CASE Len(recent) = RecentCapacity
  <2>1. Trim(all) = Tail(all)
    BY <1>1, <1>2, StreamAssumption DEF Trim
  <2>2. /\ Tail(all) \in Seq(Event) /\ Len(Tail(all)) = Len(recent)
        /\ \A i \in 1 .. Len(recent) : Tail(all)[i] = all[i + 1]
    BY <1>1
  <2>3. \A i \in 1 .. Len(recent) : Tail(all)[i] = IF i + 1 = Len(recent) + 1 THEN e ELSE recent[i + 1]
    BY <1>1, <2>2
  <2> QED
    BY <1>1, <1>2, <2>1, <2>2, <2>3 DEF all
<1>3. CASE Len(recent) # RecentCapacity
  <2>1. Trim(all) = all
    BY <1>1, <1>3, StreamAssumption DEF Trim
  <2> QED
    BY <1>1, <1>3, <2>1 DEF all
<1> QED
  BY <1>2, <1>3

(* Publishing: the new event has the highest number, an evicted one counts *)
(* as missed, and only WebSockets hear it at once.                         *)
LEMMA ConsumeStep == StreamInv /\ ConsumeResult => StreamInv'
<1> SUFFICES ASSUME StreamInv, ConsumeResult PROVE StreamInv'
  OBVIOUS
<1> DEFINE e == [seq |-> hub.next, result |-> position + 1]
           gone == IF Len(hub.recent) = RecentCapacity THEN {Head(hub.recent)} ELSE {}
           new == Trim(Append(hub.recent, e))
<1>1. /\ e \in Event /\ e.seq = hub.next /\ e.result \in Results
  BY StreamAssumption DEF ConsumeResult, StreamInv, StreamShaped, Event, Results
<1>2. /\ hub'.next = hub.next + 1 /\ hub'.recent = new /\ hub'.published = hub.published \cup {e}
      /\ got' = [c \in StreamClients |-> IF Heard(c, e) THEN got[c] \cup {e.result} ELSE got[c]]
      /\ stream' = [c \in StreamClients |-> IF Heard(c, e) THEN [stream[c] EXCEPT !.after = e.seq]
                                            ELSE stream[c]]
      /\ cursor' = [c \in StreamClients |-> IF Heard(c, e) THEN Moved(c, e.seq) ELSE cursor[c]]
      /\ missed' = [c \in StreamClients |-> missed[c] \cup {d.result : d \in gone}]
      /\ UNCHANGED <<position, active, life>>
  BY DEF ConsumeResult
<1>3. /\ hub.recent \in Seq(Event) /\ Len(hub.recent) <= RecentCapacity /\ Len(hub.recent) \in Nat
      /\ hub.next \in Nat \ {0} /\ hub.published \subseteq Event
      /\ \A d \in hub.published : d.seq \in Nat /\ d.seq < hub.next /\ d.result \in Results
  BY DEF StreamInv, StreamShaped, HubOrdered, Event
<1> HIDE DEF e, new
<1>4. PICK shift \in {0, 1} :
        /\ shift = 1 <=> Len(hub.recent) = RecentCapacity
        /\ new \in Seq(Event) /\ Len(new) = Len(hub.recent) + 1 - shift
        /\ \A i \in 1 .. Len(hub.recent) + 1 - shift :
             new[i] = IF i + shift = Len(hub.recent) + 1 THEN e ELSE hub.recent[i + shift]
  BY <1>1, <1>3, TrimProperties DEF new
<1>5. gone \subseteq Event /\ (shift = 1 => gone = {hub.recent[1]})
  BY <1>3, <1>4, StreamAssumption
<1> HIDE DEF gone
<1>6. \A c \in SseClients : /\ c \in StreamClients /\ ~Heard(c, e)
                           /\ stream'[c] = stream[c] /\ cursor'[c] = cursor[c] /\ got'[c] = got[c]
  BY <1>2 DEF Heard, StreamInv, CursorsBehind, StreamClients
<1>7. StreamShaped'
  <2>1. hub'.next \in Nat \ {0} /\ hub'.recent \in Seq(Event) /\ hub'.published \subseteq Event
    BY <1>1, <1>2, <1>3, <1>4
  <2>2. stream' \in [StreamClients -> [at : {"away", "sse", "ws"}, after : Nat]]
    BY <1>1, <1>2, <1>3 DEF StreamInv, StreamShaped
  <2>3. \A c \in StreamClients : Moved(c, e.seq) \in [seq : Nat, life : Nat, clean : BOOLEAN]
    BY <1>1, <1>3 DEF Moved, StreamInv, StreamShaped
  <2>4. cursor' \in [StreamClients -> [seq : Nat, life : Nat, clean : BOOLEAN]]
    BY <1>2, <2>3 DEF StreamInv, StreamShaped
  <2>5. got' \in [StreamClients -> SUBSET Results]
    BY <1>1, <1>2 DEF StreamInv, StreamShaped
  <2>6. missed' \in [StreamClients -> SUBSET Results]
    <3>1. {d.result : d \in gone} \subseteq Results
      BY <1>5 DEF Event
    <3> QED
      BY <1>2, <3>1 DEF StreamInv, StreamShaped
  <2> QED
    BY <1>2, <2>1, <2>2, <2>4, <2>5, <2>6 DEF StreamInv, StreamShaped
<1>8. SlotsCounted'
  BY <1>2, <1>6, SameSlots DEF StreamInv
<1>9. HubOrdered'
  <2>0. DOMAIN new = 1 .. Len(hub.recent) + 1 - shift /\ DOMAIN hub.recent = 1 .. Len(hub.recent)
    BY <1>3, <1>4
  <2>1. Len(hub'.recent) <= RecentCapacity
    BY <1>2, <1>3, <1>4, StreamAssumption
  <2>2. \A d \in hub'.published : d.seq < hub'.next
    BY <1>1, <1>2, <1>3
  <2>3. ASSUME NEW i \in DOMAIN new PROVE new[i] \in hub'.published
    <3>1. CASE i + shift = Len(hub.recent) + 1
      BY <1>2, <1>4, <2>0, <3>1
    <3>2. CASE i + shift # Len(hub.recent) + 1
      <4>1. i + shift \in DOMAIN hub.recent /\ new[i] = hub.recent[i + shift]
        BY <1>3, <1>4, <2>0, <3>2
      <4> QED
        BY <1>2, <4>1 DEF StreamInv, HubOrdered
    <3> QED
      BY <3>1, <3>2
  <2>4. ASSUME NEW i \in DOMAIN new, NEW j \in DOMAIN new, i < j PROVE new[i].seq < new[j].seq
    <3>1. i + shift \in DOMAIN hub.recent /\ new[i] = hub.recent[i + shift] /\ i + shift < j + shift
      BY <1>3, <1>4, <2>0, <2>4
    <3>2. CASE j + shift = Len(hub.recent) + 1
      <4>1. new[j] = e /\ new[i] \in hub.published
        BY <1>4, <2>0, <3>1, <3>2 DEF StreamInv, HubOrdered
      <4> QED
        BY <1>1, <1>3, <4>1
    <3>3. CASE j + shift # Len(hub.recent) + 1
      <4>1. j + shift \in DOMAIN hub.recent /\ new[j] = hub.recent[j + shift]
        BY <1>3, <1>4, <2>0, <3>3
      <4> QED
        BY <3>1, <4>1 DEF StreamInv, HubOrdered
    <3> QED
      BY <3>2, <3>3
  <2>5. ASSUME NEW d \in hub'.published
        PROVE  \/ \E i \in DOMAIN new : new[i] = d
               \/ \A c \in StreamClients : d.result \in missed'[c]
    <3>1. CASE d = e
      <4>1. Len(hub.recent) + 1 - shift \in DOMAIN new /\ new[Len(hub.recent) + 1 - shift] = e
        BY <1>3, <1>4, <2>0, StreamAssumption
      <4> QED
        BY <3>1, <4>1
    <3>2. CASE d \in hub.published /\ \A c \in StreamClients : d.result \in missed[c]
      BY <1>2, <3>2
    <3>3. CASE \E i \in DOMAIN hub.recent : hub.recent[i] = d
      <4>1. PICK i \in DOMAIN hub.recent : hub.recent[i] = d
        BY <3>3
      <4>2. CASE i = 1 /\ shift = 1
        BY <1>2, <1>5, <4>1, <4>2
      <4>3. CASE ~(i = 1 /\ shift = 1)
        <5>1. i - shift \in DOMAIN new /\ (i - shift) + shift = i /\ i # Len(hub.recent) + 1
          BY <1>3, <1>4, <2>0, <4>1, <4>3
        <5> QED
          BY <1>4, <2>0, <4>1, <5>1
      <4> QED
        BY <4>2, <4>3
    <3> QED
      BY <1>2, <3>1, <3>2, <3>3 DEF StreamInv, HubOrdered
  <2> QED
    BY <1>2, <2>1, <2>2, <2>3, <2>4, <2>5 DEF HubOrdered
<1>10. CursorsBehind'
  <2>1. ASSUME NEW c \in StreamClients
        PROVE  cursor'[c].life <= life' /\ (cursor'[c].life = life' => cursor'[c].seq < hub'.next)
    <3>1. CASE Heard(c, e)
      <4>1. cursor'[c].life = life /\ cursor'[c].seq = hub.next
        BY <1>1, <1>2, <3>1 DEF Moved
      <4> QED
        BY <1>2, <1>3, <4>1 DEF StreamInv, StreamShaped
    <3>2. CASE ~Heard(c, e)
      <4>1. cursor'[c] = cursor[c]
        BY <1>2, <3>2
      <4> QED
        BY <1>2, <1>3, <4>1 DEF StreamInv, StreamShaped, CursorsBehind
    <3> QED
      BY <3>1, <3>2
  <2> QED
    BY <1>6, <2>1 DEF CursorsBehind, StreamInv
<1>11. NoGapBehindCursor'
  <2> SUFFICES ASSUME NEW c \in SseClients, cursor'[c].clean, cursor'[c].life = life',
                      NEW d \in hub'.published, d.seq <= cursor'[c].seq, For(c, d.result)
               PROVE  d.result \in got'[c] \cup missed'[c]
    BY DEF NoGapBehindCursor, For
  <2>1. cursor[c].seq < hub.next /\ cursor[c].seq \in Nat
    BY <1>2, <1>6 DEF StreamInv, StreamShaped, CursorsBehind
  <2>2. d \in hub.published
    <3>1. d # e
      <4>1. cursor'[c].seq = cursor[c].seq
        BY <1>6
      <4> QED
        BY <1>1, <1>3, <2>1, <4>1
    <3> QED
      BY <1>2, <3>1
  <2>3. d.result \in got[c] \cup missed[c]
    BY <1>2, <1>6, <2>2 DEF StreamInv, NoGapBehindCursor
  <2> QED
    BY <1>2, <1>6, <2>3
<1> QED
  BY <1>7, <1>8, <1>9, <1>10, <1>11 DEF StreamInv

(* The stream sends the first kept event after the cursor: whatever the    *)
(* hub published in between and the client follows was dropped before.     *)
LEMMA NextStep ==
  ASSUME StreamInv, NEW c \in SseClients, StreamNext(c)
  PROVE  StreamInv'
<1> DEFINE later == {i \in DOMAIN hub.recent :
                       hub.recent[i].seq > stream[c].after /\ For(c, hub.recent[i].result)}
<1>1. PICK k \in later :
        /\ \A o \in later : k <= o
        /\ stream' = [stream EXCEPT ![c].after = hub.recent[k].seq]
        /\ cursor' = [cursor EXCEPT ![c] = Moved(c, hub.recent[k].seq)]
        /\ got' = [got EXCEPT ![c] = @ \cup {hub.recent[k].result}]
  BY DEF StreamNext, NextFor
<1> DEFINE e == hub.recent[k]
<1>2. /\ c \in StreamClients /\ UNCHANGED <<position, hub, active, missed, life>>
      /\ stream[c].at = "sse" /\ stream[c].after = cursor[c].seq
  BY DEF StreamNext, StreamClients, StreamInv, CursorsBehind
<1>3. /\ k \in DOMAIN hub.recent /\ e \in hub.published /\ e.seq \in Nat /\ e.seq < hub.next
      /\ e.result \in Results /\ e.seq > stream[c].after
  BY <1>1 DEF StreamInv, StreamShaped, HubOrdered, Event
<1>4. /\ cursor'[c].seq = e.seq /\ cursor'[c].life = life
      /\ cursor'[c].clean = (cursor[c].clean /\ (cursor[c].seq = 0 \/ cursor[c].life = life))
      /\ stream'[c].at = "sse" /\ stream'[c].after = e.seq
      /\ got'[c] = got[c] \cup {e.result}
      /\ \A d \in StreamClients : d # c => cursor'[d] = cursor[d] /\ stream'[d] = stream[d] /\ got'[d] = got[d]
  BY <1>1, <1>2 DEF Moved, StreamInv, StreamShaped
<1> HIDE DEF e
<1>5. StreamShaped'
  <2>1. Moved(c, e.seq) \in [seq : Nat, life : Nat, clean : BOOLEAN]
    BY <1>3 DEF Moved, StreamInv, StreamShaped
  <2>2. cursor' \in [StreamClients -> [seq : Nat, life : Nat, clean : BOOLEAN]]
    BY <1>1, <2>1 DEF StreamInv, StreamShaped, e
  <2>3. stream' \in [StreamClients -> [at : {"away", "sse", "ws"}, after : Nat]]
    BY <1>1, <1>3 DEF StreamInv, StreamShaped, e
  <2>4. got' \in [StreamClients -> SUBSET Results]
    BY <1>1, <1>3 DEF StreamInv, StreamShaped, e
  <2> QED
    BY <1>2, <2>2, <2>3, <2>4 DEF StreamInv, StreamShaped
<1>6. SlotsCounted'
  <2>1. \A d \in SseClients : stream'[d].at = "sse" <=> stream[d].at = "sse"
    BY <1>2, <1>4 DEF StreamClients
  <2> QED
    BY <1>2, <2>1, SameSlots DEF StreamInv
<1>7. HubOrdered'
  BY <1>2 DEF StreamInv, HubOrdered
<1>8. CursorsBehind'
  <2>1. ASSUME NEW d \in StreamClients
        PROVE  cursor'[d].life <= life' /\ (cursor'[d].life = life' => cursor'[d].seq < hub'.next)
    <3>1. CASE d = c
      BY <1>2, <1>3, <1>4, <3>1 DEF StreamInv, StreamShaped
    <3>2. CASE d # c
      BY <1>2, <1>4, <3>2 DEF StreamInv, CursorsBehind
    <3> QED
      BY <3>1, <3>2
  <2>2. ASSUME NEW d \in SseClients
        PROVE  stream'[d].at # "ws" /\ (stream'[d].at = "sse" => stream'[d].after = cursor'[d].seq)
    <3>1. CASE d = c
      BY <1>4, <3>1
    <3>2. CASE d # c
      BY <1>4, <3>2 DEF StreamInv, CursorsBehind, StreamClients
    <3> QED
      BY <3>1, <3>2
  <2> QED
    BY <2>1, <2>2 DEF CursorsBehind
<1>9. NoGapBehindCursor'
  <2> SUFFICES ASSUME NEW d \in SseClients, cursor'[d].clean, cursor'[d].life = life',
                      NEW p \in hub'.published, p.seq <= cursor'[d].seq, For(d, p.result)
               PROVE  p.result \in got'[d] \cup missed'[d]
    BY DEF NoGapBehindCursor, For
  <2>0. p \in hub.published /\ p.seq \in Nat \ {0} /\ d \in StreamClients
    BY <1>2 DEF StreamInv, StreamShaped, Event, StreamClients
  <2>1. CASE d # c
    BY <1>2, <1>4, <2>0, <2>1 DEF StreamInv, NoGapBehindCursor
  <2>2. CASE d = c /\ p.seq <= cursor[c].seq
    <3>1. cursor[c].seq # 0
      BY <2>0, <2>2
    <3>2. cursor[c].clean /\ cursor[c].life = life
      BY <1>4, <2>2, <3>1
    <3> QED
      BY <1>2, <1>4, <2>0, <2>2, <3>2 DEF StreamInv, NoGapBehindCursor
  <2>3. CASE d = c /\ p.seq > cursor[c].seq
    <3>1. CASE \A x \in StreamClients : p.result \in missed[x]
      BY <1>2, <2>0, <3>1
    <3>2. CASE \E i \in DOMAIN hub.recent : hub.recent[i] = p
      <4>1. PICK i \in DOMAIN hub.recent : hub.recent[i] = p
        BY <3>2
      <4>2. i \in later
        BY <1>2, <2>3, <4>1
      <4>3. k <= i /\ p.seq <= e.seq
        BY <1>1, <1>4, <2>3, <4>2
      <4>4. i = k
        <5>1. i \in Nat /\ k \in Nat
          BY <1>3, <4>1 DEF StreamInv, StreamShaped
        <5>2. k < i => e.seq < p.seq
          BY <1>3, <4>1 DEF StreamInv, HubOrdered, e
        <5> QED
          BY <1>3, <2>0, <4>3, <5>1, <5>2
      <4> QED
        BY <1>4, <2>3, <4>1, <4>4 DEF e
    <3> QED
      BY <2>0, <3>1, <3>2 DEF StreamInv, HubOrdered
  <2>4. cursor[c].seq \in Nat
    BY <1>2 DEF StreamInv, StreamShaped
  <2> QED
    BY <2>0, <2>1, <2>2, <2>3, <2>4
<1> QED
  BY <1>5, <1>6, <1>7, <1>8, <1>9 DEF StreamInv

LEMMA StreamInvStep == StreamInv /\ [StreamStep]_streamVars => StreamInv'
<1> SUFFICES ASSUME StreamInv, [StreamStep]_streamVars PROVE StreamInv'
  OBVIOUS
<1>1. CASE UNCHANGED streamVars
  <2>1. StreamShaped' /\ HubOrdered' /\ NoGapBehindCursor' /\ CursorsBehind'
    BY <1>1 DEF streamVars, StreamInv, StreamShaped, HubOrdered, NoGapBehindCursor, CursorsBehind, For
  <2>2. SlotsCounted'
    BY <1>1, SameSlots DEF streamVars, StreamInv
  <2> QED
    BY <2>1, <2>2 DEF StreamInv
<1> QED
  BY <1>1, ConsumeStep, CommitStep, RestartStep, OpenStep, NextStep, EndStep, WsStep DEF StreamStep

(* A stream client that keeps its Last-Event-ID lacks, behind it, only     *)
(* what the hub had already dropped, over any number of reconnections to a *)
(* process; and the slots of REPLAY_SSE_MAX_STREAMS are counted right      *)
(* (ReplayResultsHub::Publish, FindNextLocked, active_streams).            *)
THEOREM StreamsLeaveNoGap == StreamSpec => []StreamSafety
  BY StreamInitInv, StreamInvStep, StreamInvSafe, PTL DEF StreamSpec
-----------------------------------------------------------------------------
-----------------------------------------------------------------------------
(* The REST API.  An answer about an order is true when it is given; it    *)
(* stays true because orders are only appended and cancelled, and because  *)
(* a call to cancel names an order that existed when it was sent.  What a  *)
(* command says of a session is not trusted: a session is sound because    *)
(* backtest looks at it, and a retry copies a session that is.             *)
RowStatus == {"none", "pending", "running"} \cup Terminal
SessionRow == [status : RowStatus, body : ApiBodies \cup {"none"}]
Ephemeral == [status : RowStatus \cup {"evicted"}, body : ApiBodies \cup {"none"}]
Command == [type : {"start"}, session : ReplayIds, report : ReplayIds, body : ApiBodies]
             \cup [type : {"retry"}, session : ReplayIds, report : ReplayIds, parent : ReplayIds]
             \cup [type : {"cancel"}, session : ReplayIds]
FlowOrder == [cid : ClientIds, client : Clients, status : {"new", "cancelled"}]

ShapedRequest(r) == /\ r.at \in {"idle", "called", "polling"}
                    /\ r.at = "called" => r.op \in {"create", "cancel"}
                    /\ r.at = "polling" => r.arg \in ReplayIds

RequestsShaped == DOMAIN request = Clients /\ \A c \in Clients : ShapedRequest(request[c])

SessionsShaped == sessionRows \in [ReplayIds -> SessionRow] /\ unpersisted \in [ReplayIds -> Ephemeral]

ApiShaped ==
  /\ RequestsShaped /\ SessionsShaped
  /\ orders \in Seq(FlowOrder)
  /\ outbox \in Seq(Command) /\ commands \in Seq(Command)
  /\ handled \in 0 .. Len(commands)

CallsAreOfClients ==
  \A call \in calls : /\ call.client \in Clients
                      /\ call.op = "create" => call.arg \in ClientIds
                      /\ call.op = "cancel" => call.arg \in 1 .. Len(orders)

TrueAnswer(a, placed) ==
  /\ a.client \in Clients
  /\ a.op = "create" /\ a.ok => a.id \in 1 .. Len(placed) /\ placed[a.id].cid = a.cid
  /\ a.op = "cancel" /\ a.ok => a.id \in 1 .. Len(placed) /\ placed[a.id].status = "cancelled"
  /\ a.op \in {"start", "stop", "retry"} => a.session \in ReplayIds

ApiInv ==
  /\ ApiShaped
  /\ CallsAreOfClients
  /\ \A a \in told : TrueAnswer(a, orders)
  /\ SessionsAreSound

LEMMA ApiInitInv == ASSUME ApiInit PROVE ApiInv
<1>1. orders = <<>> /\ outbox = <<>> /\ commands = <<>> /\ handled = 0
  BY DEF ApiInit
<1>2. RequestsShaped
  BY DEF ApiInit, RequestsShaped, ShapedRequest, Quiet
<1>3. SessionsShaped
  BY DEF ApiInit, SessionsShaped, NoSession, SessionRow, Ephemeral, RowStatus
<1>4. SessionsAreSound
  BY DEF ApiInit, SessionsAreSound, NoSession
<1> QED
  BY <1>1, <1>2, <1>3, <1>4 DEF ApiInit, ApiInv, ApiShaped, CallsAreOfClients

LEMMA ApiInvSafe == ASSUME ApiInv PROVE ApiSafety
<1>0. DOMAIN orders = 1 .. Len(orders)
  BY DEF ApiInv, ApiShaped
<1>1. ApiTypeOK
  <2>1. \A s \in ReplayIds : sessionRows[s].status \in RowStatus
                            /\ unpersisted[s].status \in RowStatus \cup {"evicted"}
    BY DEF ApiInv, ApiShaped, SessionsShaped, SessionRow, Ephemeral
  <2> QED
    BY <2>1 DEF ApiInv, ApiShaped, RequestsShaped, ShapedRequest, ApiTypeOK, TrueAnswer, RowStatus
<1>2. ToldOrdersExist
  BY <1>0 DEF ApiInv, ToldOrdersExist, TrueAnswer
<1> QED
  BY <1>1, <1>2 DEF ApiSafety, ApiInv

(* What answers and calls say stays true when orders are only appended or  *)
(* cancelled.                                                              *)
OrdersGrow ==
  /\ Len(orders) <= Len(orders') /\ Len(orders) \in Nat /\ Len(orders') \in Nat
  /\ \A i \in 1 .. Len(orders) : /\ orders'[i].cid = orders[i].cid
                                 /\ orders[i].status = "cancelled" => orders'[i].status = "cancelled"

LEMMA AnswersStayTrue ==
  ASSUME OrdersGrow, NEW a, TrueAnswer(a, orders)
  PROVE  TrueAnswer(a, orders')
  BY DEF OrdersGrow, TrueAnswer

LEMMA SameOrdersGrow == ASSUME ApiShaped, UNCHANGED orders PROVE OrdersGrow
  BY DEF ApiShaped, OrdersGrow

(* A connection waits for something else, or for nothing.                  *)
LEMMA OneRequest ==
  ASSUME RequestsShaped, NEW c \in Clients, NEW r, ShapedRequest(r), request' = [request EXCEPT ![c] = r]
  PROVE  RequestsShaped'
  BY DEF RequestsShaped, ShapedRequest

LEMMA QuietShaped == ShapedRequest(Quiet)
  BY DEF ShapedRequest, Quiet

LEMMA AnswerShaped ==
  ASSUME ApiShaped, CallsAreOfClients, NEW call \in calls, NEW a, AnswerTo(call, a)
  PROVE  RequestsShaped' /\ told' \subseteq told \cup {a}
<1>1. CASE Current(call)
  <2>1. request' = [request EXCEPT ![call.client] = Quiet] /\ told' = told \cup {a}
    BY <1>1 DEF AnswerTo, Tell
  <2>2. call.client \in Clients
    BY DEF CallsAreOfClients
  <2>3. RequestsShaped'
    BY <2>1, <2>2, QuietShaped, OneRequest DEF ApiShaped
  <2> QED
    BY <2>1, <2>3
<1>2. CASE ~Current(call)
  BY <1>2 DEF AnswerTo, ApiShaped, RequestsShaped, ShapedRequest
<1> QED
  BY <1>1, <1>2

(* What a step has to keep when it gives the answer `a', or none.          *)
LEMMA ApiKept ==
  ASSUME ApiInv, OrdersGrow, ApiShaped', CallsAreOfClients', SessionsAreSound',
         NEW a, told' \subseteq told \/ (told' \subseteq told \cup {a} /\ TrueAnswer(a, orders'))
  PROVE  ApiInv'
<1>1. ASSUME NEW x \in told' PROVE TrueAnswer(x, orders')
  <2>1. CASE x \in told
    BY <2>1, AnswersStayTrue DEF ApiInv
  <2>2. CASE x \notin told
    BY <2>2
  <2> QED
    BY <2>1, <2>2
<1> QED
  BY <1>1 DEF ApiInv

LEMMA SameSessions ==
  ASSUME SessionsShaped, SessionsAreSound, UNCHANGED <<sessionRows, unpersisted>>
  PROVE  SessionsShaped' /\ SessionsAreSound'
  BY DEF SessionsShaped, SessionsAreSound

LEMMA CallsServed ==
  ASSUME ApiInv, OrdersGrow, calls' \subseteq calls
  PROVE  CallsAreOfClients'
  BY DEF ApiInv, CallsAreOfClients, OrdersGrow

LEMMA OrderCalls ==
  ASSUME ApiInv, NEW c \in Clients,
         \/ \E cid \in ClientIds : CallCreate(c, cid)
         \/ \E id \in DOMAIN orders : CallCancel(c, id)
         \/ CallBreaks(c) \/ ListOrders(c)
  PROVE  ApiInv'
<1>0. /\ ApiShaped /\ CallsAreOfClients /\ DOMAIN orders = 1 .. Len(orders)
  BY DEF ApiInv, ApiShaped
<1>1. UNCHANGED <<orders, outbox, commands, handled, sessionRows, unpersisted>>
  BY DEF CallCreate, CallCancel, CallBreaks, ListOrders, replayVars
<1>2. OrdersGrow
  BY <1>0, <1>1, SameOrdersGrow
<1>3. ASSUME NEW r, ShapedRequest(r), request' = [request EXCEPT ![c] = r]
      PROVE  ApiShaped' /\ SessionsAreSound'
  <2>1. RequestsShaped' /\ SessionsShaped' /\ SessionsAreSound'
    BY <1>0, <1>1, <1>3, OneRequest, SameSessions DEF ApiInv, ApiShaped
  <2> QED
    BY <1>0, <1>1, <2>1 DEF ApiShaped
<1>4. ASSUME NEW cid \in ClientIds, CallCreate(c, cid) PROVE ApiInv'
  <2> DEFINE r == [op |-> "create", arg |-> cid, at |-> "called", nr |-> apiCount.posts]
             k == [client |-> c, op |-> "create", arg |-> cid, nr |-> apiCount.posts]
  <2>1. request' = [request EXCEPT ![c] = r] /\ calls' = calls \cup {k} /\ UNCHANGED told
    BY <1>4 DEF CallCreate, Ask
  <2>2. ApiShaped' /\ SessionsAreSound'
    <3>1. ShapedRequest(r)
      BY DEF ShapedRequest
    <3> QED
      BY <1>3, <2>1, <3>1
  <2>3. CallsAreOfClients'
    BY <1>0, <1>1, <2>1 DEF CallsAreOfClients
  <2>4. told' \subseteq told
    BY <2>1
  <2> QED
    BY <1>0, <1>1, <1>2, <2>2, <2>3, <2>4, ApiKept
<1>5. ASSUME NEW id \in DOMAIN orders, CallCancel(c, id) PROVE ApiInv'
  <2> DEFINE r == [op |-> "cancel", arg |-> id, at |-> "called", nr |-> apiCount.posts]
             k == [client |-> c, op |-> "cancel", arg |-> id, nr |-> apiCount.posts]
  <2>1. request' = [request EXCEPT ![c] = r] /\ calls' = calls \cup {k} /\ UNCHANGED told
    BY <1>5 DEF CallCancel, Ask
  <2>2. ApiShaped' /\ SessionsAreSound'
    <3>1. ShapedRequest(r)
      BY DEF ShapedRequest
    <3> QED
      BY <1>3, <2>1, <3>1
  <2>3. CallsAreOfClients'
    BY <1>0, <1>1, <2>1 DEF CallsAreOfClients
  <2>4. told' \subseteq told
    BY <2>1
  <2> QED
    BY <1>0, <1>1, <1>2, <2>2, <2>3, <2>4, ApiKept
<1>6. CASE CallBreaks(c)
  <2> DEFINE a == GrpcError(c)
  <2>1. request' = [request EXCEPT ![c] = Quiet] /\ told' = told \cup {a} /\ calls' \subseteq calls
    BY <1>6 DEF CallBreaks, Tell
  <2>2. ApiShaped' /\ SessionsAreSound'
    BY <1>3, <2>1, QuietShaped
  <2>3. CallsAreOfClients'
    BY <1>2, <2>1, CallsServed
  <2>4. a.client = c /\ a.ok = FALSE /\ a.op \in {"create", "cancel"}
    BY <1>0, <1>6 DEF GrpcError, CallBreaks, ApiShaped, RequestsShaped, ShapedRequest
  <2> HIDE DEF a
  <2>5. TrueAnswer(a, orders')
    BY <2>4 DEF TrueAnswer
  <2> QED
    BY <1>0, <1>1, <1>2, <2>1, <2>2, <2>3, <2>5, ApiKept
<1>7. CASE ListOrders(c)
  <2>1. PICK broken \in BOOLEAN :
          /\ Ask(c, "list", "none", "idle")
          /\ told' = told \cup {[client |-> c, op |-> "list", broken |-> broken,
                                 ids |-> IF broken THEN {}
                                         ELSE {i \in DOMAIN orders : orders[i].client = c}]}
    BY <1>7 DEF ListOrders
  <2> DEFINE r == [op |-> "list", arg |-> "none", at |-> "idle", nr |-> apiCount.posts]
             a == [client |-> c, op |-> "list", broken |-> broken,
                   ids |-> IF broken THEN {} ELSE {i \in DOMAIN orders : orders[i].client = c}]
  <2>2. request' = [request EXCEPT ![c] = r] /\ told' = told \cup {a} /\ UNCHANGED calls
    BY <1>7, <2>1 DEF ListOrders, Ask
  <2>3. ShapedRequest(r) /\ a.client = c /\ a.op = "list"
    BY DEF ShapedRequest
  <2> HIDE DEF r, a
  <2>4. ApiShaped' /\ SessionsAreSound'
    BY <1>3, <2>2, <2>3
  <2>5. CallsAreOfClients'
    BY <1>2, <2>2, CallsServed
  <2>6. TrueAnswer(a, orders')
    BY <2>3 DEF TrueAnswer
  <2> QED
    BY <1>0, <1>1, <1>2, <2>2, <2>4, <2>5, <2>6, ApiKept
<1> QED
  BY <1>4, <1>5, <1>6, <1>7

(* order_flow serves a call, perhaps long after gateway gave up on it.     *)
LEMMA CallServed ==
  ASSUME ApiInv, NEW call \in calls, ServeCreate(call) \/ ServeCancel(call)
  PROVE  ApiInv'
<1>0. /\ ApiShaped /\ CallsAreOfClients /\ orders \in Seq(FlowOrder)
  BY DEF ApiInv, ApiShaped
<1>1. /\ UNCHANGED <<outbox, commands, handled, sessionRows, unpersisted>> /\ calls' \subseteq calls
      /\ call.client \in Clients
  BY <1>0 DEF ServeCreate, ServeCancel, CallsAreOfClients, replayVars
<1>2. ASSUME NEW a, AnswerTo(call, a), OrdersGrow, orders' \in Seq(FlowOrder), TrueAnswer(a, orders')
      PROVE  ApiInv'
  <2>1. RequestsShaped' /\ told' \subseteq told \cup {a}
    BY <1>0, <1>2, AnswerShaped
  <2>2. ApiShaped' /\ SessionsAreSound'
    <3>1. SessionsShaped' /\ SessionsAreSound'
      BY <1>1, SameSessions DEF ApiInv, ApiShaped
    <3> QED
      BY <1>0, <1>1, <1>2, <2>1, <3>1 DEF ApiShaped
  <2>3. CallsAreOfClients'
    BY <1>1, <1>2, CallsServed
  <2> QED
    BY <1>0, <1>1, <1>2, <2>1, <2>2, <2>3, ApiKept
<1>3. CASE ServeCreate(call)
  <2>1. CASE UNCHANGED orders /\ AnswerTo(call, [client |-> call.client, op |-> "create", ok |-> FALSE,
                                                id |-> 0, cid |-> call.arg])
    <3> DEFINE a == [client |-> call.client, op |-> "create", ok |-> FALSE, id |-> 0, cid |-> call.arg]
    <3>1. a.client = call.client /\ a.ok = FALSE /\ a.op = "create" /\ AnswerTo(call, a)
      BY <2>1
    <3> HIDE DEF a
    <3>2. TrueAnswer(a, orders')
      BY <1>1, <3>1 DEF TrueAnswer
    <3>3. orders' \in Seq(FlowOrder) /\ OrdersGrow
      BY <1>0, <2>1, SameOrdersGrow
    <3> QED
      BY <1>2, <3>1, <3>2, <3>3
  <2>2. CASE /\ orders' = Append(orders, [cid |-> call.arg, client |-> call.client, status |-> "new"])
             /\ AnswerTo(call, [client |-> call.client, op |-> "create", ok |-> TRUE,
                                id |-> Len(orders) + 1, cid |-> call.arg])
    <3> DEFINE a == [client |-> call.client, op |-> "create", ok |-> TRUE, id |-> Len(orders) + 1,
                     cid |-> call.arg]
               o == [cid |-> call.arg, client |-> call.client, status |-> "new"]
    <3>1. o \in FlowOrder /\ o.cid = call.arg
      BY <1>0, <1>1, <1>3 DEF FlowOrder, CallsAreOfClients, ServeCreate
    <3>2. /\ a.client = call.client /\ a.op = "create" /\ a.id = Len(orders) + 1 /\ a.cid = call.arg
          /\ AnswerTo(call, a) /\ orders' = Append(orders, o)
      BY <2>2
    <3> HIDE DEF a, o
    <3>3. /\ orders' \in Seq(FlowOrder) /\ Len(orders') = Len(orders) + 1 /\ Len(orders) \in Nat
          /\ orders'[Len(orders) + 1] = o
          /\ \A i \in 1 .. Len(orders) : orders'[i] = orders[i]
      BY <1>0, <3>1, <3>2, AppendProperties
    <3>4. OrdersGrow
      BY <3>3 DEF OrdersGrow
    <3>5. TrueAnswer(a, orders')
      BY <1>1, <3>1, <3>2, <3>3 DEF TrueAnswer
    <3> QED
      BY <1>2, <3>2, <3>3, <3>4, <3>5
  <2> QED
    BY <1>3, <2>1, <2>2 DEF ServeCreate
<1>4. CASE ServeCancel(call)
  <2> DEFINE a == [client |-> call.client, op |-> "cancel", ok |-> TRUE, id |-> call.arg, cid |-> "none"]
             n == call.arg
  <2>1. /\ a.client = call.client /\ a.op = "cancel" /\ a.id = n
        /\ AnswerTo(call, a) /\ orders' = [orders EXCEPT ![n].status = "cancelled"]
        /\ n \in 1 .. Len(orders)
    BY <1>0, <1>4 DEF ServeCancel, CallsAreOfClients
  <2> HIDE DEF a, n
  <2>2. \A i \in 1 .. Len(orders) : orders[i] \in FlowOrder
    BY <1>0
  <2>3. /\ DOMAIN orders' = 1 .. Len(orders) /\ Len(orders) \in Nat
        /\ \A i \in 1 .. Len(orders) :
             orders'[i] = IF i = n THEN [orders[n] EXCEPT !.status = "cancelled"] ELSE orders[i]
    BY <1>0, <2>1
  <2>4. \A i \in 1 .. Len(orders) :
          /\ orders'[i] \in FlowOrder /\ orders'[i].cid = orders[i].cid
          /\ orders'[i].status = IF i = n THEN "cancelled" ELSE orders[i].status
    BY <2>2, <2>3 DEF FlowOrder
  <2>5. orders' = [i \in 1 .. Len(orders) |-> orders'[i]]
    BY <1>0, <2>1, <2>3
  <2>6. orders' \in Seq(FlowOrder) /\ Len(orders') = Len(orders)
    <3>1. orders' \in [1 .. Len(orders) -> FlowOrder]
      BY <2>4, <2>5
    <3>2. orders' \in Seq(FlowOrder)
      BY <2>3, <3>1, SeqDef
    <3> QED
      BY <2>3, <3>2
  <2>7. OrdersGrow
    BY <2>3, <2>4, <2>6 DEF OrdersGrow
  <2>8. TrueAnswer(a, orders')
    BY <1>1, <2>1, <2>4, <2>6 DEF TrueAnswer
  <2> QED
    BY <1>2, <2>1, <2>6, <2>7, <2>8
<1> QED
  BY <1>3, <1>4

(* Requests about replay sessions: what is published may be anything, but  *)
(* it names sessions that were heard of, or fresh ones.                    *)
LEMMA KnownAreIds == ASSUME ApiInv PROVE KnownIds \cup FreshIds \subseteq ReplayIds
  BY DEF ApiInv, TrueAnswer, KnownIds, FreshIds

LEMMA OneCommand ==
  ASSUME outbox \in Seq(Command), NEW k \in Command, NEW accepted, Enqueue(k, accepted)
  PROVE  outbox' \in Seq(Command)
  BY AppendProperties DEF Enqueue

LEMMA PostCommandKept ==
  ASSUME ApiInv, NEW c \in Clients, NEW op \in {"start", "stop", "retry"}, NEW k \in Command,
         NEW r \in ReplayIds, NEW ids, NEW accepted, PostCommand(c, op, k, r, ids, accepted)
  PROVE  ApiInv'
<1> DEFINE a == SessionAnswer(c, op, k.session, r, accepted, Shown(op, k.session, accepted))
           x == [op |-> op, arg |-> k.session, at |-> "idle", nr |-> apiCount.posts]
<1>1. /\ UNCHANGED <<calls, orders, commands, handled, sessionRows, unpersisted>>
      /\ told' = told \cup {a} /\ request' = [request EXCEPT ![c] = x] /\ Enqueue(k, accepted)
  BY DEF PostCommand, Ask
<1>2. k.session \in ReplayIds
  BY DEF Command
<1>3. ShapedRequest(x) /\ a.client = c /\ a.op = op /\ a.session \in ReplayIds
  BY <1>2 DEF ShapedRequest, SessionAnswer
<1> HIDE DEF a, x
<1>4. TrueAnswer(a, orders')
  BY <1>3 DEF TrueAnswer
<1>5. RequestsShaped' /\ SessionsShaped' /\ SessionsAreSound' /\ outbox' \in Seq(Command)
  BY <1>1, <1>3, OneRequest, OneCommand, SameSessions DEF ApiInv, ApiShaped
<1>6. ApiShaped'
  BY <1>1, <1>5 DEF ApiInv, ApiShaped
<1>7. OrdersGrow /\ CallsAreOfClients'
  BY <1>1, SameOrdersGrow, CallsServed DEF ApiInv
<1> QED
  BY <1>1, <1>4, <1>5, <1>6, <1>7, ApiKept

LEMMA PollStep == ASSUME ApiInv, NEW c \in Clients, PollEnds(c) PROVE ApiInv'
<1>1. PICK row : Tell(c, SessionAnswer(c, "start", request[c].arg, request[c].arg, TRUE, row))
  BY DEF PollEnds
<1> DEFINE a == SessionAnswer(c, "start", request[c].arg, request[c].arg, TRUE, row)
<1>2. /\ UNCHANGED <<calls, orders, outbox, commands, handled, sessionRows, unpersisted>>
      /\ request[c].at = "polling"
  BY DEF PollEnds, replayVars
<1>3. told' = told \cup {a} /\ request' = [request EXCEPT ![c] = Quiet]
  BY <1>1 DEF Tell
<1>4. a.client = c /\ a.op = "start" /\ a.session \in ReplayIds
  BY <1>2 DEF SessionAnswer, ApiInv, ApiShaped, RequestsShaped, ShapedRequest
<1> HIDE DEF a
<1>5. TrueAnswer(a, orders')
  BY <1>4 DEF TrueAnswer
<1>6. RequestsShaped' /\ SessionsShaped' /\ SessionsAreSound'
  BY <1>2, <1>3, QuietShaped, OneRequest, SameSessions DEF ApiInv, ApiShaped
<1>7. ApiShaped'
  BY <1>2, <1>6 DEF ApiInv, ApiShaped
<1>8. OrdersGrow /\ CallsAreOfClients'
  BY <1>2, SameOrdersGrow, CallsServed DEF ApiInv
<1> QED
  BY <1>3, <1>5, <1>6, <1>7, <1>8, ApiKept

LEMMA PostSessionStep ==
  ASSUME ApiInv, NEW c \in Clients, NEW body \in ApiBodies, PostSession(c, body)
  PROVE  ApiInv'
<1>1. PICK s \in FreshIds :
        LET k == [type |-> "start", session |-> s, report |-> s, body |-> body]
        IN  \/ /\ Ask(c, "start", s, "polling") /\ Enqueue(k, TRUE)
               /\ UNCHANGED <<calls, orders, commands, handled, sessionRows, unpersisted, told>>
            \/ PostCommand(c, "start", k, s, {s}, FALSE)
  BY DEF PostSession
<1> DEFINE k == [type |-> "start", session |-> s, report |-> s, body |-> body]
           x == [op |-> "start", arg |-> s, at |-> "polling", nr |-> apiCount.posts]
<1>2. s \in ReplayIds /\ k \in Command
  BY DEF FreshIds, Command
<1>3. ShapedRequest(x)
  BY <1>2 DEF ShapedRequest
<1>4. CASE /\ Ask(c, "start", s, "polling") /\ Enqueue(k, TRUE)
           /\ UNCHANGED <<calls, orders, commands, handled, sessionRows, unpersisted, told>>
  <2>1. request' = [request EXCEPT ![c] = x]
    BY <1>4 DEF Ask
  <2> HIDE DEF k, x
  <2>2. RequestsShaped' /\ SessionsShaped' /\ SessionsAreSound' /\ outbox' \in Seq(Command)
    BY <1>2, <1>3, <1>4, <2>1, OneRequest, OneCommand, SameSessions DEF ApiInv, ApiShaped
  <2>3. ApiShaped'
    BY <1>4, <2>2 DEF ApiInv, ApiShaped
  <2>4. OrdersGrow /\ CallsAreOfClients'
    BY <1>4, SameOrdersGrow, CallsServed DEF ApiInv
  <2> QED
    BY <1>4, <2>2, <2>3, <2>4, ApiKept
<1>5. CASE PostCommand(c, "start", k, s, {s}, FALSE)
  BY <1>2, <1>5, PostCommandKept
<1> QED
  BY <1>1, <1>4, <1>5

LEMMA SessionCalls ==
  ASSUME ApiInv, NEW c \in Clients, ReplayRequest(c)
  PROVE  ApiInv'
<1>0. KnownIds \cup FreshIds \subseteq ReplayIds
  BY KnownAreIds
<1>1. ASSUME NEW body \in ApiBodies, RawStart(c, body) PROVE ApiInv'
  <2>1. PICK s \in KnownIds \cup FreshIds, r \in KnownIds \cup FreshIds, accepted \in BOOLEAN :
          PostCommand(c, "start", [type |-> "start", session |-> s, report |-> r, body |-> body],
                      r, {s, r}, accepted)
    BY <1>1 DEF RawStart
  <2>2. [type |-> "start", session |-> s, report |-> r, body |-> body] \in Command /\ r \in ReplayIds
    BY <1>0 DEF Command
  <2> QED
    BY <2>1, <2>2, PostCommandKept
<1>2. ASSUME NEW p \in KnownIds, Retry(c, p) PROVE ApiInv'
  <2>1. PICK s \in KnownIds \cup FreshIds, r \in KnownIds \cup FreshIds, accepted \in BOOLEAN :
          PostCommand(c, "retry", [type |-> "retry", session |-> s, report |-> r, parent |-> p],
                      r, {s, r}, accepted)
    BY <1>2 DEF Retry
  <2>2. [type |-> "retry", session |-> s, report |-> r, parent |-> p] \in Command /\ r \in ReplayIds
    BY <1>0 DEF Command
  <2> QED
    BY <2>1, <2>2, PostCommandKept
<1>3. ASSUME NEW s \in KnownIds, DeleteSession(c, s) PROVE ApiInv'
  <2>1. PICK accepted \in BOOLEAN :
          PostCommand(c, "stop", [type |-> "cancel", session |-> s], s, {}, accepted)
    BY <1>3 DEF DeleteSession
  <2>2. [type |-> "cancel", session |-> s] \in Command /\ s \in ReplayIds
    BY <1>0 DEF Command
  <2> QED
    BY <2>1, <2>2, PostCommandKept
<1> QED
  BY <1>1, <1>2, <1>3, PollStep, PostSessionStep DEF ReplayRequest

(* The sessions of backtest: what becomes of one.                          *)
SoundSession(x) ==
  x.status # "none" => (\A leg \in x.body.legs : ValidLeg(leg)) /\ x.body.from.day <= x.body.to.day

LEMMA OneRow ==
  ASSUME SessionsShaped, SessionsAreSound, NEW s \in ReplayIds, NEW x \in SessionRow, SoundSession(x),
         sessionRows' = [sessionRows EXCEPT ![s] = x], UNCHANGED unpersisted
  PROVE  SessionsShaped' /\ SessionsAreSound'
<1>1. \A q \in ReplayIds : sessionRows'[q] = IF q = s THEN x ELSE sessionRows[q]
  BY DEF SessionsShaped
<1>2. SessionsShaped'
  BY DEF SessionsShaped
<1> QED
  BY <1>1, <1>2 DEF SessionsAreSound, SoundSession

LEMMA OneEphemeral ==
  ASSUME SessionsShaped, SessionsAreSound, NEW s \in ReplayIds, NEW x \in Ephemeral, SoundSession(x),
         unpersisted' = [unpersisted EXCEPT ![s] = x], UNCHANGED sessionRows
  PROVE  SessionsShaped' /\ SessionsAreSound'
<1>1. \A q \in ReplayIds : unpersisted'[q] = IF q = s THEN x ELSE unpersisted[q]
  BY DEF SessionsShaped
<1>2. SessionsShaped'
  BY DEF SessionsShaped
<1> QED
  BY <1>1, <1>2 DEF SessionsAreSound, SoundSession

LEMMA StatusChanges ==
  ASSUME SessionsShaped, SessionsAreSound, NEW s \in ReplayIds,
         NEW status \in (RowStatus \ {"none"}) \cup {"evicted"}, SetStatus(s, status),
         Held(s).status # "none", status = "evicted" => ~Absent(unpersisted[s])
  PROVE  SessionsShaped' /\ SessionsAreSound'
<1>1. /\ sessionRows[s] \in SessionRow /\ unpersisted[s] \in Ephemeral
      /\ SoundSession(sessionRows[s]) /\ SoundSession(unpersisted[s])
  BY DEF SessionsShaped, SessionsAreSound, SoundSession
<1>2. CASE Absent(unpersisted[s])
  <2> DEFINE x == [sessionRows[s] EXCEPT !.status = status]
  <2>1. sessionRows' = [sessionRows EXCEPT ![s] = x] /\ UNCHANGED unpersisted
    BY <1>2 DEF SetStatus
  <2>2. x \in SessionRow /\ x.body = sessionRows[s].body
    BY <1>1, <1>2 DEF SessionRow
  <2>3. sessionRows[s].status # "none"
    BY <1>2 DEF Held
  <2>4. SoundSession(x)
    BY <1>1, <2>2, <2>3 DEF SoundSession
  <2> HIDE DEF x
  <2> QED
    BY <2>1, <2>2, <2>4, OneRow
<1>3. CASE ~Absent(unpersisted[s])
  <2> DEFINE x == [unpersisted[s] EXCEPT !.status = status]
  <2>1. unpersisted' = [unpersisted EXCEPT ![s] = x] /\ UNCHANGED sessionRows
    BY <1>3 DEF SetStatus
  <2>2. x \in Ephemeral /\ x.body = unpersisted[s].body
    BY <1>1 DEF Ephemeral
  <2>3. unpersisted[s].status # "none"
    BY <1>3 DEF Absent
  <2>4. SoundSession(x)
    BY <1>1, <2>2, <2>3 DEF SoundSession
  <2> HIDE DEF x
  <2> QED
    BY <2>1, <2>2, <2>4, OneEphemeral
<1> QED
  BY <1>2, <1>3

(* What the consumer takes is a command, and it takes it once.             *)
LEMMA TakenCommand ==
  ASSUME ApiShaped, NEW types, Taking(types)
  PROVE  NextCommand \in Command /\ NextCommand.type \in types /\ handled' \in 0 .. Len(commands)
  BY DEF ApiShaped, Taking, NextCommand

LEMMA StartStep ==
  ASSUME ApiInv, StartReplay
  PROVE  SessionsShaped' /\ SessionsAreSound' /\ handled' \in 0 .. Len(commands)
<1> DEFINE k == NextCommand
           s == k.session
           new == [status |-> "pending", body |-> k.body]
<1>1. k \in Command /\ k.type = "start" /\ handled' \in 0 .. Len(commands) /\ Acceptable(k.body)
  BY TakenCommand DEF StartReplay, ApiInv, ApiShaped
<1>2. s \in ReplayIds /\ k.body \in ApiBodies
  BY <1>1 DEF Command
<1>3. new \in SessionRow /\ new \in Ephemeral /\ new.status = "pending" /\ new.body = k.body
  BY <1>2 DEF SessionRow, Ephemeral, RowStatus
<1>4. SoundSession(new)
  BY <1>1, <1>3 DEF SoundSession, Acceptable, ValidRest, ValidStrategy
<1>5. \/ sessionRows' = [sessionRows EXCEPT ![s] = new] /\ UNCHANGED unpersisted
      \/ /\ unpersisted' = [unpersisted EXCEPT ![s] = IF Absent(@) THEN new ELSE @]
         /\ UNCHANGED sessionRows
  BY DEF StartReplay
<1> HIDE DEF k, s, new
<1>6. /\ SessionsShaped /\ SessionsAreSound
      /\ unpersisted[s] \in Ephemeral /\ SoundSession(unpersisted[s])
  BY <1>2 DEF ApiInv, ApiShaped, SessionsShaped, SessionsAreSound, SoundSession
<1>7. CASE sessionRows' = [sessionRows EXCEPT ![s] = new] /\ UNCHANGED unpersisted
  BY <1>1, <1>2, <1>3, <1>4, <1>6, <1>7, OneRow
<1>8. CASE /\ unpersisted' = [unpersisted EXCEPT ![s] = IF Absent(@) THEN new ELSE @]
           /\ UNCHANGED sessionRows
  <2> DEFINE x == IF Absent(unpersisted[s]) THEN new ELSE unpersisted[s]
  <2>1. unpersisted' = [unpersisted EXCEPT ![s] = x] /\ x \in Ephemeral /\ SoundSession(x)
    BY <1>3, <1>4, <1>6, <1>8
  <2> HIDE DEF x
  <2> QED
    BY <1>1, <1>2, <1>6, <1>8, <2>1, OneEphemeral
<1> QED
  BY <1>5, <1>7, <1>8

LEMMA RetryStep ==
  ASSUME ApiInv, RetryReplay
  PROVE  SessionsShaped' /\ SessionsAreSound' /\ handled' \in 0 .. Len(commands)
<1> DEFINE k == NextCommand
           s == k.session
           parent == Held(k.parent)
           new == [status |-> "pending", body |-> parent.body]
<1>1. k \in Command /\ k.type = "retry" /\ handled' \in 0 .. Len(commands)
  BY TakenCommand DEF RetryReplay, ApiInv, ApiShaped
<1>2. s \in ReplayIds /\ k.parent \in ReplayIds
  BY <1>1 DEF Command
<1>3. /\ parent.status \in {"failed", "cancelled"}
      /\ sessionRows' = [sessionRows EXCEPT ![s] = new] /\ UNCHANGED unpersisted
  BY DEF RetryReplay
<1>4. parent.body \in ApiBodies \cup {"none"} /\ SoundSession(parent)
  BY <1>2 DEF ApiInv, ApiShaped, SessionsShaped, SessionsAreSound, SoundSession, Held, SessionRow, Ephemeral
<1>5. new \in SessionRow /\ new.status = "pending" /\ new.body = parent.body
  BY <1>4 DEF SessionRow, RowStatus
<1>6. SoundSession(new)
  BY <1>3, <1>4, <1>5 DEF SoundSession
<1> HIDE DEF k, s, parent, new
<1>7. SessionsShaped' /\ SessionsAreSound'
  BY <1>2, <1>3, <1>5, <1>6, OneRow DEF ApiInv, ApiShaped
<1> QED
  BY <1>1, <1>7

LEMMA CancelStep ==
  ASSUME ApiInv, CancelReplay
  PROVE  SessionsShaped' /\ SessionsAreSound' /\ handled' \in 0 .. Len(commands)
<1> DEFINE s == NextCommand.session
<1>1. NextCommand \in Command /\ NextCommand.type = "cancel" /\ handled' \in 0 .. Len(commands)
  BY TakenCommand DEF CancelReplay, ApiInv, ApiShaped
<1>2. s \in ReplayIds
  BY <1>1 DEF Command
<1>3. \/ unpersisted[s].status \in {"pending"} \cup Terminal /\ SetStatus(s, "evicted")
      \/ Absent(unpersisted[s]) /\ sessionRows[s].status = "pending" /\ SetStatus(s, "cancelled")
      \/ UNCHANGED <<sessionRows, unpersisted>>
  BY DEF CancelReplay
<1>4. /\ unpersisted[s].status \in {"pending"} \cup Terminal
           => ~Absent(unpersisted[s]) /\ Held(s).status # "none"
      /\ Absent(unpersisted[s]) /\ sessionRows[s].status = "pending" => Held(s).status # "none"
  BY DEF Absent, Held, Terminal
<1> HIDE DEF s
<1>5. SessionsShaped' /\ SessionsAreSound'
  BY <1>2, <1>3, <1>4, StatusChanges, SameSessions DEF ApiInv, ApiShaped, RowStatus, Terminal
<1> QED
  BY <1>1, <1>5

LEMMA RunStep == ASSUME ApiInv, RunSession PROVE SessionsShaped' /\ SessionsAreSound'
<1>1. PICK s \in ReplayIds :
        \/ /\ Held(s).status \in {"pending", "running"}
           /\ \E next \in {"running", "completed", "failed", "cancelled"} : SetStatus(s, next)
        \/ unpersisted[s].status \in Terminal /\ SetStatus(s, "evicted")
  BY DEF RunSession
<1>2. CASE /\ Held(s).status \in {"pending", "running"}
           /\ \E next \in {"running", "completed", "failed", "cancelled"} : SetStatus(s, next)
  BY <1>2, StatusChanges DEF ApiInv, ApiShaped, RowStatus, Terminal
<1>3. CASE unpersisted[s].status \in Terminal /\ SetStatus(s, "evicted")
  <2>1. ~Absent(unpersisted[s]) /\ Held(s).status # "none"
    BY <1>3 DEF Absent, Held, Terminal
  <2> QED
    BY <1>3, <2>1, StatusChanges DEF ApiInv, ApiShaped
<1> QED
  BY <1>1, <1>2, <1>3

(* The producer, the consumer of backtest, a crash of gateway.             *)
LEMMA CommandSteps ==
  ASSUME ApiInv, Deliver \/ HandleCommand \/ RunSession \/ GatewayCrash
  PROVE  ApiInv'
<1>0. /\ ApiShaped /\ RequestsShaped /\ SessionsShaped /\ SessionsAreSound /\ CallsAreOfClients
      /\ outbox \in Seq(Command) /\ commands \in Seq(Command) /\ handled \in 0 .. Len(commands)
  BY DEF ApiInv, ApiShaped
<1>1. UNCHANGED <<orders, told, calls>> /\ told' \subseteq told
  BY DEF Deliver, HandleCommand, StartReplay, RetryReplay, RefuseReplay, CancelReplay, RunSession,
         GatewayCrash
<1>2. OrdersGrow /\ CallsAreOfClients'
  BY <1>0, <1>1, SameOrdersGrow, CallsServed
<1>3. SUFFICES RequestsShaped' /\ SessionsShaped' /\ SessionsAreSound' /\ outbox' \in Seq(Command)
               /\ commands' \in Seq(Command) /\ handled' \in 0 .. Len(commands')
  <2>1. ASSUME RequestsShaped', SessionsShaped', outbox' \in Seq(Command), commands' \in Seq(Command),
               handled' \in 0 .. Len(commands')
        PROVE  ApiShaped'
    BY <1>0, <1>1, <2>1 DEF ApiShaped
  <2> QED
    BY <1>1, <1>2, <2>1, ApiKept
<1>4. CASE Deliver
  <2>1. /\ outbox # <<>> /\ commands' = Append(commands, Head(outbox)) /\ outbox' = Tail(outbox)
        /\ UNCHANGED <<request, handled, sessionRows, unpersisted>>
    BY <1>4 DEF Deliver
  <2>2. Head(outbox) \in Command /\ outbox' \in Seq(Command)
    BY <1>0, <2>1
  <2>3. commands' \in Seq(Command) /\ Len(commands') = Len(commands) + 1
    BY <1>0, <2>1, <2>2, AppendProperties
  <2>4. handled' \in 0 .. Len(commands')
    BY <1>0, <2>1, <2>3
  <2> QED
    BY <1>0, <2>1, <2>2, <2>3, <2>4, SameSessions DEF RequestsShaped, ShapedRequest
<1>5. CASE HandleCommand
  <2>1. UNCHANGED <<request, outbox, commands>>
    BY <1>5 DEF HandleCommand, StartReplay, RetryReplay, RefuseReplay, CancelReplay
  <2>2. CASE RefuseReplay
    <3>1. UNCHANGED <<sessionRows, unpersisted>> /\ handled' \in 0 .. Len(commands)
      BY <1>0, <2>2, TakenCommand DEF RefuseReplay
    <3> QED
      BY <1>0, <2>1, <3>1, SameSessions DEF RequestsShaped, ShapedRequest
  <2>3. CASE StartReplay \/ RetryReplay \/ CancelReplay
    BY <1>0, <2>1, <2>3, StartStep, RetryStep, CancelStep DEF RequestsShaped, ShapedRequest
  <2> QED
    BY <1>5, <2>2, <2>3 DEF HandleCommand
<1>6. CASE RunSession
  <2>1. UNCHANGED <<request, outbox, commands, handled>>
    BY <1>6 DEF RunSession
  <2> QED
    BY <1>0, <1>6, <2>1, RunStep DEF RequestsShaped, ShapedRequest
<1>7. CASE GatewayCrash
  <2>1. /\ request' = [c \in Clients |-> Quiet] /\ outbox' = <<>>
        /\ UNCHANGED <<commands, handled, sessionRows, unpersisted>>
    BY <1>7 DEF GatewayCrash
  <2>2. RequestsShaped'
    BY <2>1, QuietShaped DEF RequestsShaped, ShapedRequest
  <2> QED
    BY <1>0, <2>1, <2>2, SameSessions
<1> QED
  BY <1>4, <1>5, <1>6, <1>7

LEMMA ApiStuttering == ASSUME ApiInv, UNCHANGED apiVars PROVE ApiInv'
  BY DEF apiVars, replayVars, ApiInv, ApiShaped, RequestsShaped, ShapedRequest, SessionsShaped,
         CallsAreOfClients, TrueAnswer, SessionsAreSound

(* Whatever breaks, is served late or is asked again: an order a client    *)
(* was told of exists under its client id, and a cancellation it was told  *)
(* of stands; and although POST /replay/commands publishes any body at     *)
(* all, no session that has a row or is in the registry of backtest has a  *)
(* leg that cannot be an order or a reversed range, retries included.      *)
THEOREM ApiTellsTheTruth == ApiSpec => []ApiSafety
<1>1. ApiInit => ApiInv
  BY ApiInitInv
<1>2. ApiInv /\ [ApiNext]_apiVars => ApiInv'
  <2> SUFFICES ASSUME ApiInv, [ApiNext]_apiVars PROVE ApiInv'
    OBVIOUS
  <2>1. CASE ApiDone \/ UNCHANGED apiVars
    BY <2>1, ApiStuttering DEF ApiDone
  <2>2. CASE OrderStep
    BY <2>2, OrderCalls, CallServed DEF OrderStep, OrderRequest
  <2>3. CASE ReplayStep
    BY <2>3, SessionCalls, CommandSteps DEF ReplayStep
  <2>4. CASE GatewayCrash
    BY <2>4, CommandSteps
  <2> QED
    BY <2>1, <2>2, <2>3, <2>4 DEF ApiNext
<1>3. ApiInv => ApiSafety
  BY ApiInvSafe
<1> QED
  BY <1>1, <1>2, <1>3, PTL DEF ApiSpec
-----------------------------------------------------------------------------
(* The configuration of the venues.                                        *)
VenueModes  == STRING \cup {"auto", "watch", "none"}
VenueRecord == [on : BOOLEAN, mode : VenueModes, limit : Int]
AdminOps    == {"none", "put", "disable", "enable", "routing", "delete"}
WriteStages == {"idle", "apply", "save", "reread", "persist"}

AdminShaped ==
  /\ fleet \in Seq(VenueIds) /\ Len(fleet) > 0
  /\ records \in [VenueIds -> VenueRecord] /\ table \in [VenueIds -> VenueRecord]
  /\ limits \in [VenueIds -> Nat \ {0}]
  /\ links \in [VenueIds -> {"up", "down"}]
  /\ writer \in [Requests -> [op : AdminOps, venue : VenueIds \cup {"none"}, rec : VenueRecord,
                              at : WriteStages]]
  /\ \A h \in Requests : writer[h].at # "idle" => writer[h].venue \in VenueIds
  /\ waited \in [VenueIds -> Nat]

RecordsNormal ==
  \A v \in VenueIds : records[v] = NoRecord \/ records[v] = Normalised(records[v])

(* Requests are served once the rows are loaded.                           *)
PhaseIsKept ==
  /\ phase # "serving" => \A h \in Requests : writer[h].at = "idle"
  /\ phase # "loading" => toLoad = {}

(* Record, row and adapter of a venue that is loaded and not written now.  *)
Agree(v) ==
  /\ records[v] = Normalised(table[v])
  /\ v \in Served => limits[v] = records[v].limit
LoadedAgree ==
  phase # "seeded" =>
    \A v \in (VenueIds \ unsafe) \ toLoad : table[v] # NoRecord /\ ~Writing(v) => Agree(v)

OneWriter ==
  \A g, h \in Requests :
    g # h /\ writer[g].at # "idle" /\ writer[h].at # "idle" /\ writer[g].venue = writer[h].venue
      => writer[h].venue \in unsafe

(* What a request has done so far, as long as no other one interferes.     *)
Knows(w) ==
  /\ w.at = "reread" => w.op = "delete"
  /\ w.at = "save" => (w.venue \in Served => limits[w.venue] = Normalised(w.rec).limit)
  /\ w.at = "persist" => /\ records[w.venue] = Normalised(w.rec)
                         /\ w.venue \in Served => limits[w.venue] = records[w.venue].limit
  /\ w.op = "delete" /\ w.at \in {"apply", "reread"} =>
       w.rec = records[w.venue] /\ w.rec = Normalised(w.rec) /\ w.rec.on = FALSE
  /\ w.at = "reread" => (w.venue \in Served => limits[w.venue] = records[w.venue].limit)
WritersKnow ==
  \A h \in Requests : writer[h].at # "idle" /\ writer[h].venue \notin unsafe => Knows(writer[h])

(* A venue that waits is reached before the turns left to it are over.     *)
TurnComes ==
  /\ \A v \in VenueIds \ Served : waited[v] = 0
  /\ \A k \in 0 .. (Len(fleet) - 1) : waited[fleet[From(nextIdx, k)]] + k < Len(fleet)

Agreement == PhaseIsKept /\ LoadedAgree /\ OneWriter /\ WritersKnow
AdminInv  ==
  AdminTypeOK /\ AdminShaped /\ RecordsNormal /\ Agreement /\ TurnComes /\ StoredOffIsNotRouted

LEMMA NormalFields ==
  ASSUME NEW x \in VenueRecord
  PROVE  Normalised(x) = [on |-> x.on, mode |-> Watching(x.mode),
                          limit |-> IF x.limit < 1 THEN 1 ELSE x.limit]
<1> DEFINE z == Normalised(x)
           n == IF x.limit < 1 THEN 1 ELSE x.limit
<1>0. Watching(x.mode) \in VenueModes
  BY DEF Watching, VenueModes
<1>1. n \in Int
  BY DEF VenueRecord
<1> HIDE DEF n
<1>2. z = [x EXCEPT !.limit = n, !.mode = Watching(x.mode)]
  BY DEF Normalised, n, VenueRecord
<1>3. z \in VenueRecord /\ z.on = x.on /\ z.mode = Watching(x.mode) /\ z.limit = n
  BY <1>0, <1>1, <1>2 DEF VenueRecord
<1> HIDE DEF z
<1>4. z = [on |-> z.on, mode |-> z.mode, limit |-> z.limit]
  BY <1>3 DEF VenueRecord
<1> QED
  BY <1>3, <1>4 DEF z, n

(* A normalised record stays as it is, and so does its threshold.          *)
LEMMA NormalForm ==
  ASSUME NEW x \in VenueRecord
  PROVE  /\ Normalised(x) \in VenueRecord /\ Normalised(x).on = x.on
         /\ Normalised(x).limit \in Nat \ {0}
         /\ Normalised(Normalised(x)) = Normalised(x) /\ Normalised(x) # NoRecord
<1> DEFINE y == [on |-> x.on, mode |-> Watching(x.mode), limit |-> IF x.limit < 1 THEN 1 ELSE x.limit]
<1>1. Watching(x.mode) \in {"watch", "auto"} /\ Watching(Watching(x.mode)) = Watching(x.mode)
  BY DEF Watching
<1>2. x.limit \in Int /\ x.on \in BOOLEAN
  BY DEF VenueRecord
<1>3. Normalised(x) = y
  BY NormalFields
<1>4. y \in VenueRecord /\ y.limit \in Nat \ {0} /\ y.on = x.on /\ y.mode = Watching(x.mode)
  BY <1>1, <1>2 DEF VenueRecord, VenueModes
<1> HIDE DEF y
<1>5. Normalised(y) = [on |-> y.on, mode |-> Watching(y.mode), limit |-> IF y.limit < 1 THEN 1 ELSE y.limit]
  BY <1>4, NormalFields
<1>6. Normalised(y) = y
  BY <1>1, <1>4, <1>5 DEF y
<1>7. y # NoRecord
  BY <1>4 DEF NoRecord
<1> QED
  BY <1>3, <1>4, <1>6, <1>7

(* Turning a record off leaves the rest of it.                             *)
LEMMA OffForm ==
  ASSUME NEW x \in VenueRecord, x = Normalised(x)
  PROVE  /\ [x EXCEPT !.on = FALSE] \in VenueRecord
         /\ [x EXCEPT !.on = FALSE].on = FALSE
         /\ [x EXCEPT !.on = FALSE].limit = x.limit
         /\ [x EXCEPT !.on = FALSE] = Normalised([x EXCEPT !.on = FALSE])
         /\ x.on = FALSE => [x EXCEPT !.on = FALSE] = x
<1> DEFINE y == [x EXCEPT !.on = FALSE]
<1>1. y \in VenueRecord /\ y.on = FALSE /\ y.limit = x.limit /\ y.mode = x.mode
  BY DEF VenueRecord
<1>2. x.limit >= 1 /\ x.limit \in Int
  BY NormalForm DEF VenueRecord
<1>3. Normalised(x).mode = Watching(x.mode)
  BY NormalFields
<1>4. Watching(x.mode) = x.mode
  BY <1>3
<1>5. x.on = FALSE => y = x
  BY DEF VenueRecord
<1> HIDE DEF y
<1>6. y = [on |-> y.on, mode |-> y.mode, limit |-> y.limit]
  BY <1>1 DEF VenueRecord
<1>7. Normalised(y) = [on |-> y.on, mode |-> Watching(y.mode), limit |-> IF y.limit < 1 THEN 1 ELSE y.limit]
  BY <1>1, NormalFields
<1>8. y = Normalised(y)
  BY <1>1, <1>2, <1>4, <1>6, <1>7
<1> QED
  BY <1>1, <1>5, <1>8 DEF y

LEMMA NoRecordForm == NoRecord \in VenueRecord
  BY DEF NoRecord, VenueRecord, VenueModes

LEMMA ServedForm ==
  ASSUME fleet \in Seq(VenueIds)
  PROVE  /\ Served \subseteq VenueIds
         /\ \A i \in 1 .. Len(fleet) : fleet[i] \in VenueIds /\ fleet[i] \in Served
  BY DEF Served

LEMMA FleetForm ==
  ASSUME VenueAdminAssumption, NEW mode
  PROVE  FleetOf(mode) \in Seq(VenueIds) /\ Len(FleetOf(mode)) > 0
<1>1. \A a, b, c \in VenueIds : /\ <<a>> \in Seq(VenueIds) /\ Len(<<a>>) = 1
                                /\ <<a, b, c>> \in Seq(VenueIds) /\ Len(<<a, b, c>>) = 3
  OBVIOUS
<1>2. "binance" \in VenueIds /\ "coinbase" \in VenueIds /\ "uniswap_v3" \in VenueIds
  BY DEF VenueIds
<1>3. /\ RealMultiFleet \in Seq(VenueIds) /\ Len(RealMultiFleet) > 0
      /\ SimMultiFleet \in Seq(VenueIds) /\ Len(SimMultiFleet) > 0
      /\ CexFleet \in Seq(VenueIds) /\ Len(CexFleet) > 0
      /\ DexFleet \in Seq(VenueIds) /\ Len(DexFleet) > 0
      /\ SimulatedFleet \in Seq(VenueIds) /\ Len(SimulatedFleet) > 0
  BY <1>1, <1>2 DEF RealMultiFleet, SimMultiFleet, CexFleet, DexFleet, SimulatedFleet
<1>4. BacktestFleet \in Seq(VenueIds) /\ Len(BacktestFleet) > 0
  <2>1. CASE BacktestIds = <<>>
    BY <1>1, <1>2, <2>1 DEF BacktestFleet
  <2>2. CASE BacktestIds # <<>>
    BY <2>2, EmptySeq, LenProperties DEF BacktestFleet, VenueAdminAssumption
  <2> QED
    BY <2>1, <2>2
<1> QED
  BY <1>3, <1>4 DEF FleetOf

LEMMA SeededForm ==
  ASSUME VenueAdminAssumption, NEW f
  PROVE  /\ Seeded(f) \in [VenueIds -> VenueRecord]
         /\ \A v \in VenueIds : Seeded(f)[v] = NoRecord \/ Seeded(f)[v] = Normalised(Seeded(f)[v])
<1> DEFINE s == [on |-> TRUE, mode |-> "auto", limit |-> SeedLimit]
<1>1. s \in VenueRecord /\ s.limit = SeedLimit /\ s.mode = "auto" /\ s.on = TRUE
  BY DEF VenueRecord, VenueModes, VenueAdminAssumption
<1>2. SeedLimit \in Int /\ ~(SeedLimit < 1) /\ Watching("auto") = "auto"
  BY DEF VenueAdminAssumption, Watching
<1>3. s = Normalised(s)
  BY <1>1, <1>2 DEF Normalised
<1> HIDE DEF s
<1>4. \A v \in VenueIds : Seeded(f)[v] = (IF v \in Built(f) THEN s ELSE NoRecord)
  BY DEF Seeded, s
<1>5. Seeded(f) \in [VenueIds -> VenueRecord]
  BY <1>1, NoRecordForm DEF Seeded, s
<1> QED
  BY <1>3, <1>4, <1>5

LEMMA IdleForm ==
  [h \in Requests |-> Idle] \in [Requests -> [op : AdminOps, venue : VenueIds \cup {"none"},
                                             rec : VenueRecord, at : WriteStages]]
<1>1. Idle \in [op : AdminOps, venue : VenueIds \cup {"none"}, rec : VenueRecord, at : WriteStages]
  BY NoRecordForm DEF Idle, AdminOps, WriteStages
<1> QED
  BY <1>1

(* A process that starts: nobody waits, nobody writes.                     *)
LEMMA FreshTurns ==
  ASSUME fleet \in Seq(VenueIds), Len(fleet) > 0, nextIdx = 0, waited = [v \in VenueIds |-> 0]
  PROVE  TurnComes
<1>1. Len(fleet) \in Nat
  OBVIOUS
<1>2. ASSUME NEW k \in 0 .. (Len(fleet) - 1) PROVE waited[fleet[From(nextIdx, k)]] + k < Len(fleet)
  <2>1. (0 + k) % Len(fleet) = k
    BY <1>1, <1>2
  <2>2. From(nextIdx, k) \in 1 .. Len(fleet)
    BY <1>1, <2>1 DEF From
  <2>3. fleet[From(nextIdx, k)] \in VenueIds
    BY <2>2
  <2> QED
    BY <1>1, <1>2, <2>3
<1>3. \A v \in VenueIds \ Served : waited[v] = 0
  OBVIOUS
<1> QED
  BY <1>2, <1>3 DEF TurnComes

LEMMA AdminInitInv == ASSUME VenueAdminAssumption, AdminInit PROVE AdminInv
<1>1. PICK mode \in Modes, old \in OldVenueRows :
        /\ fleet = FleetOf(mode) /\ phase = "seeded" /\ toLoad = {}
        /\ records = Seeded(FleetOf(mode))
        /\ limits = [v \in VenueIds |-> OwnLimit]
        /\ table = [v \in VenueIds |-> IF \E r \in old : r.venue = v
                                       THEN (CHOOSE r \in old : r.venue = v).row ELSE NoRecord]
        /\ writer = [h \in Requests |-> Idle]
        /\ links = [v \in VenueIds |-> "up"]
        /\ muted = {}
        /\ nextIdx = 0 /\ waited = [v \in VenueIds |-> 0] /\ strayed = {}
        /\ unsafe = {}
  BY DEF AdminInit
<1>2. fleet \in Seq(VenueIds) /\ Len(fleet) > 0
  BY <1>1, FleetForm
<1>3. records \in [VenueIds -> VenueRecord] /\ RecordsNormal
  BY <1>1, SeededForm DEF RecordsNormal
<1>4. table \in [VenueIds -> VenueRecord]
  <2>1. ASSUME NEW v \in VenueIds, \E r \in old : r.venue = v
        PROVE  (CHOOSE r \in old : r.venue = v).row \in VenueRecord
    <3>1. (CHOOSE r \in old : r.venue = v) \in old
      BY <2>1
    <3>2. \A r \in old : r.row \in [on : BOOLEAN, mode : STRING, limit : Int]
      BY <1>1 DEF VenueAdminAssumption
    <3> QED
      BY <3>1, <3>2 DEF VenueRecord, VenueModes
  <2> QED
    BY <1>1, <2>1, NoRecordForm
<1>5. writer \in [Requests -> [op : AdminOps, venue : VenueIds \cup {"none"}, rec : VenueRecord,
                              at : WriteStages]]
      /\ \A h \in Requests : writer[h].at = "idle"
  BY <1>1, IdleForm DEF Idle
<1>6. /\ limits \in [VenueIds -> Nat \ {0}] /\ links \in [VenueIds -> {"up", "down"}]
      /\ waited \in [VenueIds -> Nat]
  BY <1>1 DEF VenueAdminAssumption
<1>7. AdminShaped
  BY <1>2, <1>3, <1>4, <1>5, <1>6 DEF AdminShaped
<1>8. AdminTypeOK
  <2>1. \A v \in VenueIds : records[v] = NoRecord \/ records[v].limit >= 1
    BY <1>3, NormalForm DEF RecordsNormal
  <2>2. nextIdx \in 0 .. (Len(fleet) - 1)
    BY <1>1, <1>2
  <2> QED
    BY <1>1, <1>5, <1>6, <2>1, <2>2 DEF AdminTypeOK, WriteStages
<1>9. Agreement
  BY <1>1, <1>5 DEF Agreement, PhaseIsKept, LoadedAgree, OneWriter, WritersKnow
<1>10. TurnComes
  BY <1>1, <1>2, FreshTurns
<1>11. StoredOffIsNotRouted
  BY <1>1 DEF StoredOffIsNotRouted
<1> QED
  BY <1>3, <1>7, <1>8, <1>9, <1>10, <1>11 DEF AdminInv

(* What ApplyRuntimeConfig does to the adapters.                           *)
LEMMA AppliedForm ==
  ASSUME AdminShaped, NEW v \in VenueIds, NEW rec \in VenueRecord, ApplyRuntimeConfig(v, rec)
  PROVE  /\ limits' \in [VenueIds -> Nat \ {0}] /\ links' \in [VenueIds -> {"up", "down"}]
         /\ v \in Served => limits'[v] = Normalised(rec).limit
         /\ \A w \in VenueIds \ {v} : limits'[w] = limits[w]
<1>1. Normalised(rec).limit \in Nat \ {0}
  BY NormalForm
<1>2. limits \in [VenueIds -> Nat \ {0}] /\ links \in [VenueIds -> {"up", "down"}]
  BY DEF AdminShaped
<1>3. limits' = limits \/ limits' = [limits EXCEPT ![v] = Normalised(rec).limit]
  BY DEF ApplyRuntimeConfig
<1>4. v \in Served => limits' = [limits EXCEPT ![v] = Normalised(rec).limit]
  BY DEF ApplyRuntimeConfig
<1>5. links' = links \/ links' = [links EXCEPT ![v] = "up"]
  BY DEF ApplyRuntimeConfig
<1> QED
  BY <1>1, <1>2, <1>3, <1>4, <1>5

(* Types and turns where they stay as they are.                            *)
LEMMA TypeFrom ==
  ASSUME AdminShaped', RecordsNormal', AdminTypeOK,
         phase' \in {"seeded", "loading", "serving"},
         toLoad' \subseteq VenueIds, muted' \subseteq VenueIds, unsafe' \subseteq VenueIds,
         nextIdx' \in 0 .. (Len(fleet') - 1)
  PROVE  AdminTypeOK'
<1>1. \A v \in VenueIds : records'[v] = NoRecord \/ records'[v].limit >= 1
  BY NormalForm DEF AdminShaped, RecordsNormal
<1>2. \A v \in VenueIds : limits'[v] >= 1 /\ links'[v] \in {"up", "down"}
  BY DEF AdminShaped
<1>3. \A h \in Requests : writer'[h].at \in {"idle", "apply", "save", "reread", "persist"}
  BY DEF AdminShaped, WriteStages
<1> QED
  BY <1>1, <1>2, <1>3 DEF AdminTypeOK

(* Positions of the fleet are positions, and a turn only comes nearer.     *)
LEMMA FromForm ==
  ASSUME fleet \in Seq(VenueIds), Len(fleet) > 0, NEW i \in Nat, NEW k \in Nat
  PROVE  From(i, k) \in 1 .. Len(fleet)
<1>1. Len(fleet) \in Nat \ {0} /\ i + k \in Nat
  OBVIOUS
<1>2. \A n \in Nat \ {0}, a \in Nat : a % n \in 0 .. (n - 1)
  OBVIOUS
<1>3. (i + k) % Len(fleet) \in 0 .. (Len(fleet) - 1)
  BY <1>1, <1>2
<1> QED
  BY <1>1, <1>3 DEF From

LEMMA TurnsKept ==
  ASSUME AdminShaped, TurnComes, UNCHANGED <<fleet, nextIdx>>, nextIdx \in Nat,
         \A v \in VenueIds : waited'[v] = waited[v] \/ waited'[v] = 0
  PROVE  TurnComes'
<1>1. /\ fleet \in Seq(VenueIds) /\ Len(fleet) > 0 /\ Len(fleet) \in Nat
      /\ waited \in [VenueIds -> Nat]
  BY DEF AdminShaped
<1>2. Served' = Served
  BY DEF Served
<1>3. ASSUME NEW k \in 0 .. (Len(fleet) - 1) PROVE waited'[fleet[From(nextIdx, k)]] + k < Len(fleet)
  <2>0. k \in Nat
    BY <1>1, <1>3
  <2>1. From(nextIdx, k) \in 1 .. Len(fleet)
    BY <1>1, <2>0, FromForm
  <2> DEFINE v == fleet[From(nextIdx, k)]
  <2>2. v \in VenueIds /\ waited[v] \in Nat /\ waited[v] + k < Len(fleet)
    BY <1>1, <2>1 DEF TurnComes
  <2> HIDE DEF v
  <2>3. waited'[v] + k < Len(fleet)
    BY <1>1, <2>2
  <2> QED
    BY <2>3 DEF v
<1> QED
  BY <1>2, <1>3 DEF TurnComes, From

(* Nothing the agreement is about changes.                                 *)
LEMMA AgreementKept ==
  ASSUME Agreement, UNCHANGED <<fleet, phase, toLoad, records, limits, table, writer, unsafe>>
  PROVE  Agreement'
<1>1. PhaseIsKept' /\ OneWriter'
  BY DEF Agreement, PhaseIsKept, OneWriter
<1>2. LoadedAgree'
  BY DEF Agreement, LoadedAgree, Writing, Agree, Served
<1>3. WritersKnow'
  BY DEF Agreement, WritersKnow, Knows, Served
<1> QED
  BY <1>1, <1>2, <1>3 DEF Agreement

LEMMA SentForm ==
  ASSUME AdminInv, NEW v \in VenueIds, Eligible(records[v]), Sent(v)
  PROVE  StoredOffIsNotRouted'
<1>1. "serving" \notin strayed
  BY DEF AdminInv, StoredOffIsNotRouted
<1>2. strayed' = strayed \/ (strayed' = strayed \cup {phase} /\ table[v] # NoRecord /\ ~table[v].on
                             /\ v \notin unsafe /\ ~Writing(v))
  BY DEF Sent
<1>3. ASSUME phase = "serving", table[v] # NoRecord, ~table[v].on, v \notin unsafe, ~Writing(v)
      PROVE  FALSE
  <2>1. toLoad = {}
    BY <1>3 DEF AdminInv, Agreement, PhaseIsKept
  <2>2. records[v] = Normalised(table[v])
    BY <1>3, <2>1 DEF AdminInv, Agreement, LoadedAgree, Agree
  <2>3. table[v] \in VenueRecord
    BY DEF AdminInv, AdminShaped
  <2>4. records[v] # NoRecord /\ ~records[v].on
    BY <1>3, <2>2, <2>3, NormalForm
  <2> QED
    BY <2>4 DEF Eligible
<1> QED
  BY <1>1, <1>2, <1>3 DEF StoredOffIsNotRouted

LEMMA QuietSteps ==
  ASSUME AdminInv,
         UNCHANGED <<fleet, phase, toLoad, records, limits, table, writer, nextIdx, unsafe>>,
         muted' \subseteq VenueIds, links' \in [VenueIds -> {"up", "down"}],
         waited' \in [VenueIds -> Nat],
         \A v \in VenueIds : waited'[v] = waited[v] \/ waited'[v] = 0,
         StoredOffIsNotRouted'
  PROVE  AdminInv'
<1>1. AdminShaped' /\ RecordsNormal'
  BY DEF AdminInv, AdminShaped, RecordsNormal
<1>2. AdminTypeOK'
  BY <1>1, TypeFrom DEF AdminInv, AdminTypeOK
<1>3. Agreement'
  BY AgreementKept DEF AdminInv
<1>4. nextIdx \in Nat
  BY DEF AdminInv, AdminTypeOK
<1>5. TurnComes'
  BY <1>4, TurnsKept DEF AdminInv
<1> QED
  BY <1>1, <1>2, <1>3, <1>5 DEF AdminInv

LEMMA LinkSteps ==
  ASSUME AdminInv, NEW v \in VenueIds, Reconnect(v) \/ Disconnect(v) \/ RouteTo(v) \/ MdPoll(v)
  PROVE  AdminInv'
<1>0. /\ links \in [VenueIds -> {"up", "down"}] /\ waited \in [VenueIds -> Nat]
      /\ muted \subseteq VenueIds /\ StoredOffIsNotRouted
  BY DEF AdminInv, AdminShaped, AdminTypeOK
<1>1. UNCHANGED <<fleet, phase, toLoad, records, limits, table, writer, nextIdx, unsafe>>
  BY DEF Reconnect, Disconnect, RouteTo, MdPoll
<1>2. muted' \subseteq VenueIds
  BY <1>0 DEF Reconnect, Disconnect, RouteTo, MdPoll
<1>3. links' = links \/ links' = [links EXCEPT ![v] = "up"] \/ links' = [links EXCEPT ![v] = "down"]
  BY DEF Reconnect, Disconnect, RouteTo, MdPoll
<1>4. waited' = waited \/ waited' = [waited EXCEPT ![v] = 0]
  BY DEF Reconnect, Disconnect, RouteTo, MdPoll
<1>5. StoredOffIsNotRouted'
  <2>1. CASE RouteTo(v)
    BY <2>1, SentForm DEF RouteTo
  <2>2. CASE strayed' = strayed
    BY <1>0, <2>2 DEF StoredOffIsNotRouted
  <2> QED
    BY <2>1, <2>2 DEF Reconnect, Disconnect, MdPoll
<1> QED
  BY <1>0, <1>1, <1>2, <1>3, <1>4, <1>5, QuietSteps

(* find_adapter takes the first adapter from next_exec_adapter_idx_ on.    *)
LEMMA NextOfForm ==
  ASSUME fleet \in Seq(VenueIds), Len(fleet) > 0, nextIdx \in Nat, NEW S
  PROVE  \/ /\ NextOf(S) = 0
            /\ \A j \in 0 .. (Len(fleet) - 1) : fleet[From(nextIdx, j)] \notin S
         \/ \E k \in 0 .. (Len(fleet) - 1) :
              /\ NextOf(S) = From(nextIdx, k) /\ NextOf(S) # 0 /\ fleet[From(nextIdx, k)] \in S
              /\ \A j \in 0 .. (Len(fleet) - 1) : fleet[From(nextIdx, j)] \in S => k <= j
<1> DEFINE found == {k \in 0 .. (Len(fleet) - 1) : fleet[From(nextIdx, k)] \in S}
<1>1. NextOf(S) = IF found = {} THEN 0
                  ELSE From(nextIdx, CHOOSE k \in found : \A j \in found : k <= j)
  BY DEF NextOf
<1>2. CASE found = {}
  BY <1>1, <1>2
<1>3. CASE found # {}
  <2> DEFINE k == CHOOSE n \in found : \A j \in found : n <= j
  <2>1. found \in SUBSET Nat
    OBVIOUS
  <2> HIDE DEF found
  <2>2. k \in found /\ \A j \in found : k <= j
    BY <1>3, <2>1, LeastNumber
  <2>3. NextOf(S) = From(nextIdx, k)
    BY <1>1, <1>3
  <2> HIDE DEF k
  <2>4. k \in Nat
    BY <2>1, <2>2
  <2>5. From(nextIdx, k) # 0
    BY <2>4, FromForm
  <2> QED
    BY <2>2, <2>3, <2>5 DEF found
<1> QED
  BY <1>2, <1>3

(* The remainder of a sum of two positions.                                *)
LEMMA Around ==
  ASSUME NEW n \in Nat \ {0}, NEW a \in 0 .. (n - 1), NEW b \in 0 .. n, a + b < n + n
  PROVE  (a + b) % n = IF a + b < n THEN a + b ELSE a + b - n
<1>1. \A c \in 0 .. (n - 1) : c % n = c
  OBVIOUS
<1>2. \A c \in 0 .. (n - 1) : (c + n) % n = c
  OBVIOUS
<1>3. CASE a + b < n
  <2>1. a + b \in 0 .. (n - 1)
    BY <1>3
  <2> QED
    BY <1>1, <1>3, <2>1
<1>4. CASE ~(a + b < n)
  <2>1. a + b - n \in 0 .. (n - 1) /\ (a + b - n) + n = a + b
    BY <1>4
  <2> QED
    BY <1>2, <1>4, <2>1
<1> QED
  BY <1>3, <1>4

(* After the adapter k turns ahead took an intent, every other adapter is  *)
(* k + 1 turns nearer.                                                     *)
LEMMA NearerForm ==
  ASSUME NEW n \in Nat \ {0}, NEW i \in 0 .. (n - 1), NEW k \in 0 .. (n - 1), NEW m \in 0 .. (n - 1)
  PROVE  LET j == (((i + k) % n) + 1) % n
             t == k + 1 + m
         IN  /\ j \in 0 .. (n - 1)
             /\ (j + m) % n = (i + (IF t < n THEN t ELSE t - n)) % n
<1> DEFINE q == (i + k) % n
           j == (q + 1) % n
           t == k + 1 + m
           u == IF t < n THEN t ELSE t - n
<1>1. q = (IF i + k < n THEN i + k ELSE i + k - n) /\ q \in 0 .. (n - 1)
  <2>0. k \in 0 .. n /\ i + k < n + n
    OBVIOUS
  <2>1. q = (IF i + k < n THEN i + k ELSE i + k - n)
    BY <2>0, Around
  <2> HIDE DEF q
  <2> QED
    BY <2>1
<1>2. j = (IF q + 1 < n THEN q + 1 ELSE q + 1 - n) /\ j \in 0 .. (n - 1)
  <2> HIDE DEF q
  <2>1. 1 \in 0 .. n /\ q + 1 < n + n
    BY <1>1
  <2>2. j = (IF q + 1 < n THEN q + 1 ELSE q + 1 - n)
    BY <1>1, <2>1, Around
  <2> HIDE DEF j
  <2> QED
    BY <1>1, <2>2
<1>3. t \in Nat /\ u \in 0 .. (n - 1)
  OBVIOUS
<1>4. (j + m) % n = (IF j + m < n THEN j + m ELSE j + m - n)
  <2> HIDE DEF j
  <2>1. m \in 0 .. n /\ j + m < n + n
    BY <1>2
  <2> QED
    BY <1>2, <2>1, Around
<1>5. (i + u) % n = (IF i + u < n THEN i + u ELSE i + u - n)
  <2> HIDE DEF u
  <2>1. u \in 0 .. n /\ i + u < n + n
    BY <1>3
  <2> QED
    BY <2>1, Around
<1>6. (IF j + m < n THEN j + m ELSE j + m - n) = (IF i + u < n THEN i + u ELSE i + u - n)
  <2> HIDE DEF q, j
  <2> QED
    BY <1>1, <1>2
<1> QED
  BY <1>2, <1>4, <1>5, <1>6

LEMMA RouteStep == ASSUME AdminInv, RouteAnywhere PROVE AdminInv'
<1> DEFINE n == Len(fleet)
           healthy == NextOf(ConnectedVenues)
           i == IF healthy # 0 THEN healthy ELSE NextOf(EligibleVenues)
<1>1. /\ i # 0 /\ Sent(fleet[i]) /\ nextIdx' = i % n
      /\ waited' = [v \in VenueIds |-> IF v = fleet[i] \/ v \notin ConnectedVenues THEN 0 ELSE waited[v] + 1]
      /\ UNCHANGED <<fleet, phase, toLoad, records, limits, table, writer, links, muted, unsafe, spent>>
  BY DEF RouteAnywhere
<1>2. /\ fleet \in Seq(VenueIds) /\ n \in Nat \ {0} /\ nextIdx \in 0 .. (n - 1)
      /\ waited \in [VenueIds -> Nat] /\ Len(fleet) > 0 /\ nextIdx \in Nat
  BY DEF AdminInv, AdminShaped, AdminTypeOK
<1>3. ConnectedVenues \subseteq EligibleVenues /\ EligibleVenues \subseteq Served /\ Served \subseteq VenueIds
  BY <1>2, ServedForm DEF ConnectedVenues, EligibleVenues
<1>4. PICK k \in 0 .. (n - 1) :
        /\ i = From(nextIdx, k) /\ fleet[i] \in EligibleVenues
        /\ \A j \in 0 .. (n - 1) : fleet[From(nextIdx, j)] \in ConnectedVenues => k <= j
  <2>1. CASE healthy # 0
    BY <1>2, <1>3, <2>1, NextOfForm
  <2>2. CASE healthy = 0
    <3>1. \A j \in 0 .. (n - 1) : fleet[From(nextIdx, j)] \notin ConnectedVenues
      BY <1>2, <2>2, NextOfForm
    <3>2. NextOf(EligibleVenues) # 0
      BY <1>1, <2>2
    <3>3. \E k \in 0 .. (n - 1) : NextOf(EligibleVenues) = From(nextIdx, k)
                                  /\ fleet[From(nextIdx, k)] \in EligibleVenues
      BY <1>2, <3>2, NextOfForm
    <3> QED
      BY <2>2, <3>1, <3>3
  <2> QED
    BY <2>1, <2>2
<1> HIDE DEF i, healthy
<1>5. i = ((nextIdx + k) % n) + 1 /\ nextIdx' = (((nextIdx + k) % n) + 1) % n
  BY <1>1, <1>4 DEF From
<1>6. nextIdx' \in 0 .. (n - 1)
  BY <1>2, <1>5, NearerForm
<1>7. waited' \in [VenueIds -> Nat]
  BY <1>1, <1>2
<1>8. ASSUME NEW m \in 0 .. (n - 1)
      PROVE  waited'[fleet[((nextIdx' + m) % n) + 1]] + m < n
  <2> DEFINE t == k + 1 + m
             u == IF t < n THEN t ELSE t - n
             v == fleet[From(nextIdx, u)]
  <2>1. t \in Nat /\ u \in 0 .. (n - 1) /\ u \in Nat
    BY <1>2
  <2>2. (nextIdx' + m) % n = (nextIdx + u) % n
    BY <1>2, <1>5, NearerForm
  <2>3. fleet[((nextIdx' + m) % n) + 1] = v
    BY <2>2 DEF From
  <2>4. v \in VenueIds /\ waited[v] \in Nat
    <3>1. From(nextIdx, u) \in 1 .. n
      <4> HIDE DEF u
      <4> QED
        BY <1>2, <2>1, FromForm
    <3> QED
      BY <1>2, <3>1
  <2>5. waited[v] + u < n
    <3> HIDE DEF u
    <3> QED
      BY <2>1 DEF AdminInv, TurnComes
  <2>6. v \in ConnectedVenues => k <= u
    <3> HIDE DEF u
    <3> QED
      BY <1>4, <2>1
  <2>7. u = k => v = fleet[i]
    BY <1>4
  <2> HIDE DEF v
  <2>8. waited'[v] = (IF v = fleet[i] \/ v \notin ConnectedVenues THEN 0 ELSE waited[v] + 1)
    BY <1>1, <2>4
  <2>9. waited'[v] + m < n
    <3>1. CASE v = fleet[i] \/ v \notin ConnectedVenues
      BY <1>2, <2>8, <3>1
    <3>2. CASE ~(v = fleet[i] \/ v \notin ConnectedVenues)
      <4>1. k <= u /\ u # k /\ waited'[v] = waited[v] + 1
        BY <2>6, <2>7, <2>8, <3>2
      <4>2. t < n
        BY <1>2, <4>1
      <4> QED
        BY <1>2, <2>4, <2>5, <4>1, <4>2
    <3> QED
      BY <3>1, <3>2
  <2> QED
    BY <2>3, <2>9
<1>9. TurnComes'
  <2>1. \A v \in VenueIds \ Served : waited'[v] = 0
    BY <1>1, <1>3
  <2>2. Served' = Served /\ Len(fleet') = n /\ fleet' = fleet
    BY <1>1 DEF Served
  <2> QED
    BY <1>8, <2>1, <2>2 DEF TurnComes, From
<1>10. StoredOffIsNotRouted'
  <2> DEFINE w == fleet[i]
  <2>1. w \in VenueIds /\ Eligible(records[w])
    BY <1>3, <1>4 DEF EligibleVenues
  <2>2. Sent(w)
    BY <1>1
  <2> HIDE DEF w
  <2> QED
    BY <2>1, <2>2, SentForm
<1>11. AdminShaped' /\ RecordsNormal'
  BY <1>1, <1>7 DEF AdminInv, AdminShaped, RecordsNormal
<1>12. AdminTypeOK'
  BY <1>1, <1>6, <1>11, TypeFrom DEF AdminInv, AdminTypeOK
<1>13. Agreement'
  BY <1>1, AgreementKept DEF AdminInv
<1> QED
  BY <1>9, <1>10, <1>11, <1>12, <1>13 DEF AdminInv

(* Requests.  Two of one venue make it unsafe, so a request that is alone  *)
(* sees the records and limits it left.                                    *)
LEMMA AcceptStep ==
  ASSUME AdminInv, NEW h \in Requests, NEW op \in AdminOps \ {"none"}, NEW v \in VenueIds,
         NEW rec \in VenueRecord, Accept(h, op, v, rec, "apply"),
         UNCHANGED <<fleet, toLoad, phase, limits, table, links, muted, nextIdx, strayed>>,
         \/ op # "delete" /\ UNCHANGED <<records, waited>>
         \/ /\ op = "delete" /\ records[v] # NoRecord
            /\ rec = [records[v] EXCEPT !.on = FALSE]
            /\ records' = [records EXCEPT ![v] = rec]
            /\ waited' = [waited EXCEPT ![v] = 0]
  PROVE  AdminInv'
<1> DEFINE new == [op |-> op, venue |-> v, rec |-> rec, at |-> "apply"]
<1>1. /\ phase = "serving" /\ writer[h].at = "idle"
      /\ writer' = [writer EXCEPT ![h] = new]
      /\ unsafe' = IF Others(h, v) = {} THEN unsafe ELSE unsafe \cup {v}
  BY DEF Accept
<1>2. AdminShaped /\ RecordsNormal /\ AdminTypeOK /\ Agreement /\ TurnComes /\ StoredOffIsNotRouted
  BY DEF AdminInv
<1>0. records \in [VenueIds -> VenueRecord] /\ waited \in [VenueIds -> Nat]
  BY <1>2 DEF AdminShaped
<1>3. ASSUME op = "delete" PROVE rec = Normalised(rec) /\ rec.on = FALSE
  <2>1. records[v] # NoRecord /\ rec = [records[v] EXCEPT !.on = FALSE]
    BY <1>3
  <2>2. records[v] \in VenueRecord /\ records[v] = Normalised(records[v])
    BY <1>0, <1>2, <2>1 DEF RecordsNormal
  <2> DEFINE x == records[v]
  <2>3. x \in VenueRecord /\ x = Normalised(x) /\ rec = [x EXCEPT !.on = FALSE]
    BY <2>1, <2>2
  <2> HIDE DEF x
  <2> QED
    BY <2>3, OffForm
<1>4. /\ records' \in [VenueIds -> VenueRecord] /\ waited' \in [VenueIds -> Nat]
      /\ \A w \in VenueIds \ {v} : records'[w] = records[w]
      /\ op = "delete" => records'[v] = rec
      /\ op # "delete" => records' = records
      /\ \A w \in VenueIds : waited'[w] = waited[w] \/ waited'[w] = 0
  <2>1. CASE op # "delete"
    <3>1. records' = records /\ waited' = waited
      BY <2>1
    <3> QED
      BY <1>0, <2>1, <3>1
  <2>2. CASE op = "delete"
    <3>1. records' = [records EXCEPT ![v] = rec] /\ waited' = [waited EXCEPT ![v] = 0]
      BY <2>2
    <3> QED
      BY <1>0, <2>2, <3>1
  <2> QED
    BY <2>1, <2>2
<1>5. new \in [op : AdminOps, venue : VenueIds \cup {"none"}, rec : VenueRecord, at : WriteStages]
  BY DEF WriteStages
<1>6. /\ writer'[h] = new /\ new.at = "apply" /\ new.venue = v /\ new.rec = rec /\ new.op = op
      /\ \A g \in Requests \ {h} : writer'[g] = writer[g]
  <2>1. writer \in [Requests -> [op : AdminOps, venue : VenueIds \cup {"none"}, rec : VenueRecord,
                                 at : WriteStages]]
    BY <1>2 DEF AdminShaped
  <2>2. new.at = "apply" /\ new.venue = v /\ new.rec = rec /\ new.op = op
    OBVIOUS
  <2> HIDE DEF new
  <2> QED
    BY <1>1, <2>1, <2>2
<1> HIDE DEF new
<1>7. writer' \in [Requests -> [op : AdminOps, venue : VenueIds \cup {"none"}, rec : VenueRecord,
                                at : WriteStages]]
  BY <1>1, <1>2, <1>5 DEF AdminShaped
<1>8. AdminShaped'
  <2>1. \A g \in Requests : writer'[g].at # "idle" => writer'[g].venue \in VenueIds
    BY <1>2, <1>6 DEF AdminShaped
  <2> QED
    BY <1>2, <1>4, <1>7, <2>1 DEF AdminShaped
<1>9. RecordsNormal'
  BY <1>2, <1>3, <1>4 DEF RecordsNormal
<1>10. AdminTypeOK'
  <2>1. unsafe' \subseteq VenueIds
    BY <1>1, <1>2 DEF AdminTypeOK
  <2> QED
    BY <1>2, <1>8, <1>9, <2>1, TypeFrom DEF AdminTypeOK
<1>11. PhaseIsKept'
  BY <1>1, <1>2 DEF Agreement, PhaseIsKept
<1>12. unsafe \subseteq unsafe' /\ (v \notin unsafe' => \A g \in Requests \ {h} :
                                      writer[g].at # "idle" => writer[g].venue # v)
  BY <1>1 DEF Others
<1>13. OneWriter'
  BY <1>2, <1>6, <1>12 DEF Agreement, OneWriter
<1>14. LoadedAgree'
  <2> SUFFICES ASSUME NEW w \in (VenueIds \ unsafe') \ toLoad', table'[w] # NoRecord, ~Writing(w)'
               PROVE  Agree(w)'
    BY DEF LoadedAgree
  <2>1. w # v
    BY <1>6 DEF Writing
  <2>2. ~Writing(w)
    BY <1>1, <1>6 DEF Writing
  <2>3. Agree(w)
    BY <1>1, <1>2, <1>12, <2>2 DEF Agreement, LoadedAgree
  <2> QED
    BY <1>4, <2>1, <2>3 DEF Agree, Served
<1>15. WritersKnow'
  <2> SUFFICES ASSUME NEW g \in Requests, writer'[g].at # "idle", writer'[g].venue \notin unsafe'
               PROVE  Knows(writer[g])'
    BY DEF WritersKnow
  <2>1. CASE g = h
    BY <1>3, <1>4, <1>6, <2>1 DEF Knows
  <2>2. CASE g # h
    <3>1. /\ writer'[g] = writer[g] /\ writer[g].venue # v /\ writer[g].venue \in VenueIds
          /\ Knows(writer[g])
      BY <1>2, <1>6, <1>12, <2>2 DEF AdminShaped, Agreement, WritersKnow
    <3>2. records'[writer[g].venue] = records[writer[g].venue]
      BY <1>4, <3>1
    <3> QED
      BY <3>1, <3>2 DEF Knows, Served
  <2> QED
    BY <2>1, <2>2
<1>16. TurnComes'
  BY <1>2, <1>4, TurnsKept DEF AdminTypeOK
<1>17. StoredOffIsNotRouted'
  BY <1>2 DEF StoredOffIsNotRouted
<1> QED
  BY <1>8, <1>9, <1>10, <1>11, <1>13, <1>14, <1>15, <1>16, <1>17 DEF AdminInv, Agreement

LEMMA RequestSteps ==
  ASSUME VenueAdminAssumption, AdminInv, NEW h \in Requests,
         PutVenue(h) \/ Disable(h) \/ Enable(h) \/ SetRouting(h) \/ DeleteVenue(h)
  PROVE  AdminInv'
<1>0. records \in [VenueIds -> VenueRecord] /\ Managed \subseteq VenueIds
  BY DEF AdminInv, AdminShaped, VenueAdminAssumption
<1>1. CASE PutVenue(h)
  <2>1. PICK v \in Managed, p \in VenuePatches :
          /\ Accept(h, "put", v, Patched(IF records[v] = NoRecord THEN Fresh ELSE records[v], p), "apply")
          /\ UNCHANGED <<fleet, phase, toLoad, records, limits, table, links, muted, nextIdx, waited, strayed>>
    BY <1>1 DEF PutVenue
  <2>2. Fresh \in VenueRecord
    BY DEF Fresh, VenueRecord, VenueModes
  <2>3. \A rec \in VenueRecord : Patched(rec, p) \in VenueRecord
    <3>1. p.mode \in VenueModes /\ p.limit \in Int
      BY DEF VenueAdminAssumption, VenueModes
    <3> SUFFICES ASSUME NEW rec \in VenueRecord PROVE Patched(rec, p) \in VenueRecord
      OBVIOUS
    <3>2. rec.on \in BOOLEAN /\ rec.mode \in VenueModes /\ rec.limit \in Int
      BY DEF VenueRecord
    <3> QED
      BY <3>1, <3>2 DEF Patched, VenueRecord
  <2> DEFINE rec == Patched(IF records[v] = NoRecord THEN Fresh ELSE records[v], p)
  <2>4. rec \in VenueRecord /\ v \in VenueIds
    BY <1>0, <2>2, <2>3
  <2>5. "put" \in AdminOps \ {"none"} /\ "put" # "delete"
    BY DEF AdminOps
  <2> HIDE DEF rec
  <2>6. Accept(h, "put", v, rec, "apply")
    BY <2>1 DEF rec
  <2> QED
    BY <2>1, <2>4, <2>5, <2>6, AcceptStep
<1>2. ASSUME NEW v \in Managed, NEW op \in {"disable", "enable", "routing", "delete"},
             NEW rec \in VenueRecord, Accept(h, op, v, rec, "apply"),
             UNCHANGED <<fleet, phase, toLoad, limits, table, links, muted, nextIdx, strayed>>,
             \/ op # "delete" /\ UNCHANGED <<records, waited>>
             \/ /\ op = "delete" /\ records[v] # NoRecord
                /\ rec = [records[v] EXCEPT !.on = FALSE]
                /\ records' = [records EXCEPT ![v] = rec]
                /\ waited' = [waited EXCEPT ![v] = 0]
      PROVE  AdminInv'
  <2>1. op \in AdminOps \ {"none"} /\ v \in VenueIds
    BY <1>0 DEF AdminOps
  <2> QED
    BY <1>2, <2>1, AcceptStep
<1>3. \A v \in VenueIds, on \in BOOLEAN : [records[v] EXCEPT !.on = on] \in VenueRecord
  BY <1>0 DEF VenueRecord
<1>4. \A v \in VenueIds, mode \in {"watch", "auto"} : [records[v] EXCEPT !.mode = mode] \in VenueRecord
  BY <1>0 DEF VenueRecord, VenueModes
<1>5. CASE Disable(h)
  <2>1. PICK v \in Managed :
          /\ Accept(h, "disable", v, [records[v] EXCEPT !.on = FALSE], "apply")
          /\ UNCHANGED <<fleet, phase, toLoad, records, limits, table, links, muted, nextIdx, waited, strayed>>
    BY <1>5 DEF Disable
  <2> QED
    BY <1>0, <1>2, <1>3, <2>1
<1>6. CASE Enable(h)
  <2>1. PICK v \in Managed :
          /\ Accept(h, "enable", v, [records[v] EXCEPT !.on = TRUE], "apply")
          /\ UNCHANGED <<fleet, phase, toLoad, records, limits, table, links, muted, nextIdx, waited, strayed>>
    BY <1>6 DEF Enable
  <2> QED
    BY <1>0, <1>2, <1>3, <2>1
<1>7. CASE SetRouting(h)
  <2>1. PICK v \in Managed, mode \in {"watch", "auto"} :
          /\ Accept(h, "routing", v, [records[v] EXCEPT !.mode = mode], "apply")
          /\ UNCHANGED <<fleet, phase, toLoad, records, limits, table, links, muted, nextIdx, waited, strayed>>
    BY <1>7 DEF SetRouting
  <2> QED
    BY <1>0, <1>2, <1>4, <2>1
<1>8. CASE DeleteVenue(h)
  <2>1. PICK v \in Managed :
          /\ records[v] # NoRecord
          /\ Accept(h, "delete", v, [records[v] EXCEPT !.on = FALSE], "apply")
          /\ records' = [records EXCEPT ![v].on = FALSE]
          /\ waited' = [waited EXCEPT ![v] = 0]
          /\ UNCHANGED <<fleet, phase, toLoad, limits, table, links, muted, nextIdx, strayed>>
    BY <1>8 DEF DeleteVenue
  <2>2. records' = [records EXCEPT ![v] = [records[v] EXCEPT !.on = FALSE]]
    BY <1>0, <2>1
  <2> QED
    BY <1>0, <1>2, <1>3, <2>1, <2>2
<1> QED
  BY <1>1, <1>5, <1>6, <1>7, <1>8

LEMMA LoadRowsStep == ASSUME AdminInv, LoadRows PROVE AdminInv'
<1>1. /\ phase = "seeded" /\ phase' = (IF toLoad' = {} THEN "serving" ELSE "loading")
      /\ toLoad' \subseteq VenueIds /\ unsafe \subseteq unsafe'
      /\ unsafe' \subseteq unsafe \cup VenueIds
      /\ \A w \in VenueIds : table[w] # NoRecord => w \in toLoad' \/ w \in unsafe'
      /\ UNCHANGED <<fleet, records, limits, table, writer, links, muted, nextIdx, waited, strayed>>
  BY DEF LoadRows
<1>2. AdminShaped /\ RecordsNormal /\ AdminTypeOK /\ Agreement /\ TurnComes /\ StoredOffIsNotRouted
  BY DEF AdminInv
<1>3. \A h \in Requests : writer'[h].at = "idle"
  BY <1>1, <1>2 DEF Agreement, PhaseIsKept
<1>4. AdminShaped' /\ RecordsNormal'
  BY <1>1, <1>2 DEF AdminShaped, RecordsNormal
<1>5. AdminTypeOK'
  <2>1. phase' \in {"seeded", "loading", "serving"}
    BY <1>1
  <2> QED
    BY <1>1, <1>2, <1>4, <2>1, TypeFrom DEF AdminTypeOK
<1>6. PhaseIsKept' /\ OneWriter' /\ WritersKnow'
  BY <1>1, <1>3 DEF PhaseIsKept, OneWriter, WritersKnow
<1>7. LoadedAgree'
  BY <1>1 DEF LoadedAgree
<1>8. TurnComes'
  BY <1>1, <1>2, TurnsKept DEF AdminTypeOK
<1>9. StoredOffIsNotRouted'
  BY <1>1, <1>2 DEF StoredOffIsNotRouted
<1> QED
  BY <1>4, <1>5, <1>6, <1>7, <1>8, <1>9 DEF AdminInv, Agreement

(* A row that is loaded reaches the record and the adapter.                *)
LEMMA LoadRowStep == ASSUME AdminInv, NEW v \in VenueIds, LoadRow(v) PROVE AdminInv'
<1>1. /\ phase = "loading" /\ v \in toLoad /\ ApplyRuntimeConfig(v, table[v])
      /\ records' = [records EXCEPT ![v] = Normalised(table[v])]
      /\ toLoad' = toLoad \ {v}
      /\ phase' = (IF toLoad' = {} THEN "serving" ELSE phase)
      /\ UNCHANGED <<fleet, table, writer, muted, nextIdx, strayed, unsafe>>
  BY DEF LoadRow
<1>2. AdminShaped /\ RecordsNormal /\ AdminTypeOK /\ Agreement /\ TurnComes /\ StoredOffIsNotRouted
  BY DEF AdminInv
<1>3. /\ records \in [VenueIds -> VenueRecord] /\ table \in [VenueIds -> VenueRecord]
      /\ waited \in [VenueIds -> Nat]
  BY <1>2 DEF AdminShaped
<1>4. waited' = waited \/ waited' = [waited EXCEPT ![v] = 0]
  BY DEF LoadRow
<1>5. /\ waited' \in [VenueIds -> Nat]
      /\ \A w \in VenueIds : waited'[w] = waited[w] \/ waited'[w] = 0
  BY <1>3, <1>4
<1> DEFINE row == table[v]
<1>6. row \in VenueRecord /\ ApplyRuntimeConfig(v, row) /\ records' = [records EXCEPT ![v] = Normalised(row)]
  BY <1>1, <1>3
<1> HIDE DEF row
<1>7. /\ limits' \in [VenueIds -> Nat \ {0}] /\ links' \in [VenueIds -> {"up", "down"}]
      /\ v \in Served => limits'[v] = Normalised(row).limit
      /\ \A w \in VenueIds \ {v} : limits'[w] = limits[w]
  BY <1>2, <1>6, AppliedForm
<1>8. /\ records' \in [VenueIds -> VenueRecord] /\ records'[v] = Normalised(row)
      /\ Normalised(records'[v]) = records'[v]
      /\ \A w \in VenueIds \ {v} : records'[w] = records[w]
  BY <1>3, <1>6, NormalForm
<1>9. AdminShaped'
  BY <1>1, <1>2, <1>5, <1>7, <1>8 DEF AdminShaped
<1>10. RecordsNormal'
  BY <1>2, <1>8 DEF RecordsNormal
<1>11. AdminTypeOK'
  <2>1. phase' \in {"seeded", "loading", "serving"} /\ toLoad' \subseteq VenueIds
    BY <1>1, <1>2 DEF AdminTypeOK
  <2> QED
    BY <1>1, <1>2, <1>9, <1>10, <2>1, TypeFrom DEF AdminTypeOK
<1>12. \A h \in Requests : writer'[h].at = "idle"
  BY <1>1, <1>2 DEF Agreement, PhaseIsKept
<1>13. PhaseIsKept' /\ OneWriter' /\ WritersKnow'
  BY <1>1, <1>12 DEF PhaseIsKept, OneWriter, WritersKnow
<1>14. LoadedAgree'
  <2> SUFFICES ASSUME NEW w \in (VenueIds \ unsafe') \ toLoad', table'[w] # NoRecord
               PROVE  Agree(w)'
    BY DEF LoadedAgree
  <2>1. CASE w = v
    BY <1>1, <1>7, <1>8, <2>1 DEF Agree, Served, row
  <2>2. CASE w # v
    <3>1. ~Writing(w)
      BY <1>1, <1>12 DEF Writing
    <3>2. Agree(w)
      BY <1>1, <1>2, <2>2, <3>1 DEF Agreement, LoadedAgree
    <3> QED
      BY <1>1, <1>7, <1>8, <2>2, <3>2 DEF Agree, Served
  <2> QED
    BY <2>1, <2>2
<1>15. TurnComes'
  BY <1>1, <1>2, <1>5, TurnsKept DEF AdminTypeOK
<1>16. StoredOffIsNotRouted'
  BY <1>1, <1>2 DEF StoredOffIsNotRouted
<1> QED
  BY <1>9, <1>10, <1>11, <1>13, <1>14, <1>15, <1>16 DEF AdminInv, Agreement

(* A step of a request in progress: it leaves the other venues alone, and  *)
(* no other request knows anything of a venue that is safe.                *)
LEMMA WriterStep ==
  ASSUME AdminInv, NEW h \in Requests, NEW v, v = writer[h].venue, writer[h].at # "idle",
         NEW next \in [op : AdminOps, venue : VenueIds \cup {"none"}, rec : VenueRecord, at : WriteStages],
         next.at # "idle" => next.venue = v /\ next.op = writer[h].op,
         writer' = [writer EXCEPT ![h] = next],
         UNCHANGED <<fleet, phase, toLoad, muted, nextIdx, strayed>>,
         records' \in [VenueIds -> VenueRecord], table' \in [VenueIds -> VenueRecord],
         limits' \in [VenueIds -> Nat \ {0}], links' \in [VenueIds -> {"up", "down"}],
         waited' \in [VenueIds -> Nat],
         \A w \in VenueIds : waited'[w] = waited[w] \/ waited'[w] = 0,
         \A w \in VenueIds \ {v} : records'[w] = records[w] /\ table'[w] = table[w] /\ limits'[w] = limits[w],
         unsafe' = unsafe \/ unsafe' = unsafe \cup {v},
         records'[v] = NoRecord \/ records'[v] = Normalised(records'[v]),
         next.at # "idle" /\ v \notin unsafe => Knows(writer[h])',
         next.at = "idle" /\ v \notin unsafe' /\ table'[v] # NoRecord => Agree(v)'
  PROVE  AdminInv'
<1>1. AdminShaped /\ RecordsNormal /\ AdminTypeOK /\ Agreement /\ TurnComes /\ StoredOffIsNotRouted
  BY DEF AdminInv
<1>2. writer \in [Requests -> [op : AdminOps, venue : VenueIds \cup {"none"}, rec : VenueRecord,
                              at : WriteStages]]
      /\ v \in VenueIds
  BY <1>1 DEF AdminShaped
<1>3. /\ writer' \in [Requests -> [op : AdminOps, venue : VenueIds \cup {"none"}, rec : VenueRecord,
                                at : WriteStages]]
      /\ writer'[h] = next /\ \A g \in Requests \ {h} : writer'[g] = writer[g]
  BY <1>2
<1>4. AdminShaped'
  <2>1. \A g \in Requests : writer'[g].at # "idle" => writer'[g].venue \in VenueIds
    BY <1>1, <1>2, <1>3 DEF AdminShaped
  <2> QED
    BY <1>1, <1>3, <2>1 DEF AdminShaped
<1>5. RecordsNormal'
  BY <1>1 DEF RecordsNormal
<1>6. AdminTypeOK'
  <2>1. unsafe' \subseteq VenueIds
    BY <1>1, <1>2 DEF AdminTypeOK
  <2> QED
    BY <1>1, <1>4, <1>5, <2>1, TypeFrom DEF AdminTypeOK
<1>7. phase = "serving" /\ toLoad = {}
  BY <1>1 DEF Agreement, PhaseIsKept
<1>8. PhaseIsKept'
  BY <1>7 DEF PhaseIsKept
<1>9. unsafe \subseteq unsafe'
  OBVIOUS
<1>10. OneWriter'
  <2>1. \A g \in Requests : writer'[g].at # "idle" => writer[g].at # "idle" /\ writer'[g].venue = writer[g].venue
    BY <1>3
  <2>2. OneWriter
    BY <1>1 DEF Agreement
  <2> QED
    BY <1>9, <2>1, <2>2 DEF OneWriter
<1>11. LoadedAgree'
  <2> SUFFICES ASSUME NEW w \in (VenueIds \ unsafe') \ toLoad', table'[w] # NoRecord, ~Writing(w)'
               PROVE  Agree(w)'
    BY DEF LoadedAgree
  <2>1. CASE w = v
    <3>1. next.at = "idle"
      BY <1>3, <2>1 DEF Writing
    <3> QED
      BY <2>1, <3>1
  <2>2. CASE w # v
    <3>1. ~Writing(w)
      BY <1>3, <2>2 DEF Writing
    <3>2. Agree(w)
      BY <1>1, <1>7, <1>9, <2>2, <3>1 DEF Agreement, LoadedAgree
    <3> QED
      BY <2>2, <3>2 DEF Agree, Served
  <2> QED
    BY <2>1, <2>2
<1>12. WritersKnow'
  <2> SUFFICES ASSUME NEW g \in Requests, writer'[g].at # "idle", writer'[g].venue \notin unsafe'
               PROVE  Knows(writer[g])'
    BY DEF WritersKnow
  <2>1. CASE g = h
    BY <1>3, <1>9, <2>1
  <2>2. CASE g # h
    <3>1. writer'[g] = writer[g] /\ writer[g].at # "idle" /\ writer[g].venue \notin unsafe
      BY <1>3, <1>9, <2>2
    <3>2. writer[g].venue # v /\ writer[g].venue \in VenueIds /\ Knows(writer[g])
      BY <1>1, <2>2, <3>1 DEF AdminShaped, Agreement, WritersKnow, OneWriter
    <3>3. records'[writer[g].venue] = records[writer[g].venue] /\ limits'[writer[g].venue] = limits[writer[g].venue]
      BY <3>2
    <3> QED
      BY <3>1, <3>2, <3>3 DEF Knows, Served
  <2> QED
    BY <2>1, <2>2
<1>13. TurnComes'
  BY <1>1, TurnsKept DEF AdminTypeOK
<1>14. StoredOffIsNotRouted'
  BY <1>1 DEF StoredOffIsNotRouted
<1> QED
  BY <1>4, <1>5, <1>6, <1>8, <1>10, <1>11, <1>12, <1>13, <1>14 DEF AdminInv, Agreement

(* What a request in progress may rely on.                                 *)
LEMMA WriterFacts ==
  ASSUME AdminInv, NEW h \in Requests, writer[h].at # "idle"
  PROVE  /\ records \in [VenueIds -> VenueRecord] /\ table \in [VenueIds -> VenueRecord]
         /\ limits \in [VenueIds -> Nat \ {0}] /\ links \in [VenueIds -> {"up", "down"}]
         /\ waited \in [VenueIds -> Nat]
         /\ writer \in [Requests -> [op : AdminOps, venue : VenueIds \cup {"none"}, rec : VenueRecord,
                                     at : WriteStages]]
         /\ writer[h].op \in AdminOps /\ writer[h].venue \in VenueIds /\ writer[h].rec \in VenueRecord
         /\ writer[h].venue \notin unsafe => Knows(writer[h])
         /\ \A w \in VenueIds : records[w] = NoRecord \/ records[w] = Normalised(records[w])
  BY DEF AdminInv, AdminShaped, Agreement, WritersKnow, RecordsNormal

LEMMA MoveForm ==
  ASSUME NEW w \in [op : AdminOps, venue : VenueIds \cup {"none"}, rec : VenueRecord, at : WriteStages],
         NEW at \in WriteStages
  PROVE  [w EXCEPT !.at = at] = [op |-> w.op, venue |-> w.venue, rec |-> w.rec, at |-> at]
<1> DEFINE z == [w EXCEPT !.at = at]
<1>1. /\ z \in [op : AdminOps, venue : VenueIds \cup {"none"}, rec : VenueRecord, at : WriteStages]
      /\ z.op = w.op /\ z.venue = w.venue /\ z.rec = w.rec /\ z.at = at
  OBVIOUS
<1> HIDE DEF z
<1>2. z = [op |-> z.op, venue |-> z.venue, rec |-> z.rec, at |-> z.at]
  BY <1>1
<1>3. z = [op |-> w.op, venue |-> w.venue, rec |-> w.rec, at |-> at]
  BY <1>1, <1>2
<1> QED
  BY <1>3 DEF z

LEMMA ApplyStep == ASSUME AdminInv, NEW h \in Requests, Apply(h) PROVE AdminInv'
<1>1. PICK v, op, rec, at, next :
        /\ v = writer[h].venue /\ op = writer[h].op /\ rec = writer[h].rec
        /\ at = (IF op = "delete" THEN "reread" ELSE "save")
        /\ next = [op |-> op, venue |-> v, rec |-> rec, at |-> at]
  OBVIOUS
<1>2. /\ writer[h].at = "apply" /\ writer' = [writer EXCEPT ![h].at = at] /\ ApplyRuntimeConfig(v, rec)
      /\ UNCHANGED <<fleet, phase, toLoad, records, table, muted, nextIdx, waited, strayed, unsafe>>
  BY <1>1 DEF Apply, Move
<1>3. /\ records \in [VenueIds -> VenueRecord] /\ table \in [VenueIds -> VenueRecord]
      /\ waited \in [VenueIds -> Nat]
      /\ writer \in [Requests -> [op : AdminOps, venue : VenueIds \cup {"none"}, rec : VenueRecord,
                                  at : WriteStages]]
      /\ op \in AdminOps /\ v \in VenueIds /\ rec \in VenueRecord
      /\ v \notin unsafe => Knows(writer[h])
      /\ records[v] = NoRecord \/ records[v] = Normalised(records[v])
  BY <1>1, <1>2, WriterFacts
<1>4. at \in {"reread", "save"} /\ (at = "reread" <=> op = "delete") /\ at \in WriteStages
  BY <1>1 DEF WriteStages
<1>5. writer' = [writer EXCEPT ![h] = next]
  <2>1. [writer[h] EXCEPT !.at = at] = next
    BY <1>1, <1>3, <1>4, MoveForm
  <2> QED
    BY <1>2, <1>3, <2>1
<1>6. next.op = op /\ next.venue = v /\ next.rec = rec /\ next.at = at
  BY <1>1
<1>7. next \in [op : AdminOps, venue : VenueIds \cup {"none"}, rec : VenueRecord, at : WriteStages]
  BY <1>1, <1>3, <1>4
<1>8. /\ limits' \in [VenueIds -> Nat \ {0}] /\ links' \in [VenueIds -> {"up", "down"}]
      /\ v \in Served => limits'[v] = Normalised(rec).limit
      /\ \A w \in VenueIds \ {v} : limits'[w] = limits[w]
  <2>1. AdminShaped
    BY DEF AdminInv
  <2> QED
    BY <1>2, <1>3, <2>1, AppliedForm
<1>9. writer'[h] = next
  BY <1>3, <1>5
<1>10. v \notin unsafe => Knows(writer[h])'
  <2> HAVE v \notin unsafe
  <2>1. op = "delete" => rec = records[v] /\ rec = Normalised(rec) /\ rec.on = FALSE
    BY <1>1, <1>2, <1>3 DEF Knows
  <2>2. Served' = Served /\ records' = records
    BY <1>2 DEF Served
  <2>3. at = "reread" => (v \in Served => limits'[v] = records'[v].limit)
    BY <1>4, <1>8, <2>1, <2>2
  <2>4. at = "save" => (v \in Served => limits'[v] = Normalised(rec).limit)
    BY <1>8
  <2> QED
    BY <1>4, <1>6, <1>9, <2>1, <2>2, <2>3, <2>4 DEF Knows
<1>11. /\ next.at # "idle" /\ writer[h].at # "idle" /\ next.op = writer[h].op
       /\ \A w \in VenueIds : waited'[w] = waited[w] \/ waited'[w] = 0
       /\ \A w \in VenueIds \ {v} : records'[w] = records[w] /\ table'[w] = table[w] /\ limits'[w] = limits[w]
       /\ records' \in [VenueIds -> VenueRecord] /\ table' \in [VenueIds -> VenueRecord]
       /\ waited' \in [VenueIds -> Nat] /\ unsafe' = unsafe
       /\ records'[v] = NoRecord \/ records'[v] = Normalised(records'[v])
       /\ UNCHANGED <<fleet, phase, toLoad, muted, nextIdx, strayed>>
  BY <1>1, <1>2, <1>3, <1>4, <1>6, <1>8
<1> QED
  BY <1>1, <1>5, <1>6, <1>7, <1>8, <1>10, <1>11, WriterStep

LEMMA SaveStep == ASSUME AdminInv, NEW h \in Requests, Save(h) PROVE AdminInv'
<1>1. PICK v, rec, next :
        /\ v = writer[h].venue /\ rec = writer[h].rec
        /\ next = [op |-> writer[h].op, venue |-> v, rec |-> rec, at |-> "persist"]
  OBVIOUS
<1>2. /\ writer[h].at = "save" /\ writer' = [writer EXCEPT ![h].at = "persist"]
      /\ records' = [records EXCEPT ![v] = Normalised(rec)]
      /\ waited' = waited \/ waited' = [waited EXCEPT ![v] = 0]
      /\ UNCHANGED <<fleet, phase, toLoad, limits, table, links, muted, nextIdx, strayed, unsafe>>
  BY <1>1 DEF Save, Move
<1>3. /\ records \in [VenueIds -> VenueRecord] /\ table \in [VenueIds -> VenueRecord]
      /\ limits \in [VenueIds -> Nat \ {0}] /\ links \in [VenueIds -> {"up", "down"}]
      /\ waited \in [VenueIds -> Nat]
      /\ writer \in [Requests -> [op : AdminOps, venue : VenueIds \cup {"none"}, rec : VenueRecord,
                                  at : WriteStages]]
      /\ writer[h].op \in AdminOps /\ v \in VenueIds /\ rec \in VenueRecord
      /\ v \notin unsafe => Knows(writer[h])
  BY <1>1, <1>2, WriterFacts
<1>4. writer' = [writer EXCEPT ![h] = next]
  <2>0. "persist" \in WriteStages
    BY DEF WriteStages
  <2>1. [writer[h] EXCEPT !.at = "persist"] = next
    BY <1>1, <1>3, <2>0, MoveForm
  <2> QED
    BY <1>2, <1>3, <2>1
<1>5. next.op = writer[h].op /\ next.venue = v /\ next.rec = rec /\ next.at = "persist"
  BY <1>1
<1>6. next \in [op : AdminOps, venue : VenueIds \cup {"none"}, rec : VenueRecord, at : WriteStages]
  BY <1>1, <1>3 DEF WriteStages
<1>7. writer'[h] = next
  BY <1>3, <1>4
<1>8. /\ records' \in [VenueIds -> VenueRecord] /\ records'[v] = Normalised(rec)
      /\ records'[v] = Normalised(records'[v])
      /\ \A w \in VenueIds \ {v} : records'[w] = records[w]
  BY <1>2, <1>3, NormalForm
<1>9. /\ waited' \in [VenueIds -> Nat]
      /\ \A w \in VenueIds : waited'[w] = waited[w] \/ waited'[w] = 0
  BY <1>2, <1>3
<1>10. v \notin unsafe => Knows(writer[h])'
  <2>1. v \notin unsafe /\ v \in Served => limits[v] = Normalised(rec).limit
    BY <1>1, <1>2, <1>3 DEF Knows
  <2>2. Served' = Served /\ limits' = limits
    BY <1>2 DEF Served
  <2> QED
    BY <1>5, <1>7, <1>8, <2>1, <2>2 DEF Knows
<1>11. /\ next.at # "idle" /\ writer[h].at # "idle" /\ next.op = writer[h].op
       /\ \A w \in VenueIds \ {v} : records'[w] = records[w] /\ table'[w] = table[w] /\ limits'[w] = limits[w]
       /\ table' \in [VenueIds -> VenueRecord] /\ unsafe' = unsafe
       /\ limits' \in [VenueIds -> Nat \ {0}] /\ links' \in [VenueIds -> {"up", "down"}]
       /\ UNCHANGED <<fleet, phase, toLoad, muted, nextIdx, strayed>>
  BY <1>2, <1>3, <1>5, <1>8
<1> QED
  BY <1>1, <1>4, <1>5, <1>6, <1>8, <1>9, <1>10, <1>11, WriterStep

LEMMA RereadStep == ASSUME AdminInv, NEW h \in Requests, Reread(h) PROVE AdminInv'
<1>1. PICK v, rec, next :
        /\ v = writer[h].venue /\ rec = [records[v] EXCEPT !.on = FALSE]
        /\ next = [op |-> writer[h].op, venue |-> v, rec |-> rec, at |-> "persist"]
  OBVIOUS
<1>2. /\ writer[h].at = "reread" /\ writer' = [writer EXCEPT ![h].rec = rec, ![h].at = "persist"]
      /\ UNCHANGED <<fleet, phase, toLoad, records, limits, table, links, muted, nextIdx, waited, strayed, unsafe>>
  BY <1>1 DEF Reread
<1>3. /\ records \in [VenueIds -> VenueRecord] /\ table \in [VenueIds -> VenueRecord]
      /\ limits \in [VenueIds -> Nat \ {0}] /\ links \in [VenueIds -> {"up", "down"}]
      /\ waited \in [VenueIds -> Nat]
      /\ writer \in [Requests -> [op : AdminOps, venue : VenueIds \cup {"none"}, rec : VenueRecord,
                                  at : WriteStages]]
      /\ writer[h].op \in AdminOps /\ v \in VenueIds
      /\ v \notin unsafe => Knows(writer[h])
      /\ records[v] = NoRecord \/ records[v] = Normalised(records[v])
  BY <1>1, <1>2, WriterFacts
<1>4. rec \in VenueRecord
  <2>1. records[v] \in VenueRecord
    BY <1>3
  <2> QED
    BY <1>1, <2>1 DEF VenueRecord
<1>5. writer' = [writer EXCEPT ![h] = next]
  BY <1>1, <1>2, <1>3
<1>6. next.op = writer[h].op /\ next.venue = v /\ next.rec = rec /\ next.at = "persist"
  BY <1>1
<1>7. next \in [op : AdminOps, venue : VenueIds \cup {"none"}, rec : VenueRecord, at : WriteStages]
  BY <1>1, <1>3, <1>4 DEF WriteStages
<1>8. writer'[h] = next
  BY <1>3, <1>5
<1>9. v \notin unsafe => Knows(writer[h])'
  <2> HAVE v \notin unsafe
  <2>1. /\ writer[h].rec = records[v] /\ records[v] = Normalised(records[v]) /\ records[v].on = FALSE
        /\ v \in Served => limits[v] = records[v].limit
    BY <1>1, <1>2, <1>3 DEF Knows
  <2>2. rec = records[v]
    BY <1>1, <1>3, <2>1, OffForm
  <2>3. Served' = Served /\ limits' = limits /\ records' = records
    BY <1>2 DEF Served
  <2> QED
    BY <1>6, <1>8, <2>1, <2>2, <2>3 DEF Knows
<1>10. writer[h].at # "idle" /\ next.at # "idle"
  BY <1>2, <1>6
<1> QED
  BY <1>1, <1>2, <1>3, <1>5, <1>6, <1>7, <1>9, <1>10, WriterStep

LEMMA IdleFields ==
  Idle \in [op : AdminOps, venue : VenueIds \cup {"none"}, rec : VenueRecord, at : WriteStages]
  /\ Idle.at = "idle"
  BY NoRecordForm DEF Idle, AdminOps, WriteStages

(* The row that is written is the one the record was made from.            *)
LEMMA PersistSteps ==
  ASSUME AdminInv, NEW h \in Requests, Persist(h) \/ PersistFails(h) PROVE AdminInv'
<1>1. PICK v, rec, next : v = writer[h].venue /\ rec = writer[h].rec /\ next = Idle
  OBVIOUS
<1>2. /\ writer[h].at = "persist" /\ writer' = [writer EXCEPT ![h] = next]
      /\ UNCHANGED <<fleet, phase, toLoad, records, limits, links, muted, nextIdx, waited, strayed>>
      /\ \/ table' = [table EXCEPT ![v] = rec] /\ unsafe' = unsafe
         \/ table' = table /\ unsafe' = unsafe \cup {v}
  BY <1>1 DEF Persist, PersistFails
<1>3. /\ records \in [VenueIds -> VenueRecord] /\ table \in [VenueIds -> VenueRecord]
      /\ limits \in [VenueIds -> Nat \ {0}] /\ links \in [VenueIds -> {"up", "down"}]
      /\ waited \in [VenueIds -> Nat] /\ v \in VenueIds /\ rec \in VenueRecord
      /\ v \notin unsafe => Knows(writer[h])
      /\ records[v] = NoRecord \/ records[v] = Normalised(records[v])
  BY <1>1, <1>2, WriterFacts
<1>4. next \in [op : AdminOps, venue : VenueIds \cup {"none"}, rec : VenueRecord, at : WriteStages]
      /\ next.at = "idle"
  BY <1>1, IdleFields
<1>5. /\ table' \in [VenueIds -> VenueRecord]
      /\ \A w \in VenueIds \ {v} : table'[w] = table[w]
      /\ v \notin unsafe' => table'[v] = rec /\ v \notin unsafe
  BY <1>2, <1>3
<1>6. v \notin unsafe' => Agree(v)'
  <2> HAVE v \notin unsafe'
  <2>1. records[v] = Normalised(rec) /\ (v \in Served => limits[v] = records[v].limit)
    BY <1>1, <1>2, <1>3, <1>5 DEF Knows
  <2>2. Served' = Served /\ limits' = limits /\ records' = records /\ table'[v] = rec
    BY <1>2, <1>5 DEF Served
  <2> QED
    BY <2>1, <2>2 DEF Agree
<1>7. /\ writer[h].at # "idle" /\ (unsafe' = unsafe \/ unsafe' = unsafe \cup {v})
      /\ \A w \in VenueIds \ {v} : records'[w] = records[w] /\ table'[w] = table[w] /\ limits'[w] = limits[w]
      /\ \A w \in VenueIds : waited'[w] = waited[w] \/ waited'[w] = 0
      /\ records' \in [VenueIds -> VenueRecord] /\ waited' \in [VenueIds -> Nat]
      /\ limits' \in [VenueIds -> Nat \ {0}] /\ links' \in [VenueIds -> {"up", "down"}]
      /\ records'[v] = NoRecord \/ records'[v] = Normalised(records'[v])
      /\ UNCHANGED <<fleet, phase, toLoad, muted, nextIdx, strayed>>
  BY <1>2, <1>3, <1>5
<1>8. writer' = [writer EXCEPT ![h] = next]
  BY <1>2
<1>9. /\ next.at # "idle" => next.venue = v /\ next.op = writer[h].op
      /\ next.at # "idle" /\ v \notin unsafe => Knows(writer[h])'
      /\ next.at = "idle" /\ v \notin unsafe' /\ table'[v] # NoRecord => Agree(v)'
  BY <1>4, <1>6
<1>10. v = writer[h].venue
  BY <1>1
<1> QED
  BY <1>4, <1>5, <1>7, <1>8, <1>9, <1>10, WriterStep

LEMMA RebootStep == ASSUME VenueAdminAssumption, AdminInv, Reboot PROVE AdminInv'
<1>1. /\ fleet' = fleet /\ phase' = "seeded" /\ toLoad' = {} /\ table' = table
      /\ records' = Seeded(fleet)
      /\ limits' = [v \in VenueIds |-> OwnLimit] /\ links' = [v \in VenueIds |-> "up"]
      /\ muted' = {} /\ nextIdx' = 0 /\ waited' = [v \in VenueIds |-> 0] /\ strayed' = {}
      /\ writer' = [h \in Requests |-> Idle]
      /\ unsafe' = unsafe \cup {writer[h].venue : h \in {g \in Requests : writer[g].at # "idle"}}
  BY DEF Reboot, StartsWith
<1>2. AdminShaped /\ AdminTypeOK
  BY DEF AdminInv
<1>3. records' \in [VenueIds -> VenueRecord] /\ RecordsNormal'
  BY <1>1, SeededForm DEF RecordsNormal
<1>4. writer' \in [Requests -> [op : AdminOps, venue : VenueIds \cup {"none"}, rec : VenueRecord,
                               at : WriteStages]]
  BY <1>1, IdleForm
<1>5. \A h \in Requests : writer'[h].at = "idle"
  BY <1>1, IdleFields
<1>6. /\ limits' \in [VenueIds -> Nat \ {0}] /\ links' \in [VenueIds -> {"up", "down"}]
      /\ waited' \in [VenueIds -> Nat]
  BY <1>1 DEF VenueAdminAssumption
<1>7. AdminShaped'
  BY <1>1, <1>2, <1>3, <1>4, <1>5, <1>6 DEF AdminShaped
<1>8. AdminTypeOK'
  <2>1. unsafe' \subseteq VenueIds
    BY <1>1, <1>2 DEF AdminShaped, AdminTypeOK
  <2>2. nextIdx' \in 0 .. (Len(fleet') - 1)
    BY <1>1, <1>2 DEF AdminShaped
  <2> QED
    BY <1>1, <1>2, <1>3, <1>7, <2>1, <2>2, TypeFrom
<1>9. Agreement'
  BY <1>1, <1>5 DEF Agreement, PhaseIsKept, LoadedAgree, OneWriter, WritersKnow
<1>10. TurnComes'
  <2>1. fleet \in Seq(VenueIds) /\ Len(fleet) > 0 /\ Len(fleet) \in Nat
    BY <1>2 DEF AdminShaped
  <2>2. ASSUME NEW k \in 0 .. (Len(fleet) - 1)
        PROVE  waited'[fleet[((0 + k) % Len(fleet)) + 1]] + k < Len(fleet)
    <3>1. (0 + k) % Len(fleet) = k
      BY <2>1, <2>2
    <3>2. fleet[((0 + k) % Len(fleet)) + 1] \in VenueIds
      BY <2>1, <2>2, <3>1
    <3> QED
      BY <1>1, <2>1, <2>2, <3>2
  <2>3. \A v \in VenueIds : waited'[v] = 0
    BY <1>1
  <2> QED
    BY <1>1, <2>2, <2>3 DEF TurnComes, From
<1>11. StoredOffIsNotRouted'
  BY <1>1 DEF StoredOffIsNotRouted
<1> QED
  BY <1>3, <1>7, <1>8, <1>9, <1>10, <1>11 DEF AdminInv

(* Every adapter of the fleet has its turn.                                *)
LEMMA FromOnto ==
  ASSUME fleet \in Seq(VenueIds), Len(fleet) > 0, nextIdx \in 0 .. (Len(fleet) - 1),
         NEW v \in Served
  PROVE  \E k \in 0 .. (Len(fleet) - 1) : fleet[From(nextIdx, k)] = v
<1> DEFINE n == Len(fleet)
<1>1. n \in Nat \ {0}
  OBVIOUS
<1>2. PICK i \in 1 .. n : v = fleet[i]
  BY DEF Served
<1> DEFINE k == IF nextIdx <= i - 1 THEN (i - 1) - nextIdx ELSE (i - 1) - nextIdx + n
<1>3. k \in 0 .. (n - 1) /\ k \in 0 .. n /\ nextIdx + k < n + n
  BY <1>1, <1>2
<1>4. (IF nextIdx + k < n THEN nextIdx + k ELSE nextIdx + k - n) = i - 1
  BY <1>1, <1>2
<1> HIDE DEF k, n
<1>5. (nextIdx + k) % n = i - 1
  BY <1>1, <1>3, <1>4, Around DEF n
<1>6. From(nextIdx, k) = i
  BY <1>2, <1>5 DEF From, n
<1> QED
  BY <1>2, <1>3, <1>6 DEF n

LEMMA AdminStep ==
  ASSUME VenueAdminAssumption, AdminInv, [AdminNext]_adminVars PROVE AdminInv'
<1>1. CASE LoadRows
  BY <1>1, LoadRowsStep
<1>2. CASE Reboot
  BY <1>2, RebootStep
<1>3. CASE RouteAnywhere
  BY <1>3, RouteStep
<1>4. ASSUME NEW v \in VenueIds, LoadRow(v) PROVE AdminInv'
  BY <1>4, LoadRowStep
<1>5. ASSUME NEW v \in VenueIds, Reconnect(v) \/ Disconnect(v) \/ RouteTo(v) \/ MdPoll(v) PROVE AdminInv'
  BY <1>5, LinkSteps
<1>6. ASSUME NEW h \in Requests, PutVenue(h) \/ Disable(h) \/ Enable(h) \/ SetRouting(h) \/ DeleteVenue(h)
      PROVE  AdminInv'
  BY <1>6, RequestSteps
<1>7. ASSUME NEW h \in Requests, Apply(h) \/ Save(h) \/ Reread(h) \/ Persist(h) \/ PersistFails(h)
      PROVE  AdminInv'
  BY <1>7, ApplyStep, SaveStep, RereadStep, PersistSteps
<1>8. CASE UNCHANGED adminVars
  <2>1. UNCHANGED <<fleet, phase, toLoad, records, limits, table, writer, nextIdx, unsafe>>
        /\ UNCHANGED <<muted, links, waited, strayed>>
    BY <1>8 DEF adminVars
  <2>2. links \in [VenueIds -> {"up", "down"}] /\ waited \in [VenueIds -> Nat]
        /\ muted \subseteq VenueIds /\ StoredOffIsNotRouted
    BY DEF AdminInv, AdminShaped, AdminTypeOK
  <2>3. StoredOffIsNotRouted'
    BY <2>1, <2>2 DEF StoredOffIsNotRouted
  <2> QED
    BY <2>1, <2>2, <2>3, QuietSteps
<1> QED
  BY <1>1, <1>2, <1>3, <1>4, <1>5, <1>6, <1>7, <1>8 DEF AdminNext

(* The configuration of the venues, whatever the mode, the rows of an      *)
(* earlier day, the patches and the number of requests, restarts and       *)
(* handlers (the admin routes, find_adapter, md_publish_loop): record, row *)
(* and adapter of a venue agree at rest, a venue stored as off receives no *)
(* intent, and no eligible venue is passed over for a whole round.         *)
THEOREM VenueConfigIsSafe == ASSUME VenueAdminAssumption PROVE AdminSpec => []AdminSafety
<1>1. AdminInit => AdminInv
  BY AdminInitInv
<1>2. AdminInv /\ [AdminNext]_adminVars => AdminInv'
  BY AdminStep
<1>3. AdminInv => AdminSafety
  <2> SUFFICES ASSUME AdminInv PROVE AdminSafety
    OBVIOUS
  <2>1. HotReloadAtRest
    <3>1. phase = "serving" => toLoad = {}
      BY DEF AdminInv, Agreement, PhaseIsKept
    <3> QED
      BY <3>1 DEF AdminInv, Agreement, LoadedAgree, Agree, HotReloadAtRest
  <2>2. RoundRobinIsFair
    <3> SUFFICES ASSUME NEW v \in VenueIds PROVE waited[v] < Len(fleet)
      BY DEF RoundRobinIsFair
    <3>1. /\ fleet \in Seq(VenueIds) /\ Len(fleet) > 0 /\ Len(fleet) \in Nat
          /\ nextIdx \in 0 .. (Len(fleet) - 1) /\ waited[v] \in Nat
      BY DEF AdminInv, AdminShaped, AdminTypeOK
    <3>2. CASE v \notin Served
      BY <3>1, <3>2 DEF AdminInv, TurnComes
    <3>3. CASE v \in Served
      <4>1. PICK k \in 0 .. (Len(fleet) - 1) : fleet[From(nextIdx, k)] = v
        BY <3>1, <3>3, FromOnto
      <4>2. waited[v] + k < Len(fleet)
        BY <4>1 DEF AdminInv, TurnComes
      <4> QED
        BY <3>1, <4>2
    <3> QED
      BY <3>2, <3>3
  <2> QED
    BY <2>1, <2>2 DEF AdminInv, AdminSafety
<1> QED
  BY <1>1, <1>2, <1>3, PTL DEF AdminSpec
=============================================================================

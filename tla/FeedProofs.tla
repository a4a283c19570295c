---------------------------- MODULE FeedProofs ----------------------------
(***************************************************************************)
(* The market data of a venue for every sequence of books, depth, error    *)
(* limit and number of retries: the local book is the venue's, the circuit *)
(* breaker and the session agree, and snapshots and curves reach their     *)
(* topics in order.  The store of market data for every sequence of        *)
(* messages: what is consumed is stored, unless ClickHouse refused it.     *)
(* And the market data service for any assets, venues, streams and curves: *)
(* what its channel may lose, what its streams and its cache show.         *)
(*                                                                         *)
(* Inductions over data go through the least element of a set of numbers   *)
(* that would be a counterexample (lemma LeastNumber).                     *)
(***************************************************************************)
EXTENDS VenueFeed, MarketStore, MarketData, InductionLemmas, SequenceTheorems

-----------------------------------------------------------------------------
(* Books.                                                                  *)
Side == [BookPrices -> Nat]

LEMMA BookSides == ASSUME NEW k \in 1..Len(Books) PROVE Books[k].bids \in Side /\ Books[k].asks \in Side
<1> DEFINE Two == [bids : [BookPrices -> Nat], asks : [BookPrices -> Nat]]
<1>1. Books \in Seq(Two)
  BY FeedAssumption
<1>2. Books[k] \in Two
  <2> HIDE DEF Two
  <2> QED
    BY <1>1, ElementOfSeq
<1> QED
  BY <1>2 DEF Side

LEMMA PricesFinite ==
  ASSUME NEW m \in Side
  PROVE  Prices(m) \in SUBSET Nat /\ IsFiniteSet(Prices(m)) /\ Prices(m) \subseteq BookPrices
<1>1. Prices(m) \subseteq BookPrices
  BY DEF Prices
<1> QED
  BY <1>1, FS_Subset, FeedAssumption

LEMMA TopIsSide ==
  ASSUME NEW m \in Side, NEW side
  PROVE  /\ TopLevels(m, side) \in Side
         /\ \A p \in BookPrices : TopLevels(m, side)[p] \in {0, m[p]}
  BY DEF TopLevels, Side

(* A side with a price has a best one, and the top levels keep it.         *)
LEMMA BestExists ==
  ASSUME NEW m \in Side, Prices(m) # {}, NEW side
  PROVE  /\ Best(m, side) \in Prices(m)
         /\ \A r \in Prices(m) : IF side = "bids" THEN Best(m, side) >= r ELSE Best(m, side) <= r
<1>1. \E p \in Prices(m) : \A r \in Prices(m) : IF side = "bids" THEN p >= r ELSE p <= r
  <2>1. CASE side = "bids"
    <3>1. PICK p \in Prices(m) : \A r \in Prices(m) : r <= p
      BY PricesFinite, GreatestNumber
    <3>2. \A r \in Prices(m) : p >= r
      BY <3>1, PricesFinite
    <3> QED
      BY <2>1, <3>2
  <2>2. CASE side # "bids"
    <3>1. PICK p \in Prices(m) : \A r \in Prices(m) : p <= r
      BY PricesFinite, LeastNumber
    <3> QED
      BY <2>2, <3>1
  <2> QED
    BY <2>1, <2>2
<1> QED
  BY <1>1 DEF Best

LEMMA TopKeepsBest ==
  ASSUME NEW m \in Side, Prices(m) # {}, NEW side
  PROVE  /\ Prices(TopLevels(m, side)) # {}
         /\ Best(TopLevels(m, side), side) = Best(m, side)
<1> DEFINE b == Best(m, side)
           t == TopLevels(m, side)
<1>1. b \in Prices(m) /\ \A r \in Prices(m) : IF side = "bids" THEN b >= r ELSE b <= r
  BY BestExists
<1>2. {r \in Prices(m) : IF side = "bids" THEN r > b ELSE r < b} = {}
  BY <1>1, PricesFinite
<1>3. b \in BookPrices /\ m[b] > 0
  BY <1>1 DEF Prices
<1> HIDE DEF b
<1>4. t[b] = m[b]
  <2>1. Cardinality({r \in Prices(m) : IF side = "bids" THEN r > b ELSE r < b}) = 0
    BY <1>2, FS_EmptySet
  <2>2. MaxLevels > 0
    BY FeedAssumption
  <2> QED
    BY <1>3, <2>1, <2>2 DEF TopLevels
<1>5. t \in Side /\ \A p \in BookPrices : t[p] \in {0, m[p]}
  BY TopIsSide
<1> HIDE DEF t
<1>6. b \in Prices(t) /\ Prices(t) \subseteq Prices(m)
  BY <1>3, <1>4, <1>5 DEF Prices
<1>7. Best(t, side) \in Prices(t)
      /\ \A r \in Prices(t) : IF side = "bids" THEN Best(t, side) >= r ELSE Best(t, side) <= r
  BY <1>5, <1>6, BestExists
<1>8. Best(t, side) = b
  <2>1. Best(t, side) \in Nat /\ b \in Nat
    BY <1>1, <1>6, <1>7, PricesFinite
  <2>2. IF side = "bids" THEN Best(t, side) >= b /\ b >= Best(t, side)
                         ELSE Best(t, side) <= b /\ b <= Best(t, side)
    BY <1>1, <1>6, <1>7
  <2> QED
    BY <2>1, <2>2
<1> QED
  BY <1>6, <1>8 DEF t, b
-----------------------------------------------------------------------------
(* The local book.  Events and books up to update id v.                    *)
Diffs(v) == {d \in [first : 2..v, final : 2..v] : d.first <= d.final}
LobSet(v) == [init : BOOLEAN, seq : 0..v, bids : Side, asks : Side, reinit : BOOLEAN,
              empty : BOOLEAN, pending : Seq(Diffs(v))]
Agrees(bids, asks, k) ==
  \A p \in BookPrices : bids[p] \in {0, Books[k].bids[p]} /\ asks[p] \in {0, Books[k].asks[p]}
Real(l) ==
  /\ l.init => l.seq # 0 /\ Sound(l.bids, l.asks) /\ Agrees(l.bids, l.asks, l.seq)
  /\ l.empty => l.seq # 0
Good(l, v) == l \in LobSet(v) /\ l.init /\ Real(l) /\ l.pending = <<>>

(* A price the event did not touch has the same quantity before and after. *)
LEMMA UntouchedStays ==
  ASSUME NEW v \in 1..Len(Books), NEW d \in Diffs(v), NEW k \in 1..v, d.first <= k + 1, k <= d.final,
         NEW side \in {"bids", "asks"}, NEW p \in BookPrices, p \notin Touched(d, side)
  PROVE  Books[k][side][p] = Books[d.final][side][p]
<1> DEFINE q(j) == Books[j][side][p]
           Bad == {j \in k..d.final : q(j) # q(k)}
<1> SUFFICES ASSUME q(k) # q(d.final) PROVE FALSE
  OBVIOUS
<1>0. d.first \in 2..v /\ d.final \in 2..v /\ d.first <= d.final /\ k \in Nat
  BY DEF Diffs
<1>1. \A j \in d.first..d.final : q(j) = q(j - 1)
  BY DEF Touched
<1> HIDE DEF q
<1>2. d.final \in Bad /\ Bad \in SUBSET Nat
  BY <1>0
<1>3. PICK j \in Bad : \A i \in Bad : j <= i
  <2> HIDE DEF Bad
  <2> QED
    BY <1>2, LeastNumber
<1>4. j # k /\ j \in k..d.final /\ q(j) # q(k)
  OBVIOUS
<1>5. j - 1 \in k..d.final /\ j \in d.first..d.final
  BY <1>0, <1>4
<1>6. q(j - 1) = q(k)
  <2>1. j - 1 \notin Bad
    BY <1>0, <1>3, <1>4
  <2> QED
    BY <1>5, <2>1
<1> QED
  BY <1>1, <1>4, <1>5, <1>6

LEMMA PatchedAgrees ==
  ASSUME NEW v \in 1..Len(Books), NEW d \in Diffs(v), NEW k \in 1..v, d.first <= k + 1, k <= d.final,
         NEW side \in {"bids", "asks"}, NEW m \in Side,
         \A p \in BookPrices : m[p] \in {0, Books[k][side][p]}
  PROVE  /\ Patched(m, d, side) \in Side
         /\ \A p \in BookPrices : Patched(m, d, side)[p] \in {0, Books[d.final][side][p]}
<1>0. d.final \in 1..Len(Books) /\ d.final \in 2..v
  BY DEF Diffs
<1>1. Books[d.final][side] \in Side
  BY <1>0, BookSides
<1>2. Patched(m, d, side) \in Side
  BY <1>1 DEF Patched, Side
<1>3. ASSUME NEW p \in BookPrices PROVE Patched(m, d, side)[p] \in {0, Books[d.final][side][p]}
  <2>1. CASE p \in Touched(d, side)
    BY <2>1 DEF Patched
  <2>2. CASE p \notin Touched(d, side)
    <3>1. Books[k][side][p] = Books[d.final][side][p]
      BY <2>2, UntouchedStays
    <3> QED
      BY <2>2, <3>1 DEF Patched
  <2> QED
    BY <2>1, <2>2
<1> QED
  BY <1>2, <1>3

(* An event that fits leaves the book of its final id, one that is late    *)
(* leaves the book.                                                        *)
LEMMA ApplyDiffReal ==
  ASSUME NEW v \in 1..Len(Books), NEW l \in LobSet(v), Real(l), l.init, NEW d \in Diffs(v),
         ApplyDiff(l, d).status # "reinit"
  PROVE  /\ ApplyDiff(l, d).lob \in LobSet(v) /\ ApplyDiff(l, d).lob.init
         /\ Real(ApplyDiff(l, d).lob) /\ ApplyDiff(l, d).lob.pending = l.pending
<1> DEFINE bids == Patched(l.bids, d, "bids")
           asks == Patched(l.asks, d, "asks")
           old == [l EXCEPT !.empty = FALSE]
           new == [l EXCEPT !.seq = d.final, !.bids = bids, !.asks = asks, !.reinit = FALSE, !.empty = FALSE]
<1>0. /\ l.seq \in 1..v /\ l.bids \in Side /\ l.asks \in Side /\ d.final \in 2..v /\ d.first \in 2..v
      /\ Sound(l.bids, l.asks) /\ Agrees(l.bids, l.asks, l.seq)
  BY DEF LobSet, Real, Diffs
<1>1. CASE Late(l, d)
  <2>1. ApplyDiff(l, d).lob = old
    BY <1>1 DEF ApplyDiff
  <2>2. /\ old \in LobSet(v) /\ old.init /\ old.pending = l.pending /\ old.seq = l.seq /\ ~old.empty
        /\ old.bids = l.bids /\ old.asks = l.asks
    BY DEF LobSet
  <2> HIDE DEF old
  <2> QED
    BY <1>0, <2>1, <2>2 DEF Real
<1>2. CASE ~Late(l, d)
  <2>1. ~Gap(l, d) /\ Sound(bids, asks) /\ ApplyDiff(l, d).lob = new
    <3>1. Gap(l, d) \/ ~Sound(bids, asks) => ApplyDiff(l, d).status = "reinit"
      BY <1>2 DEF ApplyDiff
    <3>2. ~Gap(l, d) /\ Sound(bids, asks)
      BY <3>1
    <3> QED
      BY <1>2, <3>2 DEF ApplyDiff
  <2>2. d.first <= l.seq + 1 /\ l.seq <= d.final
    BY <1>0, <1>2, <2>1 DEF Late, Gap
  <2>3. bids \in Side /\ \A p \in BookPrices : bids[p] \in {0, Books[d.final].bids[p]}
    BY <1>0, <2>2, PatchedAgrees DEF Agrees
  <2>4. asks \in Side /\ \A p \in BookPrices : asks[p] \in {0, Books[d.final].asks[p]}
    BY <1>0, <2>2, PatchedAgrees DEF Agrees
  <2> HIDE DEF bids, asks
  <2>5. /\ new \in LobSet(v) /\ new.init /\ new.pending = l.pending /\ new.seq = d.final /\ ~new.empty
        /\ new.bids = bids /\ new.asks = asks
    <3>1. d.final \in 0..v
      BY <1>0
    <3>2. new \in LobSet(v)
      BY <2>3, <2>4, <3>1 DEF LobSet
    <3>3. /\ new.init /\ new.pending = l.pending /\ new.seq = d.final /\ ~new.empty
          /\ new.bids = bids /\ new.asks = asks
      BY DEF LobSet
    <3> QED
      BY <3>2, <3>3
  <2> HIDE DEF new
  <2> QED
    BY <1>0, <2>1, <2>3, <2>4, <2>5 DEF Real, Agrees
<1> QED
  BY <1>1, <1>2

LEMMA ReplayNextGood ==
  ASSUME NEW v \in 1..Len(Books), NEW base, Good(base, v), NEW prev, Good(prev.lob, v), NEW d \in Diffs(v)
  PROVE  Good(ReplayNext(prev, d, base).lob, v)
<1> DEFINE r == ApplyDiff(prev.lob, d)
<1>1. CASE prev.ok /\ r.status # "reinit"
  <2>1. ReplayNext(prev, d, base).lob = r.lob
    BY <1>1 DEF ReplayNext
  <2> QED
    BY <1>1, <2>1, ApplyDiffReal DEF Good
<1>2. CASE ~(prev.ok /\ r.status # "reinit")
  <2>1. ReplayNext(prev, d, base).lob = base
    BY <1>2 DEF ReplayNext
  <2> QED
    BY <2>1
<1> QED
  BY <1>1, <1>2

(* The recursion of Replay has a solution, by induction on the events.     *)
LEMMA ReplayRuns ==
  ASSUME NEW base, NEW S, NEW pending \in Seq(S)
  PROVE  \E run :
           /\ run = [i \in 0..Len(pending) |-> IF i = 0 THEN [ok |-> TRUE, lob |-> base]
                                              ELSE ReplayNext(run[i - 1], pending[i], base)]
           /\ Replay(base, pending) = run[Len(pending)].lob
<1> DEFINE first == [ok |-> TRUE, lob |-> base]
           Is(f, n) == f = [i \in 0..n |-> IF i = 0 THEN [ok |-> TRUE, lob |-> base]
                                          ELSE ReplayNext(f[i - 1], pending[i], base)]
           n == Len(pending)
<1>1. \E f : Is(f, n)
  <2> DEFINE Bad == {k \in 0..n : ~\E f : Is(f, k)}
  <2>0. n \in Nat
    OBVIOUS
  <2> HIDE DEF n
  <2> SUFFICES ASSUME ~\E f : Is(f, n) PROVE FALSE
    OBVIOUS
  <2>1. n \in Bad /\ Bad \in SUBSET Nat
    BY <2>0
  <2>2. PICK k \in Bad : \A j \in Bad : k <= j
    <3> HIDE DEF Bad
    <3> QED
      BY <2>1, LeastNumber
  <2>3. k # 0
    <3>1. Is([i \in 0..0 |-> first], 0)
      OBVIOUS
    <3> QED
      BY <2>2, <3>1
  <2>4. k - 1 \in 0..n /\ k - 1 \notin Bad /\ k \in Nat
    <3>1. k \in 0..n
      OBVIOUS
    <3> HIDE DEF Bad
    <3> QED
      BY <2>0, <2>2, <2>3, <3>1
  <2>5. PICK f : Is(f, k - 1)
    BY <2>4
  <2> DEFINE g == [i \in 0..k |-> IF i = k THEN ReplayNext(f[k - 1], pending[k], base) ELSE f[i]]
  <2>6. ASSUME NEW i \in 0..k
        PROVE  g[i] = IF i = 0 THEN first ELSE ReplayNext(g[i - 1], pending[i], base)
    <3>1. CASE i = k
      BY <2>3, <2>4, <3>1
    <3>2. CASE i # k
      <4>1. i \in 0..(k - 1) /\ (i # 0 => i - 1 \in 0..(k - 1) /\ i - 1 # k)
        BY <2>4, <3>2
      <4>2. f[i] = IF i = 0 THEN first ELSE ReplayNext(f[i - 1], pending[i], base)
        BY <2>5, <4>1
      <4>3. g[i] = f[i] /\ (i # 0 => g[i - 1] = f[i - 1])
        BY <2>4, <3>2, <4>1
      <4> HIDE DEF g, first
      <4> QED
        BY <4>2, <4>3
    <3> QED
      BY <3>1, <3>2
  <2>7. Is(g, k)
    <3> DEFINE h == [i \in 0..k |-> IF i = 0 THEN first ELSE ReplayNext(g[i - 1], pending[i], base)]
    <3>1. \A i \in 0..k : g[i] = h[i]
      BY <2>6
    <3>2. g = [i \in 0..k |-> g[i]]
      OBVIOUS
    <3> HIDE DEF g
    <3>3. g = h
      BY <3>1, <3>2
    <3> QED
      BY <3>3
  <2> HIDE DEF g, Is
  <2> QED
    BY <2>2, <2>7
<1> DEFINE run == CHOOSE f : Is(f, n)
<1>2. Is(run, n)
  <2> HIDE DEF Is
  <2> QED
    BY <1>1
<1>3. Replay(base, pending) = run[n].lob
  BY DEF Replay
<1> HIDE DEF run
<1> QED
  BY <1>2, <1>3

(* The pending events keep the book real, however many of them fit.        *)
LEMMA ReplayGood ==
  ASSUME NEW v \in 1..Len(Books), NEW base, Good(base, v), NEW pending \in Seq(Diffs(v))
  PROVE  Good(Replay(base, pending), v)
<1> DEFINE n == Len(pending)
<1>1. PICK run : /\ run = [i \in 0..n |-> IF i = 0 THEN [ok |-> TRUE, lob |-> base]
                                         ELSE ReplayNext(run[i - 1], pending[i], base)]
                /\ Replay(base, pending) = run[n].lob
  BY ReplayRuns
<1>2. n \in Nat /\ \A i \in 1..n : pending[i] \in Diffs(v)
  BY ElementOfSeq
<1> HIDE DEF n
<1> DEFINE Bad == {i \in 0..n : ~Good(run[i].lob, v)}
<1> SUFFICES ASSUME ~Good(run[n].lob, v) PROVE FALSE
  BY <1>1
<1>3. n \in Bad /\ Bad \in SUBSET Nat
  BY <1>2
<1>4. PICK i \in Bad : \A j \in Bad : i <= j
  <2> HIDE DEF Bad
  <2> QED
    BY <1>3, LeastNumber
<1>5. i # 0
  <2>1. run[0] = [ok |-> TRUE, lob |-> base]
    BY <1>1, <1>2
  <2> QED
    BY <1>4, <2>1
<1>6. i - 1 \in 0..n /\ i \in 1..n /\ Good(run[i - 1].lob, v)
  <2>1. i - 1 \in 0..n /\ i \in 1..n
    BY <1>2, <1>4, <1>5
  <2>2. i - 1 \notin Bad
    BY <1>2, <1>4
  <2> QED
    BY <2>1, <2>2
<1>7. run[i] = ReplayNext(run[i - 1], pending[i], base)
  BY <1>1, <1>5, <1>6
<1> QED
  BY <1>2, <1>4, <1>6, <1>7, ReplayNextGood

LEMMA NoLobReal ==
  ASSUME NEW v \in 1..Len(Books)
  PROVE  /\ NoLob \in LobSet(v) /\ ~NoLob.init /\ ~NoLob.empty /\ NoLob.seq = 0 /\ NoLob.pending = <<>>
         /\ NoLevels \in Side
<1>1. NoLevels \in Side
  BY DEF NoLevels, Side
<1>2. <<>> \in Seq(Diffs(v))
  OBVIOUS
<1>3. 0 \in 0..v
  OBVIOUS
<1> QED
  BY <1>1, <1>2, <1>3 DEF NoLob, LobSet

(* What a REST answer leaves is real: the snapshot, as deep as it goes,    *)
(* and the pending events that fit.                                        *)
LEMMA FromRestGood ==
  ASSUME NEW v \in 1..Len(Books), NEW k \in 1..v, HasBook(k)
  PROVE  Good(FromRest(k), v)
<1> DEFINE b == TopLevels(Books[k].bids, "bids")
           a == TopLevels(Books[k].asks, "asks")
           l == [NoLob EXCEPT !.init = TRUE, !.seq = k, !.bids = b, !.asks = a]
<1>0. Books[k].bids \in Side /\ Books[k].asks \in Side /\ k \in DOMAIN Books
  BY BookSides, FeedAssumption
<1>1. b \in Side /\ a \in Side /\ Agrees(b, a, k)
  BY <1>0, TopIsSide DEF Agrees
<1>2. Sound(b, a)
  <2>1. /\ Prices(b) # {} /\ Best(b, "bids") = Best(Books[k].bids, "bids")
        /\ Prices(a) # {} /\ Best(a, "asks") = Best(Books[k].asks, "asks")
    BY <1>0, TopKeepsBest DEF HasBook
  <2>2. ~Crossed(Books[k].bids, Books[k].asks)
    BY <1>0, VenueBooks
  <2> HIDE DEF a, b
  <2> QED
    BY <2>1, <2>2 DEF Sound, Crossed
<1> HIDE DEF a, b
<1>3. NoLob \in LobSet(v) /\ ~NoLob.empty /\ NoLob.pending = <<>>
  BY NoLobReal
<1>4. l \in LobSet(v)
  <2>1. k \in 0..v
    OBVIOUS
  <2> QED
    BY <1>1, <1>3, <2>1 DEF LobSet
<1>5. l.init /\ l.seq = k /\ l.bids = b /\ l.asks = a /\ ~l.empty /\ l.pending = <<>>
  BY <1>3 DEF LobSet
<1>6. FromRest(k) = l
  BY DEF FromRest, a, b
<1> HIDE DEF l
<1> QED
  BY <1>1, <1>2, <1>4, <1>5, <1>6 DEF Good, Real

LobOK(l, v) == l \in LobSet(v) /\ Real(l) /\ Len(l.pending) <= MaxPending

LEMMA ParseRestOK ==
  ASSUME NEW v \in 1..Len(Books), NEW l, LobOK(l, v), NEW k \in 1..v
  PROVE  LobOK(ParseRest(l, k), v)
<1>1. CASE HasBook(k)
  <2>1. l.pending \in Seq(Diffs(v))
    BY DEF LobOK, LobSet
  <2>2. Good(Replay(FromRest(k), l.pending), v)
    BY <1>1, <2>1, FromRestGood, ReplayGood
  <2>3. Len(<<>>) <= MaxPending
    BY FeedAssumption
  <2> QED
    BY <1>1, <2>2, <2>3 DEF ParseRest, Good, LobOK
<1>2. CASE ~HasBook(k)
  <2> DEFINE e == [NoLob EXCEPT !.seq = k, !.reinit = TRUE, !.empty = TRUE]
  <2>1. NoLob \in LobSet(v) /\ ~NoLob.init /\ NoLob.pending = <<>> /\ k \in 0..v
    BY NoLobReal
  <2>2. e \in LobSet(v)
    BY <2>1 DEF LobSet
  <2>3. ~e.init /\ e.seq = k /\ e.pending = <<>>
    BY <2>1 DEF LobSet
  <2>4. ParseRest(l, k) = e
    BY <1>2 DEF ParseRest
  <2>5. Len(<<>>) <= MaxPending
    BY FeedAssumption
  <2> HIDE DEF e
  <2> QED
    BY <2>2, <2>3, <2>4, <2>5 DEF LobOK, Real
<1> QED
  BY <1>1, <1>2

LEMMA PushPendingOK ==
  ASSUME NEW v, NEW pending \in Seq(Diffs(v)), Len(pending) <= MaxPending, NEW d \in Diffs(v)
  PROVE  PushPending(pending, d) \in Seq(Diffs(v)) /\ Len(PushPending(pending, d)) <= MaxPending
<1> DEFINE D == Diffs(v)
<1>1. d \in D /\ pending \in Seq(D)
  OBVIOUS
<1> HIDE DEF D
<1> DEFINE all == Append(pending, d)
<1>2. all \in Seq(D) /\ Len(all) = Len(pending) + 1 /\ all # <<>> /\ Len(pending) \in Nat
  BY <1>1, AppendProperties
<1>3. Tail(all) \in Seq(D) /\ Len(Tail(all)) = Len(pending)
  BY <1>2
<1>4. PushPending(pending, d) = IF Len(all) > MaxPending THEN Tail(all) ELSE all
  BY DEF PushPending
<1> HIDE DEF all
<1> QED
  BY <1>2, <1>3, <1>4, FeedAssumption DEF D

LEMMA OnDepthOK ==
  ASSUME NEW v \in 1..Len(Books), NEW l, LobOK(l, v), NEW d \in Diffs(v)
  PROVE  LobOK(OnDepth(l, d).lob, v)
<1>0. l \in LobSet(v) /\ Real(l) /\ l.pending \in Seq(Diffs(v)) /\ Len(l.pending) <= MaxPending
  BY DEF LobOK, LobSet
<1>1. CASE ~l.init \/ l.reinit
  <2> DEFINE q == PushPending(l.pending, d)
             n == [l EXCEPT !.pending = q]
  <2>1. q \in Seq(Diffs(v)) /\ Len(q) <= MaxPending
    BY <1>0, PushPendingOK
  <2>2. OnDepth(l, d).lob = n
    BY <1>1 DEF OnDepth
  <2> HIDE DEF q
  <2>3. n \in LobSet(v)
    BY <1>0, <2>1 DEF LobSet
  <2>4. n.pending = q /\ n.init = l.init /\ n.seq = l.seq /\ n.bids = l.bids /\ n.asks = l.asks /\ n.empty = l.empty
    BY <1>0 DEF LobSet
  <2> HIDE DEF n
  <2> QED
    BY <1>0, <2>1, <2>2, <2>3, <2>4 DEF LobOK, Real
<1>2. CASE ~(~l.init \/ l.reinit)
  <2>1. CASE ApplyDiff(l, d).status # "reinit"
    <3>1. OnDepth(l, d).lob = ApplyDiff(l, d).lob
      BY <1>2, <2>1 DEF OnDepth
    <3> QED
      BY <1>0, <1>2, <2>1, <3>1, ApplyDiffReal DEF LobOK
  <2>2. CASE ApplyDiff(l, d).status = "reinit"
    <3> DEFINE n == [NoLob EXCEPT !.reinit = TRUE, !.pending = <<d>>]
    <3>1. OnDepth(l, d).lob = n
      BY <1>2, <2>2 DEF OnDepth
    <3>2. <<d>> \in Seq(Diffs(v)) /\ Len(<<d>>) = 1 /\ NoLob \in LobSet(v) /\ ~NoLob.init /\ ~NoLob.empty
      BY NoLobReal
    <3>3. n \in LobSet(v)
      BY <3>2 DEF LobSet
    <3>4. ~n.init /\ ~n.empty /\ n.pending = <<d>>
      BY <3>2 DEF LobSet
    <3> HIDE DEF n
    <3> QED
      BY <3>1, <3>2, <3>3, <3>4, FeedAssumption DEF LobOK, Real
  <2> QED
    BY <2>1, <2>2
<1> QED
  BY <1>1, <1>2

(* A snapshot of the local book, unless it is none, has its update id.     *)
Statuses == {"none", "empty", "disconnected", "stale", "connected"}
SnapSet(v) == [seq : 0..v, bids : Side, asks : Side, status : Statuses]

LEMMA NoSnapShaped ==
  ASSUME NEW v \in 1..Len(Books)
  PROVE  NoSnap \in SnapSet(v) /\ NoSnap.seq = 0 /\ NoSnap.status = "none"
<1>1. 0 \in 0..v /\ NoLevels \in Side
  BY NoLobReal
<1> QED
  BY <1>1 DEF NoSnap, SnapSet, Statuses

LEMMA SnapshotOK ==
  ASSUME NEW v \in 1..Len(Books), NEW l, LobOK(l, v), NEW status \in Statuses
  PROVE  /\ Snapshot(l, status) \in SnapSet(v)
         /\ Snapshot(l, status) # NoSnap => Snapshot(l, status).seq # 0
<1>0. l \in LobSet(v) /\ Real(l) /\ l.seq \in 0..v /\ l.bids \in Side /\ l.asks \in Side
  BY DEF LobOK, LobSet
<1>1. CASE l.empty
  <2> DEFINE n == [NoSnap EXCEPT !.seq = l.seq, !.status = "empty"]
  <2>1. Snapshot(l, status) = n
    BY <1>1 DEF Snapshot
  <2>2. n \in SnapSet(v) /\ n.seq = l.seq
    BY <1>0, NoSnapShaped DEF SnapSet, Statuses
  <2> HIDE DEF n
  <2> QED
    BY <1>0, <1>1, <2>1, <2>2 DEF Real
<1>2. CASE ~l.empty /\ (l.reinit \/ ~l.init)
  <2>1. Snapshot(l, status) = NoSnap
    BY <1>2 DEF Snapshot
  <2> QED
    BY <2>1, NoSnapShaped
<1>3. CASE ~l.empty /\ ~(l.reinit \/ ~l.init)
  <2> DEFINE b == TopLevels(l.bids, "bids")
             a == TopLevels(l.asks, "asks")
  <2>1. Snapshot(l, status) = [seq |-> l.seq, bids |-> b, asks |-> a, status |-> status]
    BY <1>3 DEF Snapshot
  <2>2. b \in Side /\ a \in Side
    BY <1>0, TopIsSide
  <2> HIDE DEF a, b
  <2> QED
    BY <1>0, <1>3, <2>1, <2>2 DEF SnapSet, Real
<1> QED
  BY <1>1, <1>2, <1>3
-----------------------------------------------------------------------------
(* The circuit breaker and the session.                                    *)
Links == [connected : BOOLEAN, circuit : {"closed", "open", "half_open"}, cooled : BOOLEAN,
          errs : Nat, backoff : BOOLEAN]
LinkOK(l) == l \in Links /\ (l.circuit = "open" => ~l.connected)

LEMMA EnteredOK == ASSUME NEW l, LinkOK(l) PROVE LinkOK(Entered(l))
  BY DEF LinkOK, Links, Entered

LEMMA DownOK == ASSUME NEW l, LinkOK(l) PROVE LinkOK([l EXCEPT !.connected = FALSE])
  BY DEF LinkOK, Links

LEMMA BackoffOK == ASSUME NEW l, LinkOK(l), NEW b \in BOOLEAN PROVE LinkOK([l EXCEPT !.backoff = b])
  BY DEF LinkOK, Links

LEMMA SucceededOK == ASSUME NEW l \in Links PROVE LinkOK(Succeeded(l))
  BY DEF LinkOK, Links, Succeeded

LEMMA FailedOK == ASSUME NEW l, LinkOK(l) PROVE LinkOK(Failed(l))
<1> DEFINE k == [l EXCEPT !.errs = @ + 1]
<1>1. k \in Links /\ k.circuit = l.circuit /\ k.connected = l.connected
  BY DEF LinkOK, Links
<1>2. Failed(l) \in {k, Opened(k)}
  BY DEF Failed
<1> HIDE DEF k
<1>3. LinkOK(Opened(k))
  BY <1>1 DEF LinkOK, Links, Opened
<1> QED
  BY <1>1, <1>2, <1>3 DEF LinkOK
-----------------------------------------------------------------------------
(* The inductive invariant.                                                *)
Stages == {"idle", "reconnect", "attempt", "connect", "request", "rest", "apply", "publish", "curve", "build"}
MdSet(v) == [pc : Stages, tries : Nat, rest : 0..v, snap : SnapSet(v), level : 0..CurveLevel]

(* What the market data thread holds: a snapshot to publish has an update  *)
(* id, and a curve is made from the snapshot that was published last.      *)
MdOK ==
  /\ md \in MdSet(venue)
  /\ md.pc = "publish" => md.snap.seq # 0
  /\ md.pc \in {"curve", "build"} => md.snap = published /\ md.snap.status # "none"
  /\ md.pc = "build" => md.snap.status \in {"connected", "stale"}

(* What the topics hold is not newer than the update id that counts as     *)
(* published, and what was lost is not on them.                            *)
TopicsOK ==
  /\ last_sequence \in 0..venue /\ published \in SnapSet(venue) /\ curve \in Nat
  /\ degradation \in [publish : Nat, execution : Nat]
  /\ published.seq <= last_sequence
  /\ \A x \in lost : x \in Nat \ {0} /\ x <= last_sequence
  /\ published.seq \notin lost
  /\ CurveFollowsSnapshot

FeedInv ==
  /\ venue \in 1..Len(Books) /\ wire \in Seq(Diffs(venue))
  /\ LinkOK(link) /\ LobOK(lob, venue) /\ MdOK /\ TopicsOK

LEMMA FeedInvSafe == FeedInv => FeedSafety
<1> SUFFICES ASSUME FeedInv PROVE FeedSafety
  OBVIOUS
<1>1. FeedTypeOK
  <2>1. link.circuit \in {"closed", "open", "half_open"} /\ link.errs \in Nat
        /\ {link.connected, link.cooled, link.backoff} \subseteq BOOLEAN
    BY DEF FeedInv, LinkOK, Links
  <2>2. lob.seq \in 0..venue /\ Len(lob.pending) <= MaxPending
    BY DEF FeedInv, LobOK, LobSet
  <2>3. last_sequence \in 0..venue /\ curve \in 0..venue /\ md.level \in 0..CurveLevel
    BY DEF FeedInv, TopicsOK, MdOK, MdSet, SnapSet, CurveFollowsSnapshot
  <2> QED
    BY <2>1, <2>2, <2>3 DEF FeedInv, FeedTypeOK
<1>2. BookIsReal
  BY DEF FeedInv, LobOK, Real, Agrees, BookIsReal
<1>3. OpenIsDisconnected
  BY DEF FeedInv, LinkOK, OpenIsDisconnected
<1> QED
  BY <1>1, <1>2, <1>3 DEF FeedSafety, FeedInv, TopicsOK

LEMMA MdIdleShaped ==
  ASSUME NEW v \in 1..Len(Books)
  PROVE  MdIdle \in MdSet(v) /\ MdIdle.pc = "idle"
<1>1. NoSnap \in SnapSet(v) /\ 0 \in 0..v /\ 0 \in 0..CurveLevel
  BY NoSnapShaped, FeedAssumption
<1> QED
  BY <1>1 DEF MdIdle, MdSet, Stages

LEMMA FeedInitInv == FeedInit => FeedInv
<1> SUFFICES ASSUME FeedInit PROVE FeedInv
  OBVIOUS
<1>1. venue = 1 /\ 1 \in 1..Len(Books)
  <2>1. Len(Books) \in Nat /\ Len(Books) # 0
    BY FeedAssumption, EmptySeq
  <2> QED
    BY <2>1 DEF FeedInit
<1>2. wire \in Seq(Diffs(venue))
  BY DEF FeedInit
<1>3. LinkOK(link)
  BY DEF FeedInit, LinkOK, Links
<1>4. LobOK(lob, venue)
  <2>1. Len(<<>>) <= MaxPending
    BY FeedAssumption
  <2> QED
    BY <1>1, <2>1, NoLobReal DEF FeedInit, LobOK, Real
<1>5. MdOK
  BY <1>1, MdIdleShaped DEF FeedInit, MdOK
<1>6. TopicsOK
  <2>1. NoSnap \in SnapSet(venue) /\ NoSnap.seq = 0
    BY <1>1, NoSnapShaped
  <2> QED
    BY <1>1, <2>1 DEF FeedInit, TopicsOK, CurveFollowsSnapshot
<1> QED
  BY <1>1, <1>2, <1>3, <1>4, <1>5, <1>6 DEF FeedInv
-----------------------------------------------------------------------------
(* Steps that leave the book, the market data thread and the topics alone. *)
LEMMA LinkFrame ==
  ASSUME FeedInv, LinkOK(link'), degradation' \in [publish : Nat, execution : Nat],
         wire' \in Seq(Diffs(venue)), UNCHANGED <<venue, lob, md, last_sequence, published, curve, lost>>
  PROVE  FeedInv'
<1>1. MdOK' /\ TopicsOK'
  BY DEF FeedInv, MdOK, TopicsOK, CurveFollowsSnapshot
<1> QED
  BY <1>1 DEF FeedInv

LEMMA FeedParts ==
  ASSUME FeedInv
  PROVE  /\ venue \in 1..Len(Books) /\ LinkOK(link) /\ link \in Links /\ wire \in Seq(Diffs(venue))
         /\ degradation \in [publish : Nat, execution : Nat] /\ md \in MdSet(venue)
         /\ LobOK(lob, venue)
  BY DEF FeedInv, LinkOK, MdOK, TopicsOK

LEMMA TimersStep == FeedInv /\ (CoolDown \/ EvictError \/ BackoffOver) => FeedInv'
<1> SUFFICES ASSUME FeedInv, CoolDown \/ EvictError \/ BackoffOver PROVE FeedInv'
  OBVIOUS
<1>1. LinkOK(link')
  <2>1. CASE CoolDown
    BY <2>1, FeedParts DEF CoolDown, LinkOK, Links
  <2>2. CASE EvictError
    <3> DEFINE e == link.errs - 1
    <3>1. e \in Nat
      BY <2>2, FeedParts DEF EvictError, Links
    <3>2. link' = [link EXCEPT !.errs = e]
      BY <2>2 DEF EvictError
    <3> HIDE DEF e
    <3> QED
      BY <3>1, <3>2, FeedParts DEF LinkOK, Links
  <2>3. CASE BackoffOver
    BY <2>3, FeedParts, BackoffOK DEF BackoffOver
  <2> QED
    BY <2>1, <2>2, <2>3
<1>2. UNCHANGED <<venue, wire, lob, md, last_sequence, published, degradation, curve, lost>>
  BY DEF CoolDown, EvictError, BackoffOver
<1> QED
  BY <1>1, <1>2, FeedParts, LinkFrame

LEMMA CallbackStep == FeedInv /\ (LoseEvent \/ OnWsOther \/ OnWsInvalid) => FeedInv'
<1> SUFFICES ASSUME FeedInv, LoseEvent \/ OnWsOther \/ OnWsInvalid PROVE FeedInv'
  OBVIOUS
<1>1. LinkOK(link')
  BY FeedParts, SucceededOK, FailedOK DEF LoseEvent, OnWsOther, OnWsInvalid
<1>2. wire' \in Seq(Diffs(venue))
  <2> DEFINE D == Diffs(venue)
  <2>1. wire \in Seq(D)
    BY FeedParts
  <2> HIDE DEF D
  <2>2. wire' \in Seq(D)
    BY <2>1 DEF LoseEvent, OnWsOther, OnWsInvalid
  <2> QED
    BY <2>2 DEF D
<1>3. UNCHANGED <<venue, lob, md, last_sequence, published, degradation, curve, lost>>
  BY DEF LoseEvent, OnWsOther, OnWsInvalid
<1> QED
  BY <1>1, <1>2, <1>3, FeedParts, LinkFrame

LEMMA OrderStep == FeedInv /\ (BeginOrder \/ FinishOrder) => FeedInv'
<1> SUFFICES ASSUME FeedInv, BeginOrder \/ FinishOrder PROVE FeedInv'
  OBVIOUS
<1>1. LinkOK(link')
  BY FeedParts, SucceededOK, FailedOK, EnteredOK DEF BeginOrder, FinishOrder
<1>2. degradation' \in [publish : Nat, execution : Nat]
  BY FeedParts DEF BeginOrder, FinishOrder, Rejected
<1>3. UNCHANGED <<venue, wire, lob, md, last_sequence, published, curve, lost>>
  BY DEF BeginOrder, FinishOrder
<1> QED
  BY <1>1, <1>2, <1>3, FeedParts, LinkFrame

LEMMA OperatorStep == FeedInv /\ (ChangeUrl \/ SetActive) => FeedInv'
<1> SUFFICES ASSUME FeedInv, ChangeUrl \/ SetActive PROVE FeedInv'
  OBVIOUS
<1>1. LinkOK(link')
  BY FeedParts, DownOK DEF ChangeUrl, SetActive
<1>2. UNCHANGED <<venue, wire, lob, md, last_sequence, published, degradation, curve, lost>>
  BY DEF ChangeUrl, SetActive
<1> QED
  BY <1>1, <1>2, FeedParts, LinkFrame

(* Steps of the market data thread before it publishes.                    *)
LEMMA MdFrame ==
  ASSUME FeedInv, LinkOK(link'), LobOK(lob', venue), md' \in MdSet(venue),
         md'.pc \notin {"curve", "build"}, md'.pc = "publish" => md'.snap.seq # 0,
         UNCHANGED <<venue, wire, last_sequence, published, degradation, curve, lost>>
  PROVE  FeedInv'
<1>1. MdOK'
  BY DEF MdOK
<1>2. TopicsOK'
  BY DEF FeedInv, TopicsOK, CurveFollowsSnapshot
<1> QED
  BY <1>1, <1>2 DEF FeedInv

LEMMA GotoShaped ==
  ASSUME FeedInv, NEW pc \in Stages
  PROVE  MdGoto(pc) \in MdSet(venue) /\ MdGoto(pc).pc = pc
  BY FeedParts DEF MdGoto, MdSet

LEMMA NextTryShaped ==
  ASSUME FeedInv
  PROVE  NextTry \in MdSet(venue) /\ NextTry.pc \in {"attempt", "idle"}
<1> DEFINE t == md.tries + 1
           n == [md EXCEPT !.pc = "attempt", !.tries = t]
<1>0. t \in Nat
  BY FeedParts DEF MdSet
<1>2. NextTry \in {n, MdIdle}
  BY DEF NextTry
<1> HIDE DEF t
<1>1. n \in MdSet(venue) /\ n.pc = "attempt"
  BY <1>0, FeedParts DEF MdSet, Stages
<1> HIDE DEF n
<1> QED
  BY <1>1, <1>2, FeedParts, MdIdleShaped

LEMMA TakeShaped ==
  ASSUME FeedInv, NEW snap \in SnapSet(venue), snap # NoSnap => snap.seq # 0
  PROVE  /\ Take(snap) \in MdSet(venue) /\ Take(snap).pc \in {"idle", "publish"}
         /\ Take(snap).pc = "publish" => Take(snap).snap.seq # 0
<1>1. CASE snap = NoSnap
  BY <1>1, FeedParts, MdIdleShaped DEF Take
<1>2. CASE snap # NoSnap
  <2> DEFINE n == [md EXCEPT !.pc = "publish", !.snap = snap]
  <2>1. n \in MdSet(venue) /\ n.pc = "publish" /\ n.snap = snap
    BY FeedParts DEF MdSet, Stages
  <2>2. Take(snap) = n
    BY <1>2 DEF Take
  <2> HIDE DEF n
  <2> QED
    BY <1>2, <2>1, <2>2
<1> QED
  BY <1>1, <1>2

LEMMA HeartbeatStep == FeedInv /\ Heartbeat => FeedInv'
<1> SUFFICES ASSUME FeedInv, Heartbeat PROVE FeedInv'
  OBVIOUS
<1>1. LinkOK(link')
  BY FeedParts, FailedOK, DownOK DEF Heartbeat, PingFailed, PongTimeout
<1>2. md' \in MdSet(venue) /\ md'.pc \in {"idle", "request", "reconnect"}
  <2>1. MdIdle \in MdSet(venue) /\ MdIdle.pc = "idle"
    BY FeedParts, MdIdleShaped
  <2>2. \A pc \in Stages : [MdIdle EXCEPT !.pc = pc] \in MdSet(venue) /\ [MdIdle EXCEPT !.pc = pc].pc = pc
    BY <2>1 DEF MdSet
  <2>3. {"request", "reconnect"} \subseteq Stages
    BY DEF Stages
  <2>4. md' \in {MdIdle, [MdIdle EXCEPT !.pc = "request"], [MdIdle EXCEPT !.pc = "reconnect"]}
    BY DEF Heartbeat
  <2> QED
    BY <2>1, <2>2, <2>3, <2>4
<1>3. UNCHANGED <<venue, wire, lob, last_sequence, published, degradation, curve, lost>>
  BY DEF Heartbeat
<1> QED
  BY <1>1, <1>2, <1>3, FeedParts, MdFrame

LEMMA ReconnectStep == FeedInv /\ (BeginReconnect \/ CloseSession \/ ConnectSession) => FeedInv'
<1> SUFFICES ASSUME FeedInv, BeginReconnect \/ CloseSession \/ ConnectSession PROVE FeedInv'
  OBVIOUS
<1>1. LinkOK(link')
  <2>0. Exhausted \in BOOLEAN /\ LinkOK(Entered(link)) /\ LinkOK(Failed([link EXCEPT !.connected = FALSE]))
    BY FeedParts, EnteredOK, DownOK, FailedOK DEF Exhausted
  <2>1. CASE BeginReconnect
    BY <2>0, <2>1, FeedParts DEF BeginReconnect
  <2>2. CASE CloseSession
    BY <2>0, <2>2, FeedParts, DownOK, BackoffOK DEF CloseSession
  <2>3. CASE ConnectSession
    <3>1. [link EXCEPT !.connected = TRUE, !.backoff = FALSE] \in Links
      BY FeedParts DEF Links
    <3>2. CASE link' = Succeeded([link EXCEPT !.connected = TRUE, !.backoff = FALSE])
      BY <3>1, <3>2, SucceededOK
    <3>3. CASE link' = [Failed([link EXCEPT !.connected = FALSE]) EXCEPT !.backoff = Exhausted \/ @]
      <4> DEFINE f == Failed([link EXCEPT !.connected = FALSE])
                 b == Exhausted \/ f.backoff
      <4>1. LinkOK(f) /\ b \in BOOLEAN /\ link' = [f EXCEPT !.backoff = b]
        BY <2>0, <3>3
      <4> HIDE DEF f, b
      <4> QED
        BY <4>1, BackoffOK
    <3> QED
      BY <2>3, <3>2, <3>3 DEF ConnectSession
  <2> QED
    BY <2>1, <2>2, <2>3
<1>2. md' \in MdSet(venue) /\ md'.pc \in {"idle", "attempt", "connect", "request"}
  <2>1. {"attempt", "connect", "request"} \subseteq Stages
    BY DEF Stages
  <2>2. md' \in {MdIdle, NextTry, MdGoto("attempt"), MdGoto("connect"), MdGoto("request")}
    BY DEF BeginReconnect, CloseSession, ConnectSession
  <2> QED
    BY <2>1, <2>2, FeedParts, MdIdleShaped, NextTryShaped, GotoShaped
<1>3. UNCHANGED <<venue, wire, lob, last_sequence, published, degradation, curve, lost>>
  BY DEF BeginReconnect, CloseSession, ConnectSession
<1> QED
  BY <1>1, <1>2, <1>3, FeedParts, MdFrame

LEMMA RestStep == FeedInv /\ (RequestSnapshot \/ RestAnswers \/ DropDuplicate) => FeedInv'
<1> SUFFICES ASSUME FeedInv, RequestSnapshot \/ RestAnswers \/ DropDuplicate PROVE FeedInv'
  OBVIOUS
<1>1. LinkOK(link')
  BY FeedParts, EnteredOK DEF RequestSnapshot, RestAnswers, DropDuplicate
<1>2. /\ md' \in MdSet(venue) /\ md'.pc \in {"idle", "publish", "rest", "apply"}
      /\ md'.pc = "publish" => md'.snap.seq # 0
  <2>1. CASE RequestSnapshot
    <3>1. /\ Snapshot(lob, "disconnected") \in SnapSet(venue)
          /\ Snapshot(lob, "disconnected") # NoSnap => Snapshot(lob, "disconnected").seq # 0
      BY FeedParts, SnapshotOK DEF Statuses
    <3>2. md' \in {Take(Snapshot(lob, "disconnected")), MdGoto("rest"), MdIdle}
      BY <2>1 DEF RequestSnapshot
    <3>3. "rest" \in Stages
      BY DEF Stages
    <3> QED
      BY <3>1, <3>2, <3>3, FeedParts, TakeShaped, GotoShaped, MdIdleShaped
  <2>2. CASE RestAnswers
    <3>0. venue \in 0..venue /\ 0 \in 0..venue
      BY FeedParts
    <3>1. PICK k \in 0..venue : md' = [md EXCEPT !.pc = "apply", !.rest = k]
      BY <2>2, <3>0 DEF RestAnswers
    <3> QED
      BY <3>1, FeedParts DEF MdSet, Stages
  <2>3. CASE DropDuplicate
    BY <2>3, FeedParts, MdIdleShaped DEF DropDuplicate
  <2> QED
    BY <2>1, <2>2, <2>3
<1>3. UNCHANGED <<venue, wire, lob, last_sequence, published, degradation, curve, lost>>
  BY DEF RequestSnapshot, RestAnswers, DropDuplicate
<1> QED
  BY <1>1, <1>2, <1>3, FeedParts, MdFrame

(* A REST answer that was on its way while the stream went on.             *)
LEMMA ApplyRestStep == FeedInv /\ ApplyRest => FeedInv'
<1> SUFFICES ASSUME FeedInv, ApplyRest PROVE FeedInv'
  OBVIOUS
<1>1. LinkOK(link')
  BY FeedParts, SucceededOK, FailedOK DEF ApplyRest
<1>2. LobOK(lob', venue)
  <2>1. md.rest # 0 => md.rest \in 1..venue
    BY FeedParts DEF MdSet
  <2> QED
    BY <2>1, FeedParts, ParseRestOK DEF ApplyRest
<1>3. PICK status \in Statuses : md' = Take(Snapshot(lob', status))
  <2>1. {"connected", "stale", "disconnected"} \subseteq Statuses
    BY DEF Statuses
  <2> QED
    BY <2>1 DEF ApplyRest, Cached
<1>4. /\ Snapshot(lob', status) \in SnapSet(venue)
      /\ Snapshot(lob', status) # NoSnap => Snapshot(lob', status).seq # 0
  BY <1>2, FeedParts, SnapshotOK
<1>5. UNCHANGED <<venue, wire, last_sequence, published, degradation, curve, lost>>
  BY DEF ApplyRest
<1> QED
  BY <1>1, <1>2, <1>3, <1>4, <1>5, TakeShaped, MdFrame

(* An event of the stream reaches the local book.                          *)
LEMMA OnWsDepthStep == FeedInv /\ OnWsDepth => FeedInv'
<1> SUFFICES ASSUME FeedInv, OnWsDepth PROVE FeedInv'
  OBVIOUS
<1>1. Head(wire) \in Diffs(venue) /\ wire' \in Seq(Diffs(venue))
  <2> DEFINE D == Diffs(venue)
  <2>1. wire \in Seq(D) /\ wire # <<>> /\ wire' = Tail(wire)
    BY FeedParts DEF OnWsDepth
  <2> HIDE DEF D
  <2>2. Head(wire) \in D /\ wire' \in Seq(D)
    BY <2>1
  <2> QED
    BY <2>2 DEF D
<1>2. LobOK(lob', venue)
  BY <1>1, FeedParts, OnDepthOK DEF OnWsDepth
<1>3. LinkOK(link')
  BY FeedParts, SucceededOK, FailedOK DEF OnWsDepth
<1>4. UNCHANGED <<venue, md, last_sequence, published, degradation, curve, lost>>
  BY DEF OnWsDepth
<1>5. MdOK' /\ TopicsOK'
  BY <1>4 DEF FeedInv, MdOK, TopicsOK, CurveFollowsSnapshot
<1> QED
  BY <1>1, <1>2, <1>3, <1>4, <1>5, FeedParts DEF FeedInv

(* The venue moves on: what was real at an earlier update id stays so.     *)
LEMMA LaterVenue ==
  ASSUME NEW v \in 1..Len(Books), NEW w \in 1..Len(Books), v <= w
  PROVE  /\ 0..v \subseteq 0..w /\ Diffs(v) \subseteq Diffs(w) /\ Seq(Diffs(v)) \subseteq Seq(Diffs(w))
         /\ LobSet(v) \subseteq LobSet(w) /\ SnapSet(v) \subseteq SnapSet(w) /\ MdSet(v) \subseteq MdSet(w)
<1>1. 0..v \subseteq 0..w /\ 2..v \subseteq 2..w
  OBVIOUS
<1>2. Diffs(v) \subseteq Diffs(w)
  BY <1>1 DEF Diffs
<1>3. Seq(Diffs(v)) \subseteq Seq(Diffs(w))
  <2> DEFINE D == Diffs(v)
             E == Diffs(w)
  <2>1. D \subseteq E
    BY <1>2
  <2> HIDE DEF D, E
  <2>2. Seq(D) \subseteq Seq(E)
    BY <2>1
  <2> QED
    BY <2>2 DEF D, E
<1> DEFINE A == Seq(Diffs(v))
           B == Seq(Diffs(w))
           X == 0..v
           Y == 0..w
<1>4. A \subseteq B /\ X \subseteq Y
  BY <1>1, <1>3
<1> HIDE DEF A, B, X, Y
<1>5. [init : BOOLEAN, seq : X, bids : Side, asks : Side, reinit : BOOLEAN, empty : BOOLEAN, pending : A]
        \subseteq [init : BOOLEAN, seq : Y, bids : Side, asks : Side, reinit : BOOLEAN, empty : BOOLEAN, pending : B]
  BY <1>4
<1>6. LobSet(v) \subseteq LobSet(w)
  BY <1>5 DEF LobSet, A, B, X, Y
<1>7. [seq : X, bids : Side, asks : Side, status : Statuses]
        \subseteq [seq : Y, bids : Side, asks : Side, status : Statuses]
  BY <1>4
<1>8. SnapSet(v) \subseteq SnapSet(w)
  BY <1>7 DEF SnapSet, X, Y
<1> DEFINE S == SnapSet(v)
           T == SnapSet(w)
<1>9. S \subseteq T
  BY <1>8
<1> HIDE DEF S, T
<1>10. [pc : Stages, tries : Nat, rest : X, snap : S, level : 0..CurveLevel]
         \subseteq [pc : Stages, tries : Nat, rest : Y, snap : T, level : 0..CurveLevel]
  BY <1>4, <1>9
<1>11. MdSet(v) \subseteq MdSet(w)
  BY <1>10 DEF MdSet, S, T, X, Y
<1> QED
  BY <1>1, <1>2, <1>3, <1>6, <1>8, <1>11

LEMMA VenueMovesStep ==
  ASSUME FeedInv, NEW n \in 1..2, VenueMoves(n)
  PROVE  FeedInv'
<1>1. venue \in 1..Len(Books) /\ venue' = venue + n /\ venue + n <= Len(Books) /\ Len(Books) \in Nat
  BY FeedParts, FeedAssumption DEF VenueMoves
<1>2. venue' \in 1..Len(Books) /\ venue <= venue'
  BY <1>1
<1>3. /\ 0..venue \subseteq 0..venue' /\ Seq(Diffs(venue)) \subseteq Seq(Diffs(venue'))
      /\ LobSet(venue) \subseteq LobSet(venue') /\ SnapSet(venue) \subseteq SnapSet(venue')
      /\ MdSet(venue) \subseteq MdSet(venue')
  BY <1>1, <1>2, LaterVenue
<1>4. wire' \in Seq(Diffs(venue'))
  <2> DEFINE d == [first |-> venue + 1, final |-> venue + n]
             D == Diffs(venue')
  <2>1. d \in D
    BY <1>1, <1>2 DEF Diffs
  <2>2. wire \in Seq(D) /\ wire' = Append(wire, d)
    BY <1>3, FeedParts DEF VenueMoves
  <2> HIDE DEF d, D
  <2>3. wire' \in Seq(D)
    BY <2>1, <2>2
  <2> QED
    BY <2>3 DEF D
<1>5. UNCHANGED <<link, lob, md, last_sequence, published, degradation, curve, lost>>
  BY DEF VenueMoves
<1>6. LinkOK(link') /\ LobOK(lob', venue')
  BY <1>3, <1>5, FeedParts DEF LobOK
<1>7. MdOK'
  BY <1>3, <1>5 DEF FeedInv, MdOK
<1>8. TopicsOK'
  BY <1>3, <1>5 DEF FeedInv, TopicsOK, CurveFollowsSnapshot
<1> QED
  BY <1>2, <1>4, <1>6, <1>7, <1>8 DEF FeedInv

(* The level a curve starts from.                                          *)
LEMMA ReadDegradationStep == FeedInv /\ ReadDegradation => FeedInv'
<1> SUFFICES ASSUME FeedInv, ReadDegradation PROVE FeedInv'
  OBVIOUS
<1>1. UNCHANGED <<venue, wire, link, lob, last_sequence, published, degradation, curve, lost>>
  BY DEF ReadDegradation
<1>2. /\ md.pc = "curve" /\ md \in MdSet(venue) /\ md.snap = published
      /\ md.snap.status \in {"empty", "disconnected", "stale", "connected"}
  BY DEF FeedInv, ReadDegradation, MdAt, MdOK, MdSet, SnapSet, Statuses
<1>3. CASE md' = MdIdle
  <2>1. MdIdle \in MdSet(venue) /\ MdIdle.pc = "idle"
    BY FeedParts, MdIdleShaped
  <2> QED
    BY <1>1, <1>3, <2>1, FeedParts, MdFrame
<1>4. CASE md' # MdIdle
  <2> DEFINE c == CurveCap(md.snap.status)
             n == [md EXCEPT !.pc = "build", !.level = c]
  <2>1. md' = n /\ md.snap.status \in {"connected", "stale"}
    BY <1>2, <1>4 DEF ReadDegradation
  <2>2. c \in 0..CurveLevel
    <3>1. Errors \in Nat /\ CurveLevel \in Nat
      BY FeedParts, FeedAssumption DEF Errors
    <3> QED
      BY <3>1 DEF CurveCap
  <2> HIDE DEF c
  <2>3. n \in MdSet(venue) /\ n.pc = "build" /\ n.snap = md.snap
    BY <1>2, <2>2 DEF MdSet, Stages
  <2> HIDE DEF n
  <2>4. MdOK'
    BY <1>1, <1>2, <2>1, <2>3 DEF MdOK
  <2>5. TopicsOK'
    BY <1>1 DEF FeedInv, TopicsOK, CurveFollowsSnapshot
  <2> QED
    BY <1>1, <2>4, <2>5 DEF FeedInv
<1> QED
  BY <1>3, <1>4

(* A snapshot is published, or lost with its update id spent.              *)
LEMMA PublishSnapshotStep ==
  ASSUME FeedInv, NEW aged \in BOOLEAN, PublishSnapshot(aged)
  PROVE  FeedInv' /\ (published' # published => published'.seq > published.seq)
<1> DEFINE st == DeriveStatus(md.snap, aged)
           snap == [md.snap EXCEPT !.status = st]
<1>1. /\ venue \in 1..Len(Books) /\ md.pc = "publish" /\ md \in MdSet(venue) /\ md.snap \in SnapSet(venue)
      /\ md.snap.seq \in 0..venue /\ md.snap.seq # 0 /\ ~IsDuplicate(md.snap.seq)
  BY DEF FeedInv, MdOK, MdSet, SnapSet, PublishSnapshot, MdAt
<1>2. st \in {"disconnected", "empty", "stale", "connected"}
  BY DEF DeriveStatus
<1>3. \/ published' = snap /\ lost' = lost
         /\ md' = [md EXCEPT !.pc = IF CurveLevel = 0 THEN "idle" ELSE "curve", !.snap = snap]
      \/ md' = MdIdle /\ lost' = lost \cup {snap.seq} /\ published' = published
  BY DEF PublishSnapshot
<1>4. last_sequence' = md.snap.seq /\ UNCHANGED <<venue, wire, link, lob, degradation, curve>>
  BY <1>1 DEF PublishSnapshot
<1> HIDE DEF st
<1>5. snap \in SnapSet(venue) /\ snap.seq = md.snap.seq /\ snap.status = st
  BY <1>1, <1>2 DEF SnapSet, Statuses
<1> HIDE DEF snap
<1>6. /\ last_sequence \in 0..venue /\ published \in SnapSet(venue) /\ published.seq \in 0..venue
      /\ curve \in Nat /\ published.seq <= last_sequence /\ curve <= published.seq
      /\ degradation \in [publish : Nat, execution : Nat]
      /\ curve \notin lost /\ published.seq \notin lost
      /\ \A x \in lost : x \in Nat \ {0} /\ x <= last_sequence
      /\ curve = published.seq /\ curve # 0 => published.status \in {"connected", "stale"}
  BY DEF FeedInv, TopicsOK, CurveFollowsSnapshot, SnapSet
<1>7. md.snap.seq \in Nat /\ md.snap.seq > last_sequence
  BY <1>1, <1>6 DEF IsDuplicate
<1>8. published.seq < snap.seq /\ curve < snap.seq /\ last_sequence' = snap.seq /\ snap.seq \in 0..venue
      /\ snap.seq \in Nat \ {0}
  BY <1>1, <1>4, <1>5, <1>6, <1>7
<1>9. CASE /\ published' = snap /\ lost' = lost
           /\ md' = [md EXCEPT !.pc = IF CurveLevel = 0 THEN "idle" ELSE "curve", !.snap = snap]
  <2>1. md' \in MdSet(venue) /\ md'.pc \in {"idle", "curve"} /\ md'.snap = snap
    BY <1>1, <1>5, <1>9 DEF MdSet, Stages
  <2>2. MdOK'
    BY <1>2, <1>4, <1>5, <1>9, <2>1 DEF MdOK
  <2>3. \A x \in lost : x < snap.seq
    BY <1>6, <1>8, <1>5, <1>7
  <2>4. CurveFollowsSnapshot'
    BY <1>4, <1>6, <1>8, <1>9 DEF CurveFollowsSnapshot
  <2>5. TopicsOK'
    BY <1>4, <1>5, <1>6, <1>8, <1>9, <2>3, <2>4 DEF TopicsOK
  <2> QED
    BY <1>4, <1>8, <1>9, <2>2, <2>5 DEF FeedInv
<1>10. CASE md' = MdIdle /\ lost' = lost \cup {snap.seq} /\ published' = published
  <2>1. MdIdle \in MdSet(venue) /\ MdIdle.pc = "idle"
    BY <1>1, MdIdleShaped
  <2>2. MdOK'
    BY <1>4, <1>10, <2>1 DEF MdOK
  <2>3. \A x \in lost' : x \in Nat \ {0} /\ x <= snap.seq
    BY <1>5, <1>6, <1>7, <1>8, <1>10
  <2>4. published.seq \notin lost' /\ curve \notin lost'
    BY <1>6, <1>8, <1>10
  <2>5. CurveFollowsSnapshot'
    BY <1>4, <1>6, <1>10, <2>4 DEF CurveFollowsSnapshot
  <2>6. TopicsOK'
    BY <1>4, <1>6, <1>8, <1>10, <2>3, <2>4, <2>5 DEF TopicsOK
  <2> QED
    BY <1>4, <1>10, <2>2, <2>6 DEF FeedInv
<1> QED
  BY <1>3, <1>9, <1>10

LEMMA PublishCurveStep ==
  ASSUME FeedInv, NEW level \in GatedLevels, PublishCurve(level)
  PROVE  FeedInv'
<1>1. /\ UNCHANGED <<venue, wire, link, lob, last_sequence, published, lost>> /\ md' = MdIdle
      /\ curve' \in {curve, md.snap.seq}
  BY DEF PublishCurve
<1>2. md.snap = published /\ md.snap.status \in {"connected", "stale"}
  BY DEF FeedInv, MdOK, PublishCurve, MdAt
<1>3. degradation' \in [publish : Nat, execution : Nat]
  BY FeedParts DEF PublishCurve
<1>4. MdIdle \in MdSet(venue) /\ MdIdle.pc = "idle"
  BY FeedParts, MdIdleShaped
<1>5. MdOK'
  BY <1>1, <1>4 DEF MdOK
<1>6. published.seq \in Nat /\ published.seq \notin lost /\ CurveFollowsSnapshot
  BY DEF FeedInv, TopicsOK, SnapSet
<1>7. curve' \in Nat /\ CurveFollowsSnapshot'
  <2>1. CASE curve' = curve
    BY <1>1, <1>6, <2>1 DEF CurveFollowsSnapshot, FeedInv, TopicsOK
  <2>2. CASE curve' = published.seq
    BY <1>1, <1>2, <1>6, <2>2 DEF CurveFollowsSnapshot
  <2> QED
    BY <1>1, <1>2, <2>1, <2>2
<1>8. TopicsOK'
  BY <1>1, <1>3, <1>7 DEF FeedInv, TopicsOK
<1> QED
  BY <1>1, <1>5, <1>8 DEF FeedInv
-----------------------------------------------------------------------------
LEMMA FeedStep ==
  ASSUME FeedInv, [FeedNext]_feedVars
  PROVE  FeedInv' /\ (published' # published => published'.seq > published.seq)
<1>1. CASE UNCHANGED feedVars
  BY <1>1 DEF feedVars, FeedInv, LinkOK, LobOK, Real, MdOK, TopicsOK, CurveFollowsSnapshot
<1>2. CASE \E aged \in BOOLEAN : PublishSnapshot(aged)
  BY <1>2, PublishSnapshotStep
<1>3. CASE \E level \in GatedLevels : PublishCurve(level)
  <2>1. published' = published
    BY <1>3 DEF PublishCurve
  <2> QED
    BY <1>3, <2>1, PublishCurveStep
<1>4. CASE \E n \in 1..2 : VenueMoves(n)
  <2>1. published' = published
    BY <1>4 DEF VenueMoves
  <2> QED
    BY <1>4, <2>1, VenueMovesStep
<1>5. CASE OnWsDepth \/ LoseEvent \/ OnWsOther \/ OnWsInvalid
  <2>1. published' = published
    BY <1>5 DEF OnWsDepth, LoseEvent, OnWsOther, OnWsInvalid
  <2> QED
    BY <1>5, <2>1, OnWsDepthStep, CallbackStep
<1>6. CASE BeginOrder \/ FinishOrder \/ ChangeUrl \/ SetActive
  <2>1. published' = published
    BY <1>6 DEF BeginOrder, FinishOrder, ChangeUrl, SetActive
  <2> QED
    BY <1>6, <2>1, OrderStep, OperatorStep
<1>7. CASE CoolDown \/ EvictError \/ BackoffOver
  <2>1. published' = published
    BY <1>7 DEF CoolDown, EvictError, BackoffOver
  <2> QED
    BY <1>7, <2>1, TimersStep
<1>8. CASE Heartbeat \/ BeginReconnect \/ CloseSession \/ ConnectSession
  <2>1. published' = published
    BY <1>8 DEF Heartbeat, BeginReconnect, CloseSession, ConnectSession
  <2> QED
    BY <1>8, <2>1, HeartbeatStep, ReconnectStep
<1>9. CASE RequestSnapshot \/ RestAnswers \/ DropDuplicate \/ ApplyRest \/ ReadDegradation
  <2>1. published' = published
    BY <1>9 DEF RequestSnapshot, RestAnswers, DropDuplicate, ApplyRest, ReadDegradation
  <2> QED
    BY <1>9, <2>1, RestStep, ApplyRestStep, ReadDegradationStep
<1> QED
  BY <1>1, <1>2, <1>3, <1>4, <1>5, <1>6, <1>7, <1>8, <1>9 DEF FeedNext, MdStep

(* The local book is the venue's at its update id and never crossed or     *)
(* one-sided, an open circuit has its session down, and a curve on the     *)
(* topic follows its snapshot: whatever the stream loses, however late a   *)
(* REST answer is, and whichever thread opens the circuit, for every       *)
(* sequence of books of the venue.                                         *)
THEOREM FeedIsSafe == FeedSpec => []FeedSafety
<1>1. FeedInv /\ [FeedNext]_feedVars => FeedInv'
  BY FeedStep
<1> QED
  BY <1>1, FeedInitInv, FeedInvSafe, PTL DEF FeedSpec

(* Snapshots reach the topic in the order of their update ids.             *)
THEOREM SnapshotsGoForward == FeedSpec => PublishedForward
<1>1. FeedInv /\ [FeedNext]_feedVars => FeedInv'
  BY FeedStep
<1>2. FeedInv /\ [FeedNext]_feedVars => [published' # published => published'.seq > published.seq]_feedVars
  BY FeedStep
<1> QED
  BY <1>1, <1>2, FeedInitInv, PTL DEF FeedSpec, PublishedForward
-----------------------------------------------------------------------------
(* The store of market data.                                               *)
StoreTable ==
  {"batchresults", "fills", "execution_venue", "execution_reports", "grouped_events", "grouped_legs",
   "grouped_quality", "ratio_deviation", "liquidity_curves", "effective_spreads"}

StoredRow == [table : StoreTable, event : StoreEvent, item : {1, 2}, at : 0 .. (MaxCrashes + 1)]

StoreShaped ==
  /\ handling = Nothing \/ handling \in [event : StoreEvent, todo : Seq(StoreTable)]
  /\ storedRows \subseteq StoredRow
  /\ storeSpent \in [faults : Nat, crashes : 0 .. MaxCrashes]

(* A message comes back only after a crash that found it uncommitted.      *)
DeliveriesCounted ==
  \A e \in StoreEvent :
    deliveries[e] <= storeSpent.crashes + (IF e \in consumed THEN 1 ELSE 0)

StoreInv == StoreTypeOK /\ StoreShaped /\ DeliveriesCounted /\ RowsUnlessRefused

(* The rows of a message in one of its tables.                             *)
InTable(e, table) ==
  \A item \in ItemsOf(table) : \E r \in storedRows :
    r.table = table /\ r.event = e /\ r.item = item

StoreTables == UNION {ChainTo(c, Len(c)) : c \in SchemaChains}

LEMMA InsertsAre == ASSUME StoreAssumption PROVE \A e \in StoreEvent : Inserts(e) \in Seq(StoreTable)
<1>0. <<>> \in Seq(StoreTable) /\ \A t \in StoreTable : <<t>> \in Seq(StoreTable)
  OBVIOUS
<1>a. \A t \in {"batchresults", "fills", "execution_venue", "execution_reports", "grouped_events",
                "grouped_legs", "grouped_quality", "ratio_deviation", "liquidity_curves",
                "effective_spreads"} : <<t>> \in Seq(StoreTable)
  BY <1>0 DEF StoreTable
<1>1. \A s, t \in Seq(StoreTable) : s \o t \in Seq(StoreTable)
  BY ConcatProperties
<1>2. /\ SaveBatchResult \in Seq(StoreTable) /\ (\A n \in {0, 1} : SaveFills(n) \in Seq(StoreTable))
      /\ ReportRow \in Seq(StoreTable) /\ ReportRowV2 \in Seq(StoreTable)
      /\ SaveCurve \in Seq(StoreTable) /\ SaveRecord \in Seq(StoreTable)
  BY <1>0, <1>a DEF SaveBatchResult, SaveFills, ReportRow, ReportRowV2, SaveCurve, SaveRecord
<1>3. \A legs \in {0, 2} :
        /\ GroupedEventRow \in Seq(StoreTable) /\ GroupedQualityRow \in Seq(StoreTable)
        /\ GroupedLegRows(legs) \in Seq(StoreTable) /\ RatioDeviationRows(legs) \in Seq(StoreTable)
  BY <1>0, <1>a DEF GroupedEventRow, GroupedQualityRow, GroupedLegRows, RatioDeviationRows
<1>4. SaveExecutionReport \in Seq(StoreTable)
  BY <1>1, <1>2 DEF SaveExecutionReport
<1>5. \A legs \in {0, 2} : SaveExecutionGroup(legs) \in Seq(StoreTable)
  <2> SUFFICES ASSUME NEW legs \in {0, 2} PROVE SaveExecutionGroup(legs) \in Seq(StoreTable)
    OBVIOUS
  <2>1. GroupedEventRow \o GroupedQualityRow \in Seq(StoreTable)
    BY <1>1, <1>3
  <2>2. (GroupedEventRow \o GroupedQualityRow) \o GroupedLegRows(legs) \in Seq(StoreTable)
    BY <1>1, <1>3, <2>1
  <2> QED
    BY <1>1, <1>3, <2>2 DEF SaveExecutionGroup
<1>6. SaveBatchResult \o SaveFills(0) \in Seq(StoreTable) /\ SaveBatchResult \o SaveFills(1) \in Seq(StoreTable)
  BY <1>1, <1>2
<1> SUFFICES ASSUME NEW e \in StoreEvent PROVE Inserts(e) \in Seq(StoreTable)
  OBVIOUS
<1>7. e \in {"batch", "empty", "group", "blocked", "report", "curve", "fill"}
  BY DEF StoreAssumption
<1> QED
  BY <1>2, <1>4, <1>5, <1>6, <1>7 DEF Inserts

LEMMA StoreInitInv == ASSUME StoreAssumption, StoreInit PROVE StoreInv
<1>1. StoreTypeOK /\ StoreShaped /\ DeliveriesCounted
  BY DEF StoreAssumption, StoreInit, StoreTypeOK, StoreShaped, DeliveriesCounted, Nothing
<1>2. \A e \in StoreEvent : 1 .. deliveries[e] = {}
  BY DEF StoreInit
<1>3. RowsUnlessRefused
  BY <1>2 DEF RowsUnlessRefused
<1> QED
  BY <1>1, <1>3 DEF StoreInv

(* What an excuse and a row in a table become in the next state.           *)
LEMMA RowsKept ==
  ASSUME StoreInv,
         \A e \in StoreEvent, table \in StoreTable :
           /\ InTable(e, table) => InTable(e, table)'
           /\ e # "fill" /\ (\A a \in 1 .. deliveries[e] : Excused(e, a, table)) =>
                InTable(e, table)' \/ \A a \in 1 .. deliveries'[e] : Excused(e, a, table)',
         StoreAssumption
  PROVE  RowsUnlessRefused'
<1> SUFFICES ASSUME NEW e \in StoreEvent \ {"fill"}, NEW i \in DOMAIN Inserts(e)
             PROVE  \/ \A a \in 1 .. deliveries'[e] : Excused(e, a, Inserts(e)[i])'
                    \/ InTable(e, Inserts(e)[i])'
  BY DEF RowsUnlessRefused, InTable
<1> DEFINE table == Inserts(e)[i]
<1>1. table \in StoreTable
  BY InsertsAre
<1>2. \/ \A a \in 1 .. deliveries[e] : Excused(e, a, table)
      \/ InTable(e, table)
  BY DEF StoreInv, RowsUnlessRefused, InTable
<1> HIDE DEF table
<1>3. \/ \A a \in 1 .. deliveries'[e] : Excused(e, a, table)'
      \/ InTable(e, table)'
  BY <1>1, <1>2
<1> QED
  BY <1>3 DEF table

LEMMA TableKept ==
  ASSUME storedRows \subseteq storedRows', NEW e, NEW table, InTable(e, table)
  PROVE  InTable(e, table)'
  BY DEF InTable

LEMMA SchemaStep == ASSUME StoreAssumption, StoreInv, EnsureSchema PROVE StoreInv'
<1> USE DEF StoreInv
<1>1. tablesReady \subseteq tablesReady' /\ tablesReady' \subseteq StoreTables
  <2>1. tablesReady \subseteq StoreTables
    BY DEF StoreTypeOK, StoreTables
  <2>2. CASE tablesReady' = StoreTables
    BY <2>1, <2>2
  <2>3. ASSUME NEW broken \in SchemaChains, NEW n \in 0 .. (Len(broken) - 1),
               tablesReady' = tablesReady \cup ChainTo(broken, n)
                              \cup UNION {ChainTo(c, Len(c)) : c \in SchemaChains \ {broken}}
        PROVE  tablesReady \subseteq tablesReady' /\ tablesReady' \subseteq StoreTables
    <3>1. Len(broken) \in Nat
      BY DEF SchemaChains
    <3>2. ChainTo(broken, n) \subseteq ChainTo(broken, Len(broken))
      BY <3>1 DEF ChainTo
    <3>3. ChainTo(broken, Len(broken)) \subseteq StoreTables
      BY DEF StoreTables
    <3>4. UNION {ChainTo(c, Len(c)) : c \in SchemaChains \ {broken}} \subseteq StoreTables
      BY DEF StoreTables
    <3> QED
      BY <2>1, <2>3, <3>2, <3>3, <3>4
  <2> QED
    BY <2>2, <2>3 DEF EnsureSchema, StoreTables
<1>2. storeSpent' \in [faults : Nat, crashes : 0 .. MaxCrashes] /\ storeSpent'.crashes = storeSpent.crashes
  BY DEF EnsureSchema, StoreFault, StoreShaped
<1>3. /\ storePhase' = "run"
      /\ UNCHANGED <<arrived, handling, consumed, committedSet, deliveries, storedRows, refusedAt, abandonedAt>>
  BY DEF EnsureSchema
<1>4. StoreTypeOK'
  BY <1>1, <1>3 DEF StoreTypeOK, StoreTables
<1>5. StoreShaped' /\ DeliveriesCounted'
  BY <1>2, <1>3 DEF StoreShaped, DeliveriesCounted
<1>6. RowsUnlessRefused'
  BY <1>3 DEF RowsUnlessRefused, Excused
<1> QED
  BY <1>4, <1>5, <1>6

LEMMA ConsumeStep ==
  ASSUME StoreAssumption, StoreInv, NEW e \in StoreEvent, Consume(e) PROVE StoreInv'
<1> USE DEF StoreInv
<1>1. /\ handling = Nothing /\ e \in arrived \ consumed
      /\ consumed' = consumed \cup {e}
      /\ deliveries' = [deliveries EXCEPT ![e] = @ + 1]
      /\ handling' = [event |-> e, todo |-> Inserts(e)] \/ (e = "fill" /\ UNCHANGED handling)
      /\ UNCHANGED <<arrived, tablesReady, storePhase, committedSet, storedRows, refusedAt, abandonedAt, storeSpent>>
  BY DEF Consume
<1>2. /\ deliveries \in [StoreEvent -> 0 .. (MaxCrashes + 1)]
      /\ deliveries[e] <= storeSpent.crashes /\ storeSpent.crashes \in 0 .. MaxCrashes
      /\ MaxCrashes \in Nat
  BY <1>1 DEF StoreTypeOK, StoreShaped, DeliveriesCounted, StoreAssumption
<1>3. /\ deliveries'[e] = deliveries[e] + 1 /\ deliveries[e] \in Nat
      /\ deliveries[e] + 1 \in 0 .. (MaxCrashes + 1)
      /\ \A x \in StoreEvent \ {e} : deliveries'[x] = deliveries[x]
  BY <1>1, <1>2
<1>4. deliveries' \in [StoreEvent -> 0 .. (MaxCrashes + 1)]
  BY <1>1, <1>2, <1>3
<1>5. handling' = Nothing \/ handling' \in [event : StoreEvent, todo : Seq(StoreTable)]
  BY <1>1, InsertsAre
<1>6. StoreTypeOK'
  BY <1>1, <1>4, <1>5 DEF StoreTypeOK, Nothing
<1>7. StoreShaped'
  BY <1>1, <1>5 DEF StoreShaped
<1>8. DeliveriesCounted'
  BY <1>1, <1>2, <1>3 DEF DeliveriesCounted
<1>9. RowsUnlessRefused'
  <2> SUFFICES ASSUME NEW x \in StoreEvent \ {"fill"}, NEW i \in DOMAIN Inserts(x),
                      ~InTable(x, Inserts(x)[i])', NEW a \in 1 .. deliveries'[x]
               PROVE  Excused(x, a, Inserts(x)[i])'
    BY DEF RowsUnlessRefused, InTable
  <2>1. \A b \in 1 .. deliveries[x] : Excused(x, b, Inserts(x)[i])
    BY <1>1 DEF RowsUnlessRefused, InTable
  <2>2. CASE a \in 1 .. deliveries[x]
    <3>1. <<x, a, Inserts(x)[i]>> \in refusedAt \/ <<x, a>> \in abandonedAt
      BY <1>1, <2>1, <2>2 DEF Excused, Nothing
    <3> QED
      BY <1>1, <3>1 DEF Excused
  <2>3. CASE a \notin 1 .. deliveries[x]
    <3>1. x = e /\ a = deliveries'[e]
      BY <1>3, <2>3
    <3>2. handling'.event = e /\ handling'.todo = Inserts(e)
      BY <1>1, <3>1
    <3> QED
      BY <3>1, <3>2 DEF Excused
  <2> QED
    BY <2>2, <2>3
<1> QED
  BY <1>6, <1>7, <1>8, <1>9

(* The insert at the head is done or refused, the others are still to do.  *)
LEMMA StillToDo ==
  ASSUME NEW todo \in Seq(StoreTable), todo # <<>>, NEW table, \E i \in DOMAIN todo : todo[i] = table
  PROVE  table = Head(todo) \/ \E i \in DOMAIN Tail(todo) : Tail(todo)[i] = table
<1>1. PICK i \in DOMAIN todo : todo[i] = table
  OBVIOUS
<1>2. DOMAIN todo = 1 .. Len(todo) /\ Len(todo) \in Nat
  OBVIOUS
<1>3. CASE i = 1
  BY <1>1, <1>3
<1>4. CASE i # 1
  <2>1. i - 1 \in 1 .. (Len(todo) - 1) /\ i = (i - 1) + 1
    BY <1>1, <1>2, <1>4
  <2>2. DOMAIN Tail(todo) = 1 .. (Len(todo) - 1)
    BY <1>2
  <2>3. \A j \in 1 .. (Len(todo) - 1) : Tail(todo)[j] = todo[j + 1]
    BY HeadTailProperties
  <2> QED
    BY <1>1, <2>1, <2>2, <2>3
<1> QED
  BY <1>3, <1>4

LEMMA InHand ==
  ASSUME StoreInv, handling.todo # <<>>
  PROVE  /\ handling \in [event : StoreEvent, todo : Seq(StoreTable)]
         /\ Head(handling.todo) \in StoreTable /\ Tail(handling.todo) \in Seq(StoreTable)
         /\ [handling EXCEPT !.todo = Tail(@)] \in [event : StoreEvent, todo : Seq(StoreTable)]
         /\ [handling EXCEPT !.todo = Tail(@)].event = handling.event
         /\ [handling EXCEPT !.todo = Tail(@)].todo = Tail(handling.todo)
<1>1. handling \in [event : StoreEvent, todo : Seq(StoreTable)]
  BY DEF StoreInv, StoreShaped, Nothing
<1>2. Head(handling.todo) \in StoreTable /\ Tail(handling.todo) \in Seq(StoreTable)
  BY <1>1, HeadTailProperties
<1> QED
  BY <1>1, <1>2

LEMMA InsertStep == ASSUME StoreAssumption, StoreInv, InsertRow PROVE StoreInv'
<1> DEFINE table == Head(handling.todo)
           e == handling.event
           New == {[table |-> table, event |-> e, item |-> i, at |-> deliveries[e]] : i \in ItemsOf(table)}
<1>1. /\ handling.todo # <<>> /\ table \in tablesReady
      /\ storedRows' = storedRows \cup New
      /\ handling' = [handling EXCEPT !.todo = Tail(@)]
      /\ UNCHANGED <<arrived, tablesReady, storePhase, consumed, committedSet, deliveries, refusedAt, abandonedAt, storeSpent>>
  BY DEF InsertRow
<1>2. /\ handling \in [event : StoreEvent, todo : Seq(StoreTable)] /\ table \in StoreTable
      /\ handling' \in [event : StoreEvent, todo : Seq(StoreTable)]
      /\ handling'.event = e /\ handling'.todo = Tail(handling.todo)
  BY <1>1, InHand
<1>3. e \in StoreEvent /\ deliveries[e] \in 0 .. (MaxCrashes + 1)
  BY <1>2 DEF StoreInv, StoreTypeOK
<1>4. \A r \in New : r \in StoredRow /\ r.event = e /\ r.table = table
  BY <1>2, <1>3 DEF StoredRow, ItemsOf
<1>5. ASSUME NEW item \in ItemsOf(table)
      PROVE  \E r \in New : r.table = table /\ r.event = e /\ r.item = item
  <2> DEFINE r == [table |-> table, event |-> e, item |-> item, at |-> deliveries[e]]
  <2>1. r \in New /\ r.table = table /\ r.event = e /\ r.item = item
    OBVIOUS
  <2> QED
    BY <2>1
<1> HIDE DEF New
<1>6. StoreTypeOK'
  BY <1>1, <1>2, <1>3, <1>4 DEF StoreInv, StoreTypeOK
<1>7. StoreShaped' /\ DeliveriesCounted'
  BY <1>1, <1>2, <1>4 DEF StoreInv, StoreShaped, DeliveriesCounted
<1>8. ASSUME NEW x, x = e, NEW t, t = table PROVE InTable(x, t)'
  <2>1. \A item \in ItemsOf(t) : \E r \in storedRows' : r.table = t /\ r.event = x /\ r.item = item
    BY <1>1, <1>5, <1>8
  <2> QED
    BY <2>1 DEF InTable
<1>9. RowsUnlessRefused'
  <2> SUFFICES ASSUME NEW x \in StoreEvent, NEW t \in StoreTable
               PROVE  /\ InTable(x, t) => InTable(x, t)'
                      /\ x # "fill" /\ (\A a \in 1 .. deliveries[x] : Excused(x, a, t)) =>
                           InTable(x, t)' \/ \A a \in 1 .. deliveries'[x] : Excused(x, a, t)'
    BY RowsKept
  <2>1. InTable(x, t) => InTable(x, t)'
    BY <1>1, TableKept
  <2>2. ASSUME NEW a \in 1 .. deliveries[x], Excused(x, a, t), ~InTable(x, t)'
        PROVE  Excused(x, a, t)'
    <3>1. CASE <<x, a, t>> \in refusedAt \/ <<x, a>> \in abandonedAt
      BY <1>1, <3>1 DEF Excused
    <3>2. CASE handling.event = x /\ deliveries[x] = a /\ \E i \in DOMAIN handling.todo : handling.todo[i] = t
      <4>1. t = Head(handling.todo) \/ \E i \in DOMAIN Tail(handling.todo) : Tail(handling.todo)[i] = t
        BY <1>1, <1>2, <3>2, StillToDo
      <4>2. ~(x = e /\ t = table)
        BY <1>8, <2>2
      <4> QED
        BY <1>1, <1>2, <3>2, <4>1, <4>2 DEF Excused
    <3> QED
      BY <2>2, <3>1, <3>2 DEF Excused
  <2> QED
    BY <1>1, <2>1, <2>2
<1> QED
  BY <1>6, <1>7, <1>9 DEF StoreInv

LEMMA RefusedStep == ASSUME StoreAssumption, StoreInv, InsertRefused PROVE StoreInv'
<1> DEFINE table == Head(handling.todo)
           e == handling.event
<1>1. /\ handling.todo # <<>>
      /\ refusedAt' = refusedAt \cup {<<e, deliveries[e], table>>}
      /\ handling' = [handling EXCEPT !.todo = Tail(@)]
      /\ UNCHANGED <<arrived, tablesReady, storePhase, consumed, committedSet, deliveries, storedRows, abandonedAt>>
  BY DEF InsertRefused, NextInserts
<1>2. /\ handling \in [event : StoreEvent, todo : Seq(StoreTable)] /\ table \in StoreTable
      /\ handling' \in [event : StoreEvent, todo : Seq(StoreTable)]
      /\ handling'.event = e /\ handling'.todo = Tail(handling.todo)
  BY <1>1, InHand
<1>3. storeSpent' \in [faults : Nat, crashes : 0 .. MaxCrashes] /\ storeSpent'.crashes = storeSpent.crashes
  BY DEF InsertRefused, Refuses, StoreFault, StoreInv, StoreShaped
<1>4. StoreTypeOK'
  BY <1>1, <1>2 DEF StoreInv, StoreTypeOK
<1>5. StoreShaped' /\ DeliveriesCounted'
  BY <1>1, <1>2, <1>3 DEF StoreInv, StoreShaped, DeliveriesCounted
<1>6. RowsUnlessRefused'
  <2> SUFFICES ASSUME NEW x \in StoreEvent, NEW t \in StoreTable
               PROVE  /\ InTable(x, t) => InTable(x, t)'
                      /\ x # "fill" /\ (\A a \in 1 .. deliveries[x] : Excused(x, a, t)) =>
                           InTable(x, t)' \/ \A a \in 1 .. deliveries'[x] : Excused(x, a, t)'
    BY RowsKept
  <2>1. InTable(x, t) => InTable(x, t)'
    BY <1>1, TableKept
  <2>2. ASSUME NEW a \in 1 .. deliveries[x], Excused(x, a, t) PROVE Excused(x, a, t)'
    <3>1. CASE <<x, a, t>> \in refusedAt \/ <<x, a>> \in abandonedAt
      BY <1>1, <3>1 DEF Excused
    <3>2. CASE handling.event = x /\ deliveries[x] = a /\ \E i \in DOMAIN handling.todo : handling.todo[i] = t
      <4>1. t = Head(handling.todo) \/ \E i \in DOMAIN Tail(handling.todo) : Tail(handling.todo)[i] = t
        BY <1>1, <1>2, <3>2, StillToDo
      <4>2. CASE t = table
        BY <1>1, <3>2, <4>2 DEF Excused
      <4> QED
        BY <1>1, <1>2, <3>2, <4>1, <4>2 DEF Excused
    <3> QED
      BY <2>2, <3>1, <3>2 DEF Excused
  <2> QED
    BY <1>1, <2>1, <2>2
<1> QED
  BY <1>4, <1>5, <1>6 DEF StoreInv

LEMMA HandledStep == ASSUME StoreAssumption, StoreInv, Handled PROVE StoreInv'
<1>1. /\ handling.todo = <<>> /\ handling' = Nothing
      /\ UNCHANGED <<arrived, tablesReady, storePhase, consumed, committedSet, deliveries, storedRows,
                     refusedAt, abandonedAt, storeSpent>>
  BY DEF Handled
<1>2. StoreTypeOK' /\ StoreShaped' /\ DeliveriesCounted'
  BY <1>1 DEF StoreInv, StoreTypeOK, StoreShaped, DeliveriesCounted, Nothing
<1>3. RowsUnlessRefused'
  BY <1>1 DEF StoreInv, RowsUnlessRefused, Excused
<1> QED
  BY <1>2, <1>3 DEF StoreInv

LEMMA CommitStep == ASSUME StoreAssumption, StoreInv, AutoCommit PROVE StoreInv'
<1>1. /\ committedSet' = consumed
      /\ UNCHANGED <<arrived, tablesReady, storePhase, handling, consumed, deliveries, storedRows,
                     refusedAt, abandonedAt, storeSpent>>
  BY DEF AutoCommit, StoredOffsets
<1>2. StoreTypeOK' /\ StoreShaped' /\ DeliveriesCounted'
  BY <1>1 DEF StoreInv, StoreTypeOK, StoreShaped, DeliveriesCounted
<1>3. RowsUnlessRefused'
  BY <1>1 DEF StoreInv, RowsUnlessRefused, Excused
<1> QED
  BY <1>2, <1>3 DEF StoreInv

LEMMA StoreCrashStep == ASSUME StoreAssumption, StoreInv, CrashStore PROVE StoreInv'
<1>1. /\ storeSpent.crashes < MaxCrashes
      /\ storeSpent' = [storeSpent EXCEPT !.crashes = @ + 1]
      /\ storePhase' = "schema" /\ handling' = Nothing /\ consumed' = committedSet
      /\ abandonedAt \subseteq abandonedAt'
      /\ handling # Nothing => <<handling.event, deliveries[handling.event]>> \in abandonedAt'
      /\ UNCHANGED <<arrived, tablesReady, committedSet, deliveries, storedRows, refusedAt>>
  BY DEF CrashStore
<1>2. /\ storeSpent' \in [faults : Nat, crashes : 0 .. MaxCrashes]
      /\ storeSpent'.crashes = storeSpent.crashes + 1
      /\ storeSpent.crashes \in Nat
  BY <1>1 DEF StoreInv, StoreShaped, StoreAssumption
<1>3. StoreTypeOK' /\ StoreShaped'
  BY <1>1, <1>2 DEF StoreInv, StoreTypeOK, StoreShaped, Nothing
<1>4. DeliveriesCounted'
  <2>1. \A e \in StoreEvent : deliveries[e] \in Nat /\ deliveries[e] <= storeSpent.crashes + 1
    BY <1>2 DEF StoreInv, StoreTypeOK, DeliveriesCounted, StoreAssumption
  <2> QED
    BY <1>1, <1>2, <2>1 DEF DeliveriesCounted
<1>5. RowsUnlessRefused'
  <2> SUFFICES ASSUME NEW x \in StoreEvent, NEW t \in StoreTable
               PROVE  /\ InTable(x, t) => InTable(x, t)'
                      /\ x # "fill" /\ (\A a \in 1 .. deliveries[x] : Excused(x, a, t)) =>
                           InTable(x, t)' \/ \A a \in 1 .. deliveries'[x] : Excused(x, a, t)'
    BY RowsKept
  <2>1. InTable(x, t) => InTable(x, t)'
    BY <1>1, TableKept
  <2>2. ASSUME NEW a \in 1 .. deliveries[x], Excused(x, a, t) PROVE Excused(x, a, t)'
    <3>1. handling.event = x /\ deliveries[x] = a /\ (\E i \in DOMAIN handling.todo : handling.todo[i] = t)
          => <<x, a>> \in abandonedAt'
      BY <1>1 DEF Nothing
    <3> QED
      BY <1>1, <2>2, <3>1 DEF Excused
  <2> QED
    BY <1>1, <2>1, <2>2
<1> QED
  BY <1>3, <1>4, <1>5 DEF StoreInv

(* Of the rows with one key the newest survives a merge.                   *)
LEMMA NewestStays ==
  ASSUME StoreAssumption, StoreInv, NEW r \in storedRows
  PROVE  \E s \in storedRows : /\ ~Superseded(s) /\ s.table = r.table
                              /\ s.event = r.event /\ s.item = r.item
<1> DEFINE Same(s) == s.table = r.table /\ s.event = r.event /\ s.item = r.item
           T == {s.at : s \in {x \in storedRows : Same(x)}}
<1>1. T \in SUBSET Nat /\ T # {} /\ T \subseteq 0 .. (MaxCrashes + 1)
  BY DEF StoreInv, StoreShaped, StoredRow, StoreAssumption
<1>2. IsFiniteSet(T)
  <2>1. IsFiniteSet(0 .. (MaxCrashes + 1))
    BY FS_Interval DEF StoreAssumption
  <2> HIDE DEF T
  <2> QED
    BY <1>1, <2>1, FS_Subset
<1>3. PICK n \in T : \A m \in T : m <= n
  <2> HIDE DEF T
  <2> QED
    BY <1>1, <1>2, GreatestNumber
<1>4. PICK s \in storedRows : Same(s) /\ s.at = n
  BY <1>3
<1>5. ~Superseded(s)
  <2> SUFFICES ASSUME NEW o \in storedRows, o.table = s.table, SortKey(o) = SortKey(s), o.at > s.at
               PROVE  FALSE
    BY DEF Superseded
  <2>1. o.event = s.event /\ o.item = s.item
    BY DEF SortKey
  <2>2. o.at \in T
    BY <1>4, <2>1
  <2>3. o.at <= n /\ n \in Nat /\ o.at \in Nat
    BY <1>1, <1>3, <2>2
  <2> QED
    BY <1>4, <2>3
<1> QED
  BY <1>4, <1>5

LEMMA MergeStep == ASSUME StoreAssumption, StoreInv, MergeTables PROVE StoreInv'
<1>1. /\ storedRows' = {row \in storedRows : ~Superseded(row)}
      /\ UNCHANGED <<arrived, tablesReady, storePhase, handling, consumed, committedSet, deliveries,
                     refusedAt, abandonedAt, storeSpent>>
  BY DEF MergeTables
<1>2. storedRows' \subseteq storedRows
  BY <1>1
<1>3. StoreTypeOK' /\ StoreShaped' /\ DeliveriesCounted'
  BY <1>1, <1>2 DEF StoreInv, StoreTypeOK, StoreShaped, DeliveriesCounted
<1>4. RowsUnlessRefused'
  <2> SUFFICES ASSUME NEW x \in StoreEvent, NEW t \in StoreTable
               PROVE  /\ InTable(x, t) => InTable(x, t)'
                      /\ x # "fill" /\ (\A a \in 1 .. deliveries[x] : Excused(x, a, t)) =>
                           InTable(x, t)' \/ \A a \in 1 .. deliveries'[x] : Excused(x, a, t)'
    BY RowsKept
  <2>1. ASSUME InTable(x, t), NEW item \in ItemsOf(t)
        PROVE  \E r \in storedRows' : r.table = t /\ r.event = x /\ r.item = item
    <3>1. PICK r \in storedRows : r.table = t /\ r.event = x /\ r.item = item
      BY <2>1 DEF InTable
    <3> QED
      BY <1>1, <3>1, NewestStays
  <2>2. InTable(x, t) => InTable(x, t)'
    BY <2>1 DEF InTable
  <2>3. \A a \in 1 .. deliveries[x] : Excused(x, a, t) => Excused(x, a, t)'
    BY <1>1 DEF Excused
  <2> QED
    BY <1>1, <2>2, <2>3
<1> QED
  BY <1>3, <1>4 DEF StoreInv

LEMMA StoreStep == ASSUME StoreAssumption, StoreInv, [StoreNext]_storeVars PROVE StoreInv'
<1>1. CASE UNCHANGED storeVars
  <2>1. StoreTypeOK' /\ StoreShaped' /\ DeliveriesCounted'
    BY <1>1 DEF storeVars, StoreInv, StoreTypeOK, StoreShaped, DeliveriesCounted
  <2>2. RowsUnlessRefused'
    BY <1>1 DEF storeVars, StoreInv, RowsUnlessRefused, Excused
  <2> QED
    BY <2>1, <2>2 DEF StoreInv
<1>2. CASE ConsumerStep
  BY <1>2, SchemaStep, ConsumeStep, InsertStep, RefusedStep, HandledStep DEF ConsumerStep
<1> QED
  BY <1>1, <1>2, CommitStep, StoreCrashStep, MergeStep DEF StoreNext

LEMMA MergesToOne == ASSUME StoreAssumption, StoreInv PROVE GroupsMergeToOne
<1> SUFFICES ASSUME NEW r \in storedRows, NEW s \in storedRows, r.table = s.table, r.table \in Replacing,
                    r.event = s.event, r.item = s.item
             PROVE  r = s \/ Superseded(r) \/ Superseded(s)
  BY DEF GroupsMergeToOne
<1>1. r \in StoredRow /\ s \in StoredRow /\ r.at \in Nat /\ s.at \in Nat
  BY DEF StoreInv, StoreShaped, StoredRow, StoreAssumption
<1>2. SortKey(r) = SortKey(s)
  BY DEF SortKey
<1>3. CASE r.at = s.at
  BY <1>1, <1>3 DEF StoredRow
<1>4. CASE r.at > s.at
  BY <1>2, <1>4 DEF Superseded
<1>5. CASE s.at > r.at
  BY <1>2, <1>5 DEF Superseded
<1> QED
  BY <1>1, <1>3, <1>4, <1>5

(* Whatever ClickHouse refuses, whichever tables are missing and wherever  *)
(* the process dies, for any messages and any number of faults and         *)
(* crashes: a message is in every table of its kind unless each time that  *)
(* very insert was refused or cut off, and the rows of one group, leg or   *)
(* quality record merge to one (handle_message, SaveExecutionGroup).       *)
THEOREM StoreIsSafe == ASSUME StoreAssumption PROVE StoreSpec => []StoreSafety
<1>1. StoreInv => StoreSafety
  BY MergesToOne DEF StoreInv, StoreSafety
<1> QED
  BY <1>1, StoreInitInv, StoreStep, PTL DEF StoreSpec
-----------------------------------------------------------------------------
(* The market data service.  JobInv says what the consumer thread has in   *)
(* hand at each step, CacheInv what that and the calls of the sweeper mean *)
(* for the cache and the streams.                                          *)
JobSteps == {"idle", "publish", "drop", "repush", "bbo", "venue", "config", "paused", "store",
             "written", "volume", "send", "call", "batch", "save"}
SnapSteps == {"config", "paused", "store", "written", "volume", "send", "call"}

Jobs == [at : JobSteps, next : {"idle", "venue", "batch", "save"}, asset : Assets \cup {"none"},
         on : Assets \cup {"none"}, snap : Snapshots, batch : 0..MaxMessages, fill : Nat,
         left : SUBSET Assets, to : SUBSET Streams]

MdShaped ==
  /\ mdLast \in [Assets -> Snapshots] /\ mdOld \in SUBSET (1..MaxMessages) /\ mdDue \in SUBSET Assets
  /\ mdMu \in {"free", "consumer", "sweeper"}
  /\ mdJob \in Jobs
  /\ mdSweep \in [asset : Assets \cup {"none"}, snap : Snapshots, to : SUBSET Streams]
  /\ streams \in [Streams -> {"off", "read", "on", "done"}] /\ view \in [Streams -> Snapshots]
  /\ mdCount \in 0..MaxMessages

BooksShaped ==
  /\ fob \in SUBSET MdOrders
  /\ latest \in [MdVenues -> [Assets -> [ok : BOOLEAN, bid : Nat, ask : Nat]]]
  /\ book \in [sym : Assets \cup {"none"}, bid : Nat, ask : Nat]
  /\ rows.batches \subseteq 1..MaxMessages

JobInv ==
  /\ mdJob.at = "idle" => mdJob.next = "idle"
  /\ mdJob.at \in {"batch", "save"} \/ mdJob.next \in {"batch", "save"}
       => mdJob.batch = mdCount /\ mdCount > 0
  /\ mdJob.at = "venue" \/ mdJob.next = "venue"
       => mdJob.snap.src = "venue" /\ mdJob.snap.n = mdCount /\ mdJob.on \in Assets
  /\ mdJob.at \in SnapSteps
       => mdJob.snap.src \in {"venue", "internal"} /\ mdJob.snap.n = mdCount /\ mdJob.on \in Assets

(* No snapshot is newer than the message in hand; what is being sent is in *)
(* the cache; while venue data is on its way there, no internal snapshot   *)
(* is fresh there; the sweeper sends what the cache still holds.           *)
CacheInv ==
  /\ \A a \in Assets : mdLast[a].n <= mdCount
  /\ mdJob.at \in {"written", "volume", "send", "call"} => mdLast[mdJob.on].n = mdJob.snap.n
  /\ mdJob.at = "call" /\ mdJob.to # {} => mdJob.on = Watched
  /\ mdJob.at \in SnapSteps \ {"send", "call"} /\ mdJob.snap.src = "venue" => ~HasFreshInternal(mdJob.on)
  /\ mdSweep.to # {} => mdMu = "sweeper" /\ mdSweep.snap.n = mdLast[Watched].n
  /\ \A s \in Streams : view[s].n <= mdLast[Watched].n

(* Between two calls of Publish the newest book is the last of the queue,  *)
(* or the last that was read.                                              *)
NewestIsLast ==
  IF channel.queue = <<>> THEN channel.got = channel.sent
  ELSE channel.queue[Len(channel.queue)] = channel.sent

ChannelInv ==
  /\ channel \in [queue : Seq(Nat), sent : Nat, got : Nat]
  /\ Len(channel.queue) <= Capacity
  /\ mdJob.at = "repush" => Len(channel.queue) < Capacity
  /\ mdJob.at \notin {"drop", "repush"} => NewestIsLast

NoCurve == [side \in {"bid", "ask"} |-> <<>>]
SegmentsInv ==
  /\ segments.curve \in Curves \cup {NoCurve}
  /\ segments.out = Vectorize(LevelsFromCurve(segments.curve))

MdInv == MdShaped /\ BooksShaped /\ JobInv /\ CacheInv /\ ChannelInv /\ SegmentsInv
-----------------------------------------------------------------------------
LEMMA WatchedIsAsset == ASSUME MdAssumption PROVE Watched \in Assets
  BY DEF MdAssumption, Watched

LEMMA JobIdleShaped == ASSUME MdAssumption PROVE JobIdle \in Jobs
<1>1. NoSnapshot \in Snapshots
  BY DEF NoSnapshot, Snapshots, MdAssumption
<1> QED
  BY <1>1 DEF JobIdle, Jobs, JobSteps, MdAssumption

LEMMA MdInitInv == ASSUME MdAssumption, MdInit PROVE MdInv
<1> USE DEF MdInit
<1>1. MdShaped
  <2>1. NoSnapshot \in Snapshots
    BY DEF NoSnapshot, Snapshots, MdAssumption
  <2> QED
    BY <2>1, JobIdleShaped DEF MdShaped, MdAssumption
<1>2. BooksShaped
  BY DEF BooksShaped, NoBook
<1>3. JobInv
  BY DEF JobInv, JobIdle, SnapSteps
<1>4. CacheInv
  BY WatchedIsAsset DEF CacheInv, JobIdle, NoSnapshot, SnapSteps
<1>5. ChannelInv
  BY DEF ChannelInv, NewestIsLast, JobIdle, MdAssumption
<1>6. SegmentsInv
  BY DEF SegmentsInv, NoCurve, LevelsFromCurve, Vectorize
<1> QED
  BY <1>1, <1>2, <1>3, <1>4, <1>5, <1>6 DEF MdInv

(* A step that leaves the cache, the threads and the streams alone.        *)
LEMMA MdQuietStep ==
  ASSUME MdShaped, JobInv, CacheInv, UNCHANGED <<cacheVars, mdJob, mdSweep, streamVars, mdCount>>
  PROVE  MdShaped' /\ JobInv' /\ CacheInv'
<1> USE DEF cacheVars, streamVars
<1>1. MdShaped'
  BY DEF MdShaped
<1>2. JobInv'
  BY DEF JobInv
<1>3. CacheInv'
  BY DEF CacheInv, HasFreshInternal
<1> QED
  BY <1>1, <1>2, <1>3

(* The job ends, nothing else of the cache moves.                          *)
LEMMA IdleJobInv ==
  ASSUME CacheInv, mdJob' = JobIdle,
         UNCHANGED <<mdLast, mdMu, mdSweep, view, mdCount>>
  PROVE  JobInv' /\ CacheInv'
<1>1. JobInv'
  BY DEF JobInv, JobIdle, SnapSteps
<1>2. CacheInv'
  BY DEF CacheInv, JobIdle, SnapSteps
<1> QED
  BY <1>1, <1>2


LEMMA PublishStep ==
  ASSUME MdAssumption, MdShaped, JobInv, CacheInv, Publish
  PROVE  MdShaped' /\ JobInv' /\ CacheInv'
<1> USE DEF Publish, cacheVars, streamVars, orderVars, bookVars, Goes
<1>1. MdShaped'
  <2>3. mdJob' \in Jobs
    BY DEF MdShaped, Jobs, JobSteps
  <2> QED
    BY <2>3 DEF MdShaped, Jobs
<1>2. JobInv'
  BY DEF JobInv, SnapSteps, MdShaped, Jobs
<1>3. CacheInv'
  BY WatchedIsAsset DEF CacheInv, JobInv, SnapSteps, HasFreshInternal, MdShaped, Jobs, Snapshots
<1> QED
  BY <1>1, <1>2, <1>3

LEMMA PublishDropsStep ==
  ASSUME MdAssumption, MdShaped, JobInv, CacheInv, PublishDrops
  PROVE  MdShaped' /\ JobInv' /\ CacheInv'
<1> USE DEF PublishDrops, cacheVars, streamVars, orderVars, bookVars, Goes
<1>1. MdShaped'
  <2>3. mdJob' \in Jobs
    BY DEF MdShaped, Jobs, JobSteps
  <2> QED
    BY <2>3 DEF MdShaped, Jobs
<1>2. JobInv'
  BY DEF JobInv, SnapSteps, MdShaped, Jobs
<1>3. CacheInv'
  BY WatchedIsAsset DEF CacheInv, JobInv, SnapSteps, HasFreshInternal, MdShaped, Jobs, Snapshots
<1> QED
  BY <1>1, <1>2, <1>3

LEMMA PublishAgainStep ==
  ASSUME MdAssumption, MdShaped, JobInv, CacheInv, PublishAgain
  PROVE  MdShaped' /\ JobInv' /\ CacheInv'
<1> USE DEF PublishAgain, cacheVars, streamVars, orderVars, bookVars, Goes
<1>1. MdShaped'
  <2>3. mdJob' \in Jobs
    BY DEF MdShaped, Jobs, JobSteps
  <2> QED
    BY <2>3 DEF MdShaped, Jobs
<1>2. JobInv'
  BY DEF JobInv, SnapSteps, MdShaped, Jobs
<1>3. CacheInv'
  BY WatchedIsAsset DEF CacheInv, JobInv, SnapSteps, HasFreshInternal, MdShaped, Jobs, Snapshots
<1> QED
  BY <1>1, <1>2, <1>3

LEMMA PublishBBOStep ==
  ASSUME MdAssumption, MdShaped, JobInv, CacheInv, PublishBBO
  PROVE  MdShaped' /\ JobInv' /\ CacheInv'
<1> USE DEF PublishBBO, cacheVars, streamVars, orderVars, bookVars, Goes
<1>1. MdShaped'
  <2>3. mdJob' \in Jobs
    BY DEF MdShaped, Jobs, JobSteps
  <2> QED
    BY <2>3 DEF MdShaped, Jobs
<1>2. JobInv'
  BY DEF JobInv, SnapSteps, MdShaped, Jobs
<1>3. CacheInv'
  BY WatchedIsAsset DEF CacheInv, JobInv, SnapSteps, HasFreshInternal, MdShaped, Jobs, Snapshots
<1> QED
  BY <1>1, <1>2, <1>3

LEMMA FromVenueSnapshotStep ==
  ASSUME MdAssumption, MdShaped, JobInv, CacheInv, FromVenueSnapshot
  PROVE  MdShaped' /\ JobInv' /\ CacheInv'
<1> USE DEF FromVenueSnapshot, cacheVars, streamVars, orderVars, bookVars
<1>1. MdShaped'
  <2>3. mdJob' \in Jobs
    BY JobIdleShaped DEF MdShaped, Jobs, JobSteps
  <2> QED
    BY <2>3 DEF MdShaped, Jobs
<1>2. CASE mdJob' = JobIdle
  BY <1>1, <1>2, IdleJobInv DEF MdShaped
<1>3. CASE ~HasFreshInternal(mdJob.on) /\ mdJob' = [mdJob EXCEPT !.at = "config", !.next = "idle"]
  <2>1. /\ mdJob'.at = "config" /\ mdJob'.next = "idle"
        /\ mdJob'.snap = mdJob.snap /\ mdJob'.on = mdJob.on /\ mdJob'.to = mdJob.to
    BY <1>3 DEF MdShaped, Jobs
  <2>2. JobInv'
    BY <2>1 DEF JobInv, SnapSteps
  <2>3. CacheInv'
    BY <1>3, <2>1 DEF CacheInv, SnapSteps, HasFreshInternal
  <2> QED
    BY <1>1, <2>2, <2>3
<1> QED
  BY <1>2, <1>3

LEMMA NextAssetStep ==
  ASSUME MdAssumption, MdShaped, JobInv, CacheInv, NextAsset
  PROVE  MdShaped' /\ JobInv' /\ CacheInv'
<1> USE DEF NextAsset, cacheVars, streamVars, orderVars, bookVars
<1>1. MdShaped'
  <2>1. [n |-> mdJob.batch, src |-> "internal", stale |-> FALSE] \in Snapshots
    BY DEF MdShaped, Jobs, Snapshots
  <2>2. PICK a \in mdJob.left :
          mdJob' = [mdJob EXCEPT !.at = "config", !.next = "batch", !.left = @ \ {a}, !.on = a,
                      !.snap = [n |-> mdJob.batch, src |-> "internal", stale |-> FALSE]]
    OBVIOUS
  <2>3. mdJob' \in Jobs
    BY <2>1, <2>2 DEF MdShaped, Jobs, JobSteps
  <2> QED
    BY <2>1, <2>3 DEF MdShaped, Jobs
<1>2. JobInv'
  BY DEF JobInv, SnapSteps, MdShaped, Jobs
<1>3. CacheInv'
  BY WatchedIsAsset DEF CacheInv, JobInv, SnapSteps, HasFreshInternal, MdShaped, Jobs, Snapshots
<1> QED
  BY <1>1, <1>2, <1>3

LEMMA BatchUpdatesBookStep ==
  ASSUME MdAssumption, MdShaped, JobInv, CacheInv, BatchUpdatesBook
  PROVE  MdShaped' /\ JobInv' /\ CacheInv'
<1> USE DEF BatchUpdatesBook, cacheVars, streamVars, orderVars, bookVars, Goes
<1>1. CASE mdJob' = JobIdle
  <2>1. MdShaped'
    BY <1>1, JobIdleShaped DEF MdShaped
  <2> QED
    BY <1>1, <2>1, IdleJobInv DEF MdShaped
<1>2. CASE mdJob' = [mdJob EXCEPT !.at = "save"] \/ mdJob' = [mdJob EXCEPT !.at = "publish", !.next = "save"]
  <2>1. /\ mdJob' \in Jobs
        /\ mdJob'.at \in {"save", "publish"} /\ mdJob'.next \in {mdJob.next, "save"}
        /\ mdJob'.snap = mdJob.snap /\ mdJob'.on = mdJob.on /\ mdJob'.batch = mdJob.batch
    BY <1>2 DEF MdShaped, Jobs, JobSteps
  <2>2. MdShaped'
    BY <2>1 DEF MdShaped
  <2>3. JobInv'
    BY <2>1 DEF JobInv, SnapSteps
  <2>4. CacheInv'
    BY <2>1 DEF CacheInv, SnapSteps, HasFreshInternal
  <2> QED
    BY <2>2, <2>3, <2>4
<1> QED
  BY <1>1, <1>2


LEMMA SaveBatchStep ==
  ASSUME MdAssumption, MdShaped, JobInv, CacheInv, SaveBatch
  PROVE  MdShaped' /\ JobInv' /\ CacheInv'
<1> USE DEF SaveBatch, cacheVars, streamVars, orderVars, bookVars
<1>1. MdShaped'
  <2>3. mdJob' \in Jobs
    BY JobIdleShaped DEF MdShaped, Jobs, JobSteps
  <2> QED
    BY <2>3 DEF MdShaped, Jobs
<1>2. JobInv'
  BY DEF JobInv, SnapSteps, MdShaped, Jobs, JobIdle
<1>3. CacheInv'
  BY WatchedIsAsset DEF CacheInv, JobInv, SnapSteps, HasFreshInternal, MdShaped, Jobs, Snapshots, JobIdle
<1> QED
  BY <1>1, <1>2, <1>3

LEMMA ReadConfigStep ==
  ASSUME MdAssumption, MdShaped, JobInv, CacheInv, ReadConfig
  PROVE  MdShaped' /\ JobInv' /\ CacheInv'
<1> USE DEF ReadConfig, cacheVars, streamVars, orderVars, bookVars, Goes
<1>1. MdShaped'
  <2>3. mdJob' \in Jobs
    BY DEF MdShaped, Jobs, JobSteps
  <2> QED
    BY <2>3 DEF MdShaped, Jobs
<1>2. JobInv'
  BY DEF JobInv, SnapSteps, MdShaped, Jobs
<1>3. CacheInv'
  BY WatchedIsAsset DEF CacheInv, JobInv, SnapSteps, HasFreshInternal, MdShaped, Jobs, Snapshots
<1> QED
  BY <1>1, <1>2, <1>3

LEMMA StoreSnapshotStep ==
  ASSUME MdAssumption, MdShaped, JobInv, CacheInv, StoreSnapshot
  PROVE  MdShaped' /\ JobInv' /\ CacheInv'
<1> USE DEF StoreSnapshot, cacheVars, streamVars, orderVars, bookVars, Goes
<1>1. MdShaped'
  <2>3. mdJob' \in Jobs
    BY DEF MdShaped, Jobs, JobSteps
  <2> QED
    BY <2>3 DEF MdShaped, Jobs
<1>2. JobInv'
  BY DEF JobInv, SnapSteps, MdShaped, Jobs
<1>3. CacheInv'
  BY WatchedIsAsset DEF CacheInv, JobInv, SnapSteps, HasFreshInternal, MdShaped, Jobs, Snapshots
<1> QED
  BY <1>1, <1>2, <1>3

LEMMA StoreAgainStep ==
  ASSUME MdAssumption, MdShaped, JobInv, CacheInv, StoreAgain
  PROVE  MdShaped' /\ JobInv' /\ CacheInv'
<1> USE DEF StoreAgain, cacheVars, streamVars, orderVars, bookVars, Goes
<1>1. MdShaped'
  <2>3. mdJob' \in Jobs
    BY DEF MdShaped, Jobs, JobSteps
  <2> QED
    BY <2>3 DEF MdShaped, Jobs
<1>2. JobInv'
  BY DEF JobInv, SnapSteps, MdShaped, Jobs
<1>3. CacheInv'
  BY WatchedIsAsset DEF CacheInv, JobInv, SnapSteps, HasFreshInternal, MdShaped, Jobs, Snapshots
<1> QED
  BY <1>1, <1>2, <1>3

LEMMA PauseSnapshotStep ==
  ASSUME MdAssumption, MdShaped, JobInv, CacheInv, PauseSnapshot
  PROVE  MdShaped' /\ JobInv' /\ CacheInv'
<1> USE DEF PauseSnapshot, cacheVars, streamVars, orderVars, bookVars, Subscribed
<1>1. MdShaped'
  <2>1. [mdJob.snap EXCEPT !.stale = TRUE] \in Snapshots
    BY DEF MdShaped, Jobs, Snapshots
  <2>3. mdJob' \in Jobs
    BY <2>1 DEF MdShaped, Jobs, JobSteps
  <2> QED
    BY <2>1, <2>3 DEF MdShaped, Jobs
<1>2. JobInv'
  <2>1. /\ mdJob'.at = "call" /\ mdJob'.next = mdJob.next /\ mdJob'.batch = mdJob.batch
        /\ mdJob'.on = mdJob.on /\ mdJob'.snap = [mdJob.snap EXCEPT !.stale = TRUE]
    BY DEF MdShaped, Jobs
  <2>2. mdJob'.snap.n = mdJob.snap.n /\ mdJob'.snap.src = mdJob.snap.src
    BY <2>1 DEF MdShaped, Jobs, Snapshots
  <2> QED
    BY <2>1, <2>2 DEF JobInv, SnapSteps
<1>3. CacheInv'
  BY WatchedIsAsset DEF CacheInv, JobInv, SnapSteps, HasFreshInternal, MdShaped, Jobs, Snapshots
<1> QED
  BY <1>1, <1>2, <1>3

LEMMA BroadcastStep ==
  ASSUME MdAssumption, MdShaped, JobInv, CacheInv, Broadcast
  PROVE  MdShaped' /\ JobInv' /\ CacheInv'
<1> USE DEF Broadcast, cacheVars, streamVars, orderVars, bookVars, Subscribed
<1>1. MdShaped'
  <2>3. mdJob' \in Jobs
    BY DEF MdShaped, Jobs, JobSteps
  <2> QED
    BY <2>3 DEF MdShaped, Jobs
<1>2. JobInv'
  BY DEF JobInv, SnapSteps, MdShaped, Jobs
<1>3. CacheInv'
  BY WatchedIsAsset DEF CacheInv, JobInv, SnapSteps, HasFreshInternal, MdShaped, Jobs, Snapshots
<1> QED
  BY <1>1, <1>2, <1>3

LEMMA BroadcastCallsStep ==
  ASSUME MdAssumption, MdShaped, JobInv, CacheInv, BroadcastCalls
  PROVE  MdShaped' /\ JobInv' /\ CacheInv'
<1> USE DEF BroadcastCalls, cacheVars, streamVars, orderVars, bookVars, Writes
<1>1. MdShaped'
  <2>3. mdJob' \in Jobs
    BY DEF MdShaped, Jobs, JobSteps
  <2> QED
    BY <2>3 DEF MdShaped, Jobs
<1>2. JobInv'
  BY DEF JobInv, SnapSteps, MdShaped, Jobs
<1>3. CacheInv'
  BY WatchedIsAsset DEF CacheInv, JobInv, SnapSteps, HasFreshInternal, MdShaped, Jobs, Snapshots
<1> QED
  BY <1>1, <1>2, <1>3

LEMMA SnapshotDoneStep ==
  ASSUME MdAssumption, MdShaped, JobInv, CacheInv, SnapshotDone
  PROVE  MdShaped' /\ JobInv' /\ CacheInv'
<1> USE DEF SnapshotDone, cacheVars, streamVars, orderVars, bookVars
<1>1. MdShaped'
  <2>3. mdJob' \in Jobs
    BY JobIdleShaped DEF MdShaped, Jobs, JobSteps
  <2> QED
    BY <2>3 DEF MdShaped, Jobs
<1>2. JobInv'
  BY DEF JobInv, SnapSteps, MdShaped, Jobs, JobIdle
<1>3. CacheInv'
  BY WatchedIsAsset DEF CacheInv, JobInv, SnapSteps, HasFreshInternal, MdShaped, Jobs, Snapshots, JobIdle
<1> QED
  BY <1>1, <1>2, <1>3

LEMMA OnBatchResultStep ==
  ASSUME MdAssumption, MdShaped, JobInv, CacheInv, OnBatchResult
  PROVE  MdShaped' /\ JobInv' /\ CacheInv'
<1> USE DEF OnBatchResult, cacheVars, streamVars, orderVars, bookVars, Message
<1>1. MdShaped'
  <2>1. mdCount' \in 0..MaxMessages
    BY DEF MdShaped, MdAssumption
  <2>2. PICK cleared \in SUBSET Assets, a \in Assets, fill \in FillQty :
          mdJob' = [JobIdle EXCEPT !.at = "batch", !.asset = a, !.fill = fill, !.left = cleared,
                                !.batch = mdCount']
    OBVIOUS
  <2>3. mdJob' \in Jobs
    BY <2>1, <2>2, JobIdleShaped DEF Jobs, JobSteps, MdAssumption
  <2> QED
    BY <2>3 DEF MdShaped, Jobs, MdAssumption
<1>2. JobInv'
  BY DEF JobInv, SnapSteps, MdShaped, Jobs, JobIdle
<1>3. CacheInv'
  BY WatchedIsAsset DEF CacheInv, JobInv, SnapSteps, HasFreshInternal, MdShaped, Jobs, Snapshots, JobIdle
<1> QED
  BY <1>1, <1>2, <1>3

LEMMA OnMarketDataRawStep ==
  ASSUME MdAssumption, MdShaped, JobInv, CacheInv, NEW a \in Assets, OnMarketDataRaw(a)
  PROVE  MdShaped' /\ JobInv' /\ CacheInv'
<1> USE DEF OnMarketDataRaw, cacheVars, streamVars, orderVars, bookVars, Message
<1>1. MdShaped'
  <2>2. mdCount' \in 0..MaxMessages
    BY DEF MdShaped, MdAssumption
  <2>3. mdJob' \in Jobs
    BY JobIdleShaped DEF MdShaped, Jobs, JobSteps, MdAssumption
  <2> QED
    BY <2>2, <2>3 DEF MdShaped
<1>2. JobInv'
  BY DEF JobInv, SnapSteps, MdShaped, Jobs, JobIdle
<1>3. CacheInv'
  BY WatchedIsAsset DEF CacheInv, JobInv, SnapSteps, HasFreshInternal, MdShaped, Jobs, Snapshots, JobIdle
<1> QED
  BY <1>1, <1>2, <1>3

LEMMA OnVenueSnapshotStep ==
  ASSUME MdAssumption, MdShaped, JobInv, CacheInv, NEW v \in MdVenues, NEW a \in Assets, OnVenueSnapshot(v, a)
  PROVE  MdShaped' /\ JobInv' /\ CacheInv'
<1> USE DEF OnVenueSnapshot, cacheVars, streamVars, orderVars, bookVars, Message
<1>1. MdShaped'
  <2>1. [n |-> mdCount', src |-> "venue", stale |-> FALSE] \in Snapshots
    BY DEF MdShaped, Snapshots, MdAssumption
  <2>3. mdJob' \in Jobs
    BY <2>1, JobIdleShaped DEF MdShaped, Jobs, JobSteps, MdAssumption
  <2> QED
    BY <2>1, <2>3 DEF MdShaped, Jobs, MdAssumption
<1>2. JobInv'
  BY DEF JobInv, SnapSteps, MdShaped, Jobs, JobIdle
<1>3. CacheInv'
  BY WatchedIsAsset DEF CacheInv, JobInv, SnapSteps, HasFreshInternal, MdShaped, Jobs, Snapshots, JobIdle
<1> QED
  BY <1>1, <1>2, <1>3

LEMMA MarkStaleStep ==
  ASSUME MdAssumption, MdShaped, JobInv, CacheInv, NEW a \in Assets, MarkStale(a)
  PROVE  MdShaped' /\ JobInv' /\ CacheInv'
<1> USE DEF MarkStale, cacheVars, streamVars, orderVars, bookVars, Subscribed
<1>1. MdShaped'
  <2>1. [mdLast[a] EXCEPT !.stale = TRUE] \in Snapshots
    BY DEF MdShaped, Snapshots
  <2> QED
    BY <2>1 DEF MdShaped
<1>2. JobInv'
  BY DEF JobInv, SnapSteps, MdShaped, Jobs
<1>3. CacheInv'
  BY WatchedIsAsset DEF CacheInv, JobInv, SnapSteps, HasFreshInternal, MdShaped, Jobs, Snapshots
<1> QED
  BY <1>1, <1>2, <1>3

LEMMA SweeperCallsStep ==
  ASSUME MdAssumption, MdShaped, JobInv, CacheInv, SweeperCalls
  PROVE  MdShaped' /\ JobInv' /\ CacheInv'
<1> USE DEF SweeperCalls, cacheVars, streamVars, orderVars, bookVars, Writes
<1>1. MdShaped'
  BY DEF MdShaped
<1>2. JobInv'
  BY DEF JobInv, SnapSteps, MdShaped, Jobs
<1>3. CacheInv'
  BY WatchedIsAsset DEF CacheInv, JobInv, SnapSteps, HasFreshInternal, MdShaped, Jobs, Snapshots
<1> QED
  BY <1>1, <1>2, <1>3

LEMMA SweeperUnlocksStep ==
  ASSUME MdAssumption, MdShaped, JobInv, CacheInv, SweeperUnlocks
  PROVE  MdShaped' /\ JobInv' /\ CacheInv'
<1> USE DEF SweeperUnlocks, cacheVars, streamVars, orderVars, bookVars
<1>1. MdShaped'
  BY DEF MdShaped
<1>2. JobInv'
  BY DEF JobInv, SnapSteps, MdShaped, Jobs
<1>3. CacheInv'
  BY WatchedIsAsset DEF CacheInv, JobInv, SnapSteps, HasFreshInternal, MdShaped, Jobs, Snapshots
<1> QED
  BY <1>1, <1>2, <1>3

LEMMA AgesStep ==
  ASSUME MdAssumption, MdShaped, JobInv, CacheInv, Ages
  PROVE  MdShaped' /\ JobInv' /\ CacheInv'
<1> USE DEF Ages, cacheVars, streamVars, orderVars, bookVars
<1>1. MdShaped'
  <2>1. \A b \in Assets : mdLast[b].n \in 0..MaxMessages
    BY DEF MdShaped, Snapshots
  <2>2. mdJob.snap.n \in 0..MaxMessages
    BY DEF MdShaped, Jobs, Snapshots
  <2>3. PICK n \in ({mdLast[a].n : a \in Assets} \cup {mdJob.snap.n}) \ ({0} \cup mdOld) : mdOld' = mdOld \cup {n}
    OBVIOUS
  <2>4. n \in 1..MaxMessages
    BY <2>1, <2>2, <2>3 DEF MdAssumption
  <2>5. mdOld' \in SUBSET (1..MaxMessages)
    BY <2>3, <2>4 DEF MdShaped
  <2> QED
    BY <2>5 DEF MdShaped
<1>2. JobInv'
  BY DEF JobInv, SnapSteps, MdShaped, Jobs
<1>3. CacheInv'
  BY WatchedIsAsset DEF CacheInv, JobInv, SnapSteps, HasFreshInternal, MdShaped, Jobs, Snapshots
<1> QED
  BY <1>1, <1>2, <1>3

LEMMA PersistDueStep ==
  ASSUME MdAssumption, MdShaped, JobInv, CacheInv, PersistDue
  PROVE  MdShaped' /\ JobInv' /\ CacheInv'
<1> USE DEF PersistDue, cacheVars, streamVars, orderVars, bookVars
<1>1. MdShaped'
  BY DEF MdShaped
<1>2. JobInv'
  BY DEF JobInv, SnapSteps, MdShaped, Jobs
<1>3. CacheInv'
  BY WatchedIsAsset DEF CacheInv, JobInv, SnapSteps, HasFreshInternal, MdShaped, Jobs, Snapshots
<1> QED
  BY <1>1, <1>2, <1>3

LEMMA StreamReadsStep ==
  ASSUME MdAssumption, MdShaped, JobInv, CacheInv, NEW s \in Streams, StreamReads(s)
  PROVE  MdShaped' /\ JobInv' /\ CacheInv'
<1> USE DEF StreamReads, cacheVars, streamVars, orderVars, bookVars, Writes
<1>1. MdShaped'
  BY WatchedIsAsset DEF MdShaped
<1>2. JobInv'
  BY DEF JobInv, SnapSteps, MdShaped, Jobs
<1>3. CacheInv'
  BY WatchedIsAsset DEF CacheInv, JobInv, SnapSteps, HasFreshInternal, MdShaped, Jobs, Snapshots
<1> QED
  BY <1>1, <1>2, <1>3

LEMMA StreamSubscribesStep ==
  ASSUME MdAssumption, MdShaped, JobInv, CacheInv, NEW s \in Streams, StreamSubscribes(s)
  PROVE  MdShaped' /\ JobInv' /\ CacheInv'
<1> USE DEF StreamSubscribes, cacheVars, streamVars, orderVars, bookVars
<1>1. MdShaped'
  BY DEF MdShaped
<1>2. JobInv'
  BY DEF JobInv, SnapSteps, MdShaped, Jobs
<1>3. CacheInv'
  BY WatchedIsAsset DEF CacheInv, JobInv, SnapSteps, HasFreshInternal, MdShaped, Jobs, Snapshots
<1> QED
  BY <1>1, <1>2, <1>3

LEMMA StreamReturnsStep ==
  ASSUME MdAssumption, MdShaped, JobInv, CacheInv, NEW s \in Streams, StreamReturns(s)
  PROVE  MdShaped' /\ JobInv' /\ CacheInv'
<1> USE DEF StreamReturns, cacheVars, streamVars, orderVars, bookVars
<1>1. MdShaped'
  BY DEF MdShaped
<1>2. JobInv'
  BY DEF JobInv, SnapSteps, MdShaped, Jobs
<1>3. CacheInv'
  BY WatchedIsAsset DEF CacheInv, JobInv, SnapSteps, HasFreshInternal, MdShaped, Jobs, Snapshots
<1> QED
  BY <1>1, <1>2, <1>3

LEMMA MessageStep ==
  ASSUME MdAssumption, MdShaped, JobInv, CacheInv,
         OnExecutionGroup \/ OnExecutionReport \/ OnVectorClearingResult \/ OnLiquidityCurve
           \/ (\E a \in Assets : OnFillEvent(a))
  PROVE  MdShaped' /\ JobInv' /\ CacheInv'
<1>1. Message /\ UNCHANGED <<cacheVars, mdJob, mdSweep, streamVars>>
  BY DEF OnExecutionGroup, OnExecutionReport, OnVectorClearingResult, OnLiquidityCurve, OnFillEvent, SaveRows
<1> USE <1>1 DEF Message, cacheVars, streamVars
<1>2. MdShaped'
  BY DEF MdShaped, MdAssumption
<1>3. JobInv'
  BY DEF JobInv, SnapSteps
<1>4. CacheInv'
  BY WatchedIsAsset DEF CacheInv, SnapSteps, HasFreshInternal, MdShaped, Snapshots
<1> QED
  BY <1>2, <1>3, <1>4

LEMMA MdOrderStep ==
  ASSUME MdShaped, JobInv, CacheInv,
         \E o \in MdOrders : OnOrderCreate(o) \/ OnOrderCancel(o) \/ OrderFilled(o)
  PROVE  MdShaped' /\ JobInv' /\ CacheInv'
  BY MdQuietStep DEF OnOrderCreate, OnOrderCancel, OrderFilled

-----------------------------------------------------------------------------
(* The sum of MapThenSumSet over records is that of the function of their  *)
(* quantities, whose lemmas are in InductionLemmas.                        *)
LEMMA SumOfBody ==
  ASSUME NEW S, IsFiniteSet(S), NEW f, \A x \in S : f[x] \in Int,
         NEW g, \A s \in SUBSET S : g[s] = SumBody(f, g, s)
  PROVE  g[S] = SumFunctionOnSet(f, S)
<1>1. PICK h \in [SUBSET S -> Int] :
        (\A s \in SUBSET S : h[s] = SumBody(f, h, s)) /\ SumFunctionOnSet(f, S) = h[S]
  BY SumIs
<1> DEFINE e == f
<1>2. (\A x \in S : f[x] = e[x]) /\ (\A s \in SUBSET S : g[s] = SumBody(f, g, s) /\ h[s] = SumBody(e, h, s))
  BY <1>1
<1> HIDE DEF e
<1>3. g[S] = h[S]
  BY <1>2, SumUnique
<1> QED
  BY <1>1, <1>3

LEMMA SumOfQuantities ==
  ASSUME NEW S, IsFiniteSet(S), \A x \in S : x.q \in Int
  PROVE  MapThenSumSet(LAMBDA seg : seg.q, S) = SumFunctionOnSet([x \in S |-> x.q], S)
<1> DEFINE f == [x \in S |-> x.q]
           Is(g) == g = [s \in SUBSET S |-> IF s = {} THEN 0
                                           ELSE (CHOOSE x \in s : TRUE).q + g[s \ {CHOOSE x \in s : TRUE}]]
           g == CHOOSE g : Is(g)
<1>0. \A x \in S : f[x] \in Int /\ f[x] = x.q
  OBVIOUS
<1> HIDE DEF f
<1>1. PICK h \in [SUBSET S -> Int] :
        (\A s \in SUBSET S : h[s] = SumBody(f, h, s)) /\ SumFunctionOnSet(f, S) = h[S]
  BY <1>0, SumIs
<1>2. \A s \in SUBSET S : s # {} => Pick(s) \in s /\ Pick(s) \in S /\ f[Pick(s)] = Pick(s).q
  BY <1>0 DEF Pick
<1>3. \A s \in SUBSET S : h[s] = IF s = {} THEN 0 ELSE Pick(s).q + h[s \ {Pick(s)}]
  BY <1>1, <1>2 DEF SumBody
<1>4. h = [s \in SUBSET S |-> IF s = {} THEN 0 ELSE Pick(s).q + h[s \ {Pick(s)}]]
  BY <1>1, <1>3
<1>5. Is(h)
  BY <1>4 DEF Pick
<1>6. Is(g)
  <2> HIDE DEF Is
  <2> QED
    BY <1>5
<1>7. MapThenSumSet(LAMBDA seg : seg.q, S) = g[S]
  BY DEF MapThenSumSet, MapThenFoldSet
<1> HIDE DEF g
<1>8. \A s \in SUBSET S : g[s] = SumBody(f, g, s)
  BY <1>2, <1>6 DEF SumBody, Pick
<1> QED
  BY <1>0, <1>7, <1>8, SumOfBody DEF f

(* The segments and the quoted units of the first n points of a side.      *)
SegOf(points, side, k) ==
  [id |-> <<side, k>>, q |-> StepQty(points, k), base |-> IF side = "bid" THEN 1 ELSE -1,
   quote |-> IF side = "bid" THEN -points[k][2] ELSE points[k][2]]
SegmentsUpto(points, side, n) ==
  {SegOf(points, side, k) : k \in {j \in 1..n : StepQty(points, j) > 0 /\ points[j][2] > 0}}
PointOf(points, x) == Min({j \in DOMAIN points : points[j][1] >= x})
QuotedUpto(points, n) ==
  {x \in 1..(IF n = 0 THEN 0 ELSE points[n][1]) : points[PointOf(points, x)][2] > 0}

(* The units between two grid points belong to the later one.              *)
LEMMA UnitsOfPoint ==
  ASSUME NEW points \in Seq(Nat \X Nat), Cumulative(points), NEW n \in 1..Len(points),
         NEW x \in Nat, x <= points[n][1], n > 1 => points[n - 1][1] < x
  PROVE  PointOf(points, x) = n
<1> DEFINE J == {j \in DOMAIN points : points[j][1] >= x}
<1>1. \A j \in 1..Len(points) : points[j][1] \in Nat
  OBVIOUS
<1>2. n \in J
  BY <1>1
<1>3. ASSUME NEW j \in J PROVE n <= j
  <2> SUFFICES ASSUME j < n PROVE FALSE
    BY <1>2
  <2>1. Len(points) \in Nat /\ j \in 1..Len(points) /\ points[j][1] >= x
    OBVIOUS
  <2> HIDE DEF J
  <2>3. n - 1 \in 1..Len(points) /\ j <= n - 1
    BY <2>1
  <2>2. points[j][1] <= points[n - 1][1]
    <3>1. DOMAIN points = 1..Len(points)
      OBVIOUS
    <3>2. \A i, m \in 1..Len(points) : i <= m => points[i][1] <= points[m][1]
      BY <3>1 DEF Cumulative
    <3> QED
      BY <2>1, <2>3, <3>2
  <2>4. n > 1 /\ points[n - 1][1] < x
    BY <2>1
  <2>5. points[n - 1][1] \in Nat /\ points[j][1] \in Nat
    BY <1>1, <2>1, <2>3
  <2>6. \A b, c, d \in Nat : ~(b >= d /\ b <= c /\ c < d)
    OBVIOUS
  <2> QED
    BY <2>1, <2>2, <2>4, <2>5, <2>6, Zenon
<1>4. \A m \in J : (\A j \in J : m <= j) => m = n
  BY <1>2, <1>3
<1> HIDE DEF J
<1>5. Min(J) = n
  BY <1>2, <1>3, <1>4 DEF Min
<1> QED
  BY <1>5 DEF J, PointOf

(* One more point adds the units up to it, if it has a price.              *)
Below(points, n) == IF n = 1 THEN 0 ELSE points[n - 1][1]

LEMMA QuotedStep ==
  ASSUME NEW points \in Seq(Nat \X Nat), Cumulative(points), NEW n \in 1..Len(points)
  PROVE  /\ Below(points, n) \in Nat /\ points[n][1] \in Nat /\ Below(points, n) <= points[n][1]
         /\ StepQty(points, n) = points[n][1] - Below(points, n)
         /\ QuotedUpto(points, n) =
              QuotedUpto(points, n - 1)
                \cup (IF points[n][2] > 0 THEN (Below(points, n) + 1)..points[n][1] ELSE {})
<1> DEFINE low == Below(points, n)
<1>1. \A j \in 1..Len(points) : points[j][1] \in Nat /\ points[j][2] \in Nat
  OBVIOUS
<1>2. n # 1 => n - 1 \in 1..Len(points)
  OBVIOUS
<1>3. low \in Nat /\ points[n][1] \in Nat /\ low <= points[n][1]
  <2>1. DOMAIN points = 1..Len(points)
    OBVIOUS
  <2>2. n # 1 => points[n - 1][1] <= points[n][1]
    <3>1. \A i, m \in 1..Len(points) : i <= m => points[i][1] <= points[m][1]
      BY <2>1 DEF Cumulative
    <3>2. n # 1 => n - 1 \in 1..Len(points) /\ n - 1 <= n
      BY <1>2
    <3> QED
      BY <3>1, <3>2
  <2> QED
    BY <1>1, <1>2, <2>2 DEF Below
<1>4. StepQty(points, n) = points[n][1] - low
  BY DEF StepQty, Below
<1>5. \A x \in (low + 1)..points[n][1] : PointOf(points, x) = n
  <2> TAKE x \in (low + 1)..points[n][1]
  <2>1. x \in Nat /\ x <= points[n][1] /\ low < x
    BY <1>3
  <2> QED
    BY <2>1, UnitsOfPoint DEF Below
<1>6. QuotedUpto(points, n - 1) = {x \in 1..low : points[PointOf(points, x)][2] > 0}
  BY DEF QuotedUpto, Below
<1>7. QuotedUpto(points, n) = {x \in 1..points[n][1] : points[PointOf(points, x)][2] > 0}
  BY DEF QuotedUpto
<1> HIDE DEF low
<1>8. 1..points[n][1] = (1..low) \cup ((low + 1)..points[n][1])
  BY <1>3
<1>9. QuotedUpto(points, n) =
        QuotedUpto(points, n - 1) \cup (IF points[n][2] > 0 THEN (low + 1)..points[n][1] ELSE {})
  BY <1>5, <1>6, <1>7, <1>8
<1> QED
  BY <1>3, <1>4, <1>9 DEF low

LEMMA SegmentsStep ==
  ASSUME NEW points, NEW side, NEW n \in Nat \ {0}
  PROVE  SegmentsUpto(points, side, n) =
           SegmentsUpto(points, side, n - 1)
             \cup (IF StepQty(points, n) > 0 /\ points[n][2] > 0 THEN {SegOf(points, side, n)} ELSE {})
<1>1. 1..n = (1..(n - 1)) \cup {n}
  OBVIOUS
<1> QED
  BY <1>1 DEF SegmentsUpto

(* The segments add up to the quoted units, point by point.                *)
LEMMA SegmentsAddUp ==
  ASSUME NEW points \in Seq(Nat \X Nat), Cumulative(points), NEW side, NEW F,
         \A k \in DOMAIN points : F[SegOf(points, side, k)] = StepQty(points, k)
  PROVE  \A n \in 0..Len(points) :
           /\ IsFiniteSet(SegmentsUpto(points, side, n))
           /\ IsFiniteSet(QuotedUpto(points, n))
           /\ SumFunctionOnSet(F, SegmentsUpto(points, side, n)) = Cardinality(QuotedUpto(points, n))
<1> DEFINE S(n) == SegmentsUpto(points, side, n)
           Q(n) == QuotedUpto(points, n)
           Fine(n) == /\ IsFiniteSet(S(n)) /\ IsFiniteSet(Q(n))
                      /\ SumFunctionOnSet(F, S(n)) = Cardinality(Q(n))
           Bad == {n \in 0..Len(points) : ~Fine(n)}
<1>0. Len(points) \in Nat
  OBVIOUS
<1>1. Bad = {}
  <2> SUFFICES ASSUME Bad # {} PROVE FALSE
    OBVIOUS
  <2>1. PICK n \in Bad : \A m \in Bad : n <= m
    <3>1. Bad \in SUBSET Nat
      OBVIOUS
    <3> HIDE DEF Bad
    <3> QED
      BY <3>1, LeastNumber
  <2>2. n # 0
    <3>1. S(0) = {} /\ Q(0) = {}
      BY DEF SegmentsUpto, QuotedUpto
    <3>2. Fine(0)
      BY <3>1, SumEmpty, FS_EmptySet
    <3> HIDE DEF Fine
    <3> QED
      BY <2>1, <3>2
  <2>3. n \in 1..Len(points) /\ n - 1 \in 0..Len(points) /\ n - 1 \notin Bad
    <3>1. n \in 0..Len(points)
      OBVIOUS
    <3> HIDE DEF Bad
    <3> QED
      BY <1>0, <2>1, <2>2, <3>1
  <2>4. Fine(n - 1)
    BY <2>3
  <2> DEFINE low == Below(points, n)
             new == IF points[n][2] > 0 THEN (low + 1)..points[n][1] ELSE {}
  <2>5. /\ low \in Nat /\ points[n][1] \in Nat /\ low <= points[n][1]
        /\ StepQty(points, n) = points[n][1] - low
        /\ Q(n) = Q(n - 1) \cup new
    BY <2>3, QuotedStep
  <2>6. Q(n - 1) \cap new = {}
    <3>1. Q(n - 1) \subseteq 1..low
      BY DEF QuotedUpto, Below
    <3> QED
      BY <2>5, <3>1
  <2>7. IsFiniteSet(new) /\ Cardinality(new) = IF points[n][2] > 0 THEN points[n][1] - low ELSE 0
    <3>1. low + 1 \in Int /\ points[n][1] \in Int
      BY <2>5
    <3>2. IsFiniteSet((low + 1)..points[n][1]) /\
          Cardinality((low + 1)..points[n][1]) = IF low + 1 > points[n][1] THEN 0 ELSE points[n][1] - (low + 1) + 1
      BY <3>1, FS_Interval
    <3>3. CASE points[n][2] > 0
      BY <2>5, <3>2, <3>3
    <3>4. CASE ~(points[n][2] > 0)
      BY <3>4, FS_EmptySet
    <3> QED
      BY <3>3, <3>4
  <2> HIDE DEF low, new
  <2>8. IsFiniteSet(Q(n)) /\ Cardinality(Q(n)) = Cardinality(Q(n - 1)) + Cardinality(new)
    <3> HIDE DEF Q
    <3>1. Cardinality(Q(n - 1) \cap new) = 0
      BY <2>6, FS_EmptySet
    <3>2. Cardinality(Q(n - 1)) \in Nat /\ Cardinality(new) \in Nat
      BY <2>4, <2>7, FS_CardinalityType
    <3> DEFINE A == Q(n - 1)
    <3>3. IsFiniteSet(A) /\ Q(n) = A \cup new
      BY <2>4, <2>5
    <3> HIDE DEF A
    <3>4. IsFiniteSet(A \cup new)
          /\ Cardinality(A \cup new) = Cardinality(A) + Cardinality(new) - Cardinality(A \cap new)
      BY <2>7, <3>3, FS_Union
    <3> QED
      BY <3>1, <3>2, <3>3, <3>4 DEF A
  <2>9. S(n) = S(n - 1) \cup (IF StepQty(points, n) > 0 /\ points[n][2] > 0 THEN {SegOf(points, side, n)} ELSE {})
    BY <2>3, SegmentsStep
  <2>10. points[n][2] \in Nat
    BY <2>3
  <2>11. CASE ~(StepQty(points, n) > 0 /\ points[n][2] > 0)
    <3>1. S(n) = S(n - 1)
      BY <2>9, <2>11
    <3>2. Cardinality(new) = 0
      BY <2>5, <2>7, <2>10, <2>11
    <3>3. Cardinality(Q(n - 1)) \in Nat
      BY <2>4, FS_CardinalityType
    <3> HIDE DEF S, Q
    <3>4. Fine(n)
      BY <2>4, <2>8, <3>1, <3>2, <3>3
    <3> QED
      BY <2>1, <3>4
  <2>12. CASE StepQty(points, n) > 0 /\ points[n][2] > 0
    <3> DEFINE x == SegOf(points, side, n)
    <3>1. S(n) = S(n - 1) \cup {x}
      BY <2>9, <2>12
    <3>2. x \notin S(n - 1)
      <4>1. ASSUME NEW k \in 1..(n - 1) PROVE SegOf(points, side, k).id # x.id
        <5>1. k # n
          BY <2>3
        <5> QED
          BY <5>1 DEF SegOf
      <4> QED
        BY <4>1 DEF SegmentsUpto
    <3>3. \A y \in S(n) : F[y] \in Int
      <4>1. ASSUME NEW y \in S(n) PROVE F[y] \in Int
        <5>1. PICK k \in 1..n : y = SegOf(points, side, k)
          BY DEF SegmentsUpto
        <5>2. k \in DOMAIN points /\ (k # 1 => k - 1 \in 1..Len(points))
          BY <1>0, <2>3
        <5>3. \A j \in 1..Len(points) : points[j][1] \in Nat
          OBVIOUS
        <5>4. StepQty(points, k) \in Int
          BY <5>2, <5>3 DEF StepQty
        <5> QED
          BY <5>1, <5>2, <5>4
      <4> QED
        BY <4>1
    <3>4. F[x] = StepQty(points, n)
      BY <2>3
    <3> HIDE DEF S, Q, x
    <3>5. IsFiniteSet(S(n)) /\ x \in S(n) /\ S(n) \ {x} = S(n - 1)
      BY <2>4, <3>1, <3>2, FS_AddElement
    <3>6. SumFunctionOnSet(F, S(n)) = F[x] + SumFunctionOnSet(F, S(n - 1))
      <4> DEFINE T == S(n)
      <4>1. IsFiniteSet(T) /\ (\A y \in T : F[y] \in Int) /\ x \in T
        BY <3>3, <3>5
      <4> HIDE DEF T
      <4>2. SumFunctionOnSet(F, T) = F[x] + SumFunctionOnSet(F, T \ {x})
        BY <4>1, SumSplit
      <4> QED
        BY <3>5, <4>2 DEF T
    <3>7. Cardinality(Q(n - 1)) \in Nat
      BY <2>4, FS_CardinalityType
    <3>8. SumFunctionOnSet(F, S(n)) = Cardinality(Q(n))
      BY <2>4, <2>5, <2>7, <2>8, <2>12, <3>4, <3>6, <3>7
    <3>9. Fine(n)
      BY <2>8, <3>5, <3>8
    <3> QED
      BY <2>1, <3>9
  <2> QED
    BY <2>11, <2>12
<1> QED
  BY <1>1

(* For both sides of any curve the service reads.                          *)
LEMMA SegmentsAreCurve ==
  ASSUME NEW c \in [{"bid", "ask"} -> Seq(Nat \X Nat)], NEW side \in {"bid", "ask"},
         Cumulative(c[side])
  PROVE  MapThenSumSet(LAMBDA seg : seg.q, {seg \in Vectorize(LevelsFromCurve(c)) : seg.id[1] = side})
           = Cardinality(Quoted(c[side]))
<1> DEFINE points == c[side]
           N == Len(points)
           S == {seg \in Vectorize(LevelsFromCurve(c)) : seg.id[1] = side}
<1>1. points \in Seq(Nat \X Nat) /\ N \in Nat /\ DOMAIN points = 1..N
  OBVIOUS
<1>2. S = SegmentsUpto(points, side, N)
  <2>1. ASSUME NEW seg \in S PROVE seg \in SegmentsUpto(points, side, N)
    BY <1>1 DEF Vectorize, LevelsFromCurve, SegmentsUpto, SegOf
  <2>2. ASSUME NEW seg \in SegmentsUpto(points, side, N) PROVE seg \in S
    <3>1. PICK k \in 1..N : /\ StepQty(points, k) > 0 /\ points[k][2] > 0
                            /\ seg = SegOf(points, side, k)
      BY DEF SegmentsUpto
    <3>2. [side |-> side, k |-> k, qty |-> StepQty(points, k), price |-> points[k][2]]
            \in LevelsFromCurve(c)
      BY <1>1, <3>1 DEF LevelsFromCurve
    <3>3. seg \in Vectorize(LevelsFromCurve(c))
      <4> DEFINE levels == LevelsFromCurve(c)
                 level == [side |-> side, k |-> k, qty |-> StepQty(points, k), price |-> points[k][2]]
      <4>1. seg = [id |-> <<level.side, level.k>>, q |-> level.qty,
                   base |-> IF level.side = "bid" THEN 1 ELSE -1,
                   quote |-> IF level.side = "bid" THEN -level.price ELSE level.price]
        BY <3>1 DEF SegOf
      <4>2. level \in levels
        BY <3>2
      <4> HIDE DEF levels, level
      <4>3. seg \in Vectorize(levels)
        BY <4>1, <4>2 DEF Vectorize
      <4> QED
        BY <4>3 DEF levels
    <3> QED
      BY <3>1, <3>3 DEF SegOf
  <2> QED
    BY <2>1, <2>2
<1>3. Quoted(points) = QuotedUpto(points, N)
  <2>1. (points = <<>>) <=> (N = 0)
    BY <1>1
  <2> QED
    BY <2>1 DEF Quoted, QuotedUpto, PointOf, Last
<1> DEFINE F == [seg \in S |-> seg.q]
           G == [seg \in S \cup {SegOf(points, side, k) : k \in 1..N} |-> seg.q]
<1>4. \A k \in DOMAIN points : G[SegOf(points, side, k)] = StepQty(points, k)
  BY <1>1 DEF SegOf
<1>5. \A seg \in S : seg.q \in Int
  <2>1. ASSUME NEW seg \in S PROVE seg.q \in Int
    <3>1. PICK k \in 1..N : seg = SegOf(points, side, k)
      BY <1>2 DEF SegmentsUpto
    <3>2. \A j \in 1..N : points[j][1] \in Nat
      BY <1>1
    <3>3. StepQty(points, k) \in Int
      BY <1>1, <3>2 DEF StepQty
    <3> QED
      BY <3>1, <3>3 DEF SegOf
  <2> QED
    BY <2>1
<1> HIDE DEF points, S, N
<1>6. \A seg \in S : F[seg] \in Int /\ F[seg] = G[seg]
  BY <1>5
<1>7. /\ IsFiniteSet(SegmentsUpto(points, side, N))
      /\ SumFunctionOnSet(G, SegmentsUpto(points, side, N)) = Cardinality(QuotedUpto(points, N))
  <2> HIDE DEF G
  <2>1. Cumulative(points)
    BY DEF points
  <2>2. \A n \in 0..Len(points) :
          /\ IsFiniteSet(SegmentsUpto(points, side, n))
          /\ SumFunctionOnSet(G, SegmentsUpto(points, side, n)) = Cardinality(QuotedUpto(points, n))
    BY <1>1, <1>4, <2>1, SegmentsAddUp
  <2>3. N = Len(points) /\ N \in 0..Len(points)
    BY <1>1 DEF N
  <2> QED
    BY <2>2, <2>3
<1>8. SumFunctionOnSet(F, S) = SumFunctionOnSet(G, S)
  <2> HIDE DEF F, G
  <2> QED
    BY <1>2, <1>6, <1>7, SumSame
<1>9. MapThenSumSet(LAMBDA seg : seg.q, S) = SumFunctionOnSet(F, S)
  BY <1>2, <1>5, <1>7, SumOfQuantities
<1> QED
  BY <1>2, <1>3, <1>7, <1>8, <1>9 DEF points, S
-----------------------------------------------------------------------------
(* The sums of the aggregated book are naturals.                           *)
LEMMA AggregateIsNat ==
  ASSUME MdAssumption, NEW a \in Assets,
         NEW quotes \in [MdVenues -> [Assets -> [ok : BOOLEAN, bid : Nat, ask : Nat]]]
  PROVE  Aggregated(a, quotes) \in [sym : Assets \cup {"none"}, bid : Nat, ask : Nat]
<1> DEFINE S == {v \in MdVenues : Aggregatable(quotes[v][a])}
<1>1. IsFiniteSet(S)
  BY FS_Subset DEF MdAssumption
<1>2. \A v \in S : quotes[v][a].bid \in Nat /\ quotes[v][a].ask \in Nat
  OBVIOUS
<1> HIDE DEF S
<1>3. MapThenSumSet(LAMBDA v : quotes[v][a].bid, S) \in Nat
  <2> DEFINE f == [v \in S |-> quotes[v][a].bid]
             Is(g) == g = [s \in SUBSET S |-> IF s = {} THEN 0
                            ELSE quotes[CHOOSE x \in s : TRUE][a].bid + g[s \ {CHOOSE x \in s : TRUE}]]
             g == CHOOSE g : Is(g)
  <2>0. \A v \in S : f[v] \in Nat /\ f[v] \in Int /\ f[v] = quotes[v][a].bid
    BY <1>2
  <2> HIDE DEF f
  <2>1. PICK h \in [SUBSET S -> Int] :
          (\A s \in SUBSET S : h[s] = SumBody(f, h, s)) /\ SumFunctionOnSet(f, S) = h[S]
    BY <1>1, <2>0, SumIs
  <2>2. \A s \in SUBSET S : s # {} => Pick(s) \in S /\ f[Pick(s)] = quotes[Pick(s)][a].bid
    BY <2>0 DEF Pick
  <2>3. h = [s \in SUBSET S |-> IF s = {} THEN 0 ELSE quotes[Pick(s)][a].bid + h[s \ {Pick(s)}]]
    BY <2>1, <2>2 DEF SumBody
  <2>4. Is(h)
    BY <2>3 DEF Pick
  <2>5. Is(g)
    <3> HIDE DEF Is
    <3> QED
      BY <2>4
  <2>6. MapThenSumSet(LAMBDA v : quotes[v][a].bid, S) = g[S]
    BY DEF MapThenSumSet, MapThenFoldSet
  <2> HIDE DEF g
  <2>7. \A s \in SUBSET S : g[s] = SumBody(f, g, s)
    <3> TAKE s \in SUBSET S
    <3>1. CASE s = {}
      BY <2>5, <3>1 DEF SumBody
    <3>2. CASE s # {}
      <4>1. g[s] = quotes[Pick(s)][a].bid + g[s \ {Pick(s)}]
        BY <2>5, <3>2 DEF Pick
      <4> QED
        BY <2>2, <3>2, <4>1 DEF SumBody
    <3> QED
      BY <3>1, <3>2
  <2> QED
    BY <1>1, <2>0, <2>6, <2>7, SumOfBody, SumNat
<1>4. MapThenSumSet(LAMBDA v : quotes[v][a].ask, S) \in Nat
  <2> DEFINE f == [v \in S |-> quotes[v][a].ask]
             Is(g) == g = [s \in SUBSET S |-> IF s = {} THEN 0
                            ELSE quotes[CHOOSE x \in s : TRUE][a].ask + g[s \ {CHOOSE x \in s : TRUE}]]
             g == CHOOSE g : Is(g)
  <2>0. \A v \in S : f[v] \in Nat /\ f[v] \in Int /\ f[v] = quotes[v][a].ask
    BY <1>2
  <2> HIDE DEF f
  <2>1. PICK h \in [SUBSET S -> Int] :
          (\A s \in SUBSET S : h[s] = SumBody(f, h, s)) /\ SumFunctionOnSet(f, S) = h[S]
    BY <1>1, <2>0, SumIs
  <2>2. \A s \in SUBSET S : s # {} => Pick(s) \in S /\ f[Pick(s)] = quotes[Pick(s)][a].ask
    BY <2>0 DEF Pick
  <2>3. h = [s \in SUBSET S |-> IF s = {} THEN 0 ELSE quotes[Pick(s)][a].ask + h[s \ {Pick(s)}]]
    BY <2>1, <2>2 DEF SumBody
  <2>4. Is(h)
    BY <2>3 DEF Pick
  <2>5. Is(g)
    <3> HIDE DEF Is
    <3> QED
      BY <2>4
  <2>6. MapThenSumSet(LAMBDA v : quotes[v][a].ask, S) = g[S]
    BY DEF MapThenSumSet, MapThenFoldSet
  <2> HIDE DEF g
  <2>7. \A s \in SUBSET S : g[s] = SumBody(f, g, s)
    <3> TAKE s \in SUBSET S
    <3>1. CASE s = {}
      BY <2>5, <3>1 DEF SumBody
    <3>2. CASE s # {}
      <4>1. g[s] = quotes[Pick(s)][a].ask + g[s \ {Pick(s)}]
        BY <2>5, <3>2 DEF Pick
      <4> QED
        BY <2>2, <3>2, <4>1 DEF SumBody
    <3> QED
      BY <3>1, <3>2
  <2> QED
    BY <1>1, <2>0, <2>6, <2>7, SumOfBody, SumNat
<1> QED
  BY <1>3, <1>4 DEF Aggregated, S

LEMMA BooksStep ==
  ASSUME MdAssumption, MdShaped, JobInv, BooksShaped, [MdNext]_mdVars
  PROVE  BooksShaped'
<1> USE DEF orderVars, bookVars, cacheVars, streamVars
<1>1. CASE UNCHANGED <<fob, latest, book, rows>>
  BY <1>1 DEF BooksShaped
<1>2. ASSUME NEW o \in MdOrders, OnOrderCreate(o) \/ OnOrderCancel(o) \/ OrderFilled(o)
      PROVE  BooksShaped'
  BY <1>2 DEF OnOrderCreate, OnOrderCancel, OrderFilled, BooksShaped
<1>3. ASSUME NEW a \in Assets, OnFillEvent(a) PROVE BooksShaped'
  BY <1>3 DEF OnFillEvent, BooksShaped
<1>4. ASSUME NEW a \in Assets, OnMarketDataRaw(a) PROVE BooksShaped'
  BY <1>4 DEF OnMarketDataRaw, BooksShaped, MdAssumption
<1>5. ASSUME NEW a \in Assets, NEW v \in MdVenues, OnVenueSnapshot(v, a) PROVE BooksShaped'
  <2>1. latest' \in [MdVenues -> [Assets -> [ok : BOOLEAN, bid : Nat, ask : Nat]]]
    BY <1>5 DEF OnVenueSnapshot, BooksShaped, MdAssumption
  <2>2. Aggregated(a, latest') \in [sym : Assets \cup {"none"}, bid : Nat, ask : Nat]
    BY <2>1, AggregateIsNat
  <2>3. book' = book \/ book' = Aggregated(a, latest')
    BY <1>5 DEF OnVenueSnapshot, Rebuild
  <2>4. fob' = fob /\ rows' = rows
    BY <1>5 DEF OnVenueSnapshot
  <2> QED
    BY <2>1, <2>2, <2>3, <2>4 DEF BooksShaped
<1>6. CASE OnBatchResult
  BY <1>6 DEF OnBatchResult, BooksShaped
<1>7. CASE BatchUpdatesBook
  <2>1. CASE book' = book
    BY <1>7, <2>1 DEF BatchUpdatesBook, BooksShaped
  <2>2. CASE book' # book
    <3>1. ~Exceeds(mdJob.asset, mdJob.fill) /\ book' = Updated(mdJob.asset, mdJob.fill)
          /\ UNCHANGED <<fob, latest, rows>>
      BY <1>7, <2>2 DEF BatchUpdatesBook
    <3>2. mdJob.fill \in Nat
      BY DEF MdShaped, Jobs
    <3>3. book' \in [sym : Assets \cup {"none"}, bid : Nat, ask : Nat]
      <4>1. CASE book.sym # mdJob.asset \/ book.ask = 0
        BY <3>1, <4>1 DEF Updated, BooksShaped
      <4>2. CASE ~(book.sym # mdJob.asset \/ book.ask = 0)
        <5>1. book.ask \in Nat /\ book.ask - mdJob.fill \in Nat
          BY <3>1, <3>2, <4>2 DEF Exceeds, BooksShaped
        <5>2. book' = [book EXCEPT !.ask = book.ask - mdJob.fill]
          BY <3>1, <4>2 DEF Updated
        <5> QED
          BY <5>1, <5>2 DEF BooksShaped
      <4> QED
        BY <4>1, <4>2
    <3> QED
      BY <3>1, <3>3 DEF BooksShaped
  <2> QED
    BY <2>1, <2>2
<1>8. CASE SaveBatch
  <2>1. mdJob.batch \in 1..MaxMessages
    BY <1>8 DEF SaveBatch, JobInv, MdShaped, Jobs
  <2> QED
    BY <1>8, <2>1 DEF SaveBatch, BooksShaped
<1>9. CASE OnExecutionGroup \/ OnExecutionReport \/ OnVectorClearingResult
  <2>1. UNCHANGED <<fob, latest, book>>
    BY <1>9 DEF OnExecutionGroup, OnExecutionReport, OnVectorClearingResult, SaveRows
  <2>2. PICK split : rows' = [rows EXCEPT !.split = split]
    BY <1>9 DEF OnExecutionGroup, OnExecutionReport, OnVectorClearingResult, SaveRows
  <2>3. rows'.batches = rows.batches
    BY <2>2 DEF BooksShaped
  <2> QED
    BY <2>1, <2>3 DEF BooksShaped
<1>10. CASE Handles /\ ~BatchUpdatesBook /\ ~SaveBatch
  BY <1>1, <1>10 DEF Handles, Publish, PublishDrops, PublishAgain, PublishBBO, FromVenueSnapshot,
     NextAsset, ReadConfig, StoreSnapshot, StoreAgain, PauseSnapshot, Broadcast, BroadcastCalls, SnapshotDone
<1>11. CASE OnLiquidityCurve \/ Sweeper \/ Ages \/ PersistDue \/ GetLiveMarketSnapshots
            \/ (\E s \in Streams : StreamReads(s) \/ StreamSubscribes(s) \/ StreamReturns(s))
            \/ UNCHANGED mdVars
  BY <1>1, <1>11 DEF OnLiquidityCurve, Sweeper, MarkStale, SweeperCalls, SweeperUnlocks, Ages, PersistDue,
     GetLiveMarketSnapshots, StreamReads, StreamSubscribes, StreamReturns, mdVars
<1> QED
  BY <1>2, <1>3, <1>4, <1>5, <1>6, <1>7, <1>8, <1>9, <1>10, <1>11 DEF MdNext, Receives

(* The newest book is dropped by neither side of the channel.              *)
LEMMA ChannelStep ==
  ASSUME MdAssumption, MdShaped, JobInv, ChannelInv, [MdNext]_mdVars
  PROVE  ChannelInv'
<1> USE DEF orderVars, bookVars, cacheVars, streamVars
<1> DEFINE q == channel.queue
<1>0. /\ q \in Seq(Nat) /\ Len(q) \in Nat /\ channel.sent \in Nat /\ channel.got \in Nat
      /\ Len(q) <= Capacity /\ Capacity \in Nat \ {0}
  BY DEF ChannelInv, MdAssumption
<1>1. CASE /\ channel' = channel
           /\ mdJob.at \in {"drop", "repush"} \/ mdJob'.at \in {"drop", "repush"} => mdJob' = mdJob
  BY <1>1 DEF ChannelInv, NewestIsLast
<1>2. ASSUME NEW n \in Nat, Room, channel' = Pushed(n), mdJob'.at = "bbo" PROVE ChannelInv'
  <2>1. channel'.queue = Append(q, n) /\ channel'.sent = n
        /\ channel' \in [queue : Seq(Nat), sent : Nat, got : Nat]
    <3>1. channel' = [channel EXCEPT !.queue = Append(q, n), !.sent = n] /\ Append(q, n) \in Seq(Nat)
      BY <1>0, <1>2 DEF Pushed
    <3> QED
      BY <3>1 DEF ChannelInv
  <2>2. Len(channel'.queue) = Len(q) + 1 /\ channel'.queue[Len(q) + 1] = n /\ channel'.queue # <<>>
    <3> HIDE DEF q
    <3>1. Len(Append(q, n)) = Len(q) + 1 /\ Append(q, n)[Len(q) + 1] = n /\ Append(q, n) # <<>>
      BY <1>0
    <3> QED
      BY <2>1, <3>1
  <2>3. Len(q) + 1 <= Capacity
    BY <1>0, <1>2 DEF Room
  <2> QED
    BY <1>2, <2>1, <2>2, <2>3 DEF ChannelInv, NewestIsLast
<1>3. CASE Publish
  <2>1. CASE Room
    BY <1>0, <1>2, <1>3, <2>1 DEF Publish, Goes, MdShaped, Jobs
  <2>2. CASE ~Room
    <3>1. channel' = [channel EXCEPT !.sent = channel.sent + 1] /\ mdJob'.at = "drop"
      <4>1. channel' = [channel EXCEPT !.queue = channel.queue, !.sent = channel.sent + 1]
        BY <1>3, <2>2 DEF Publish, Pushed
      <4> QED
        BY <1>3, <2>2, <4>1 DEF Publish, Goes, ChannelInv, MdShaped, Jobs
    <3> QED
      BY <1>0, <3>1 DEF ChannelInv
  <2> QED
    BY <2>1, <2>2
<1>4. CASE PublishDrops
  <2>1. Oldest(q) \in Seq(Nat) /\ Len(Oldest(q)) < Capacity
    <3>1. CASE q = <<>>
      BY <1>0, <3>1 DEF Oldest
    <3>2. CASE q # <<>>
      BY <1>0, <3>2 DEF Oldest
    <3> QED
      BY <3>1, <3>2
  <2>2. channel' = [channel EXCEPT !.queue = Oldest(q)] /\ mdJob'.at = "repush"
    BY <1>4 DEF PublishDrops, Goes, MdShaped, Jobs
  <2>3. /\ channel' \in [queue : Seq(Nat), sent : Nat, got : Nat] /\ channel'.queue = Oldest(q)
    BY <2>1, <2>2 DEF ChannelInv
  <2> QED
    BY <1>0, <2>1, <2>2, <2>3 DEF ChannelInv
<1>5. CASE PublishAgain
  BY <1>0, <1>2, <1>5 DEF PublishAgain, Goes, MdShaped, Jobs, ChannelInv, Room
<1>6. CASE GetLiveMarketSnapshots
  <2>1. q # <<>> /\ channel' = [channel EXCEPT !.queue = Tail(q), !.got = Head(q)] /\ mdJob' = mdJob
    BY <1>6 DEF GetLiveMarketSnapshots
  <2>2. Tail(q) \in Seq(Nat) /\ Len(Tail(q)) = Len(q) - 1 /\ Head(q) \in Nat /\ Head(q) = q[1]
        /\ \A i \in 1..(Len(q) - 1) : Tail(q)[i] = q[i + 1]
    BY <1>0, <2>1
  <2>3. channel' \in [queue : Seq(Nat), sent : Nat, got : Nat] /\ channel'.sent = channel.sent
        /\ channel'.got = Head(q) /\ channel'.queue = Tail(q)
    BY <1>0, <2>1, <2>2 DEF ChannelInv
  <2>4. ASSUME NewestIsLast PROVE NewestIsLast'
    <3>1. q[Len(q)] = channel.sent
      BY <2>1, <2>4 DEF NewestIsLast
    <3>2. CASE Len(q) = 1
      <4>1. Len(Tail(q)) = 0
        BY <2>2, <3>2
      <4>2. Tail(q) = <<>>
        <5> DEFINE t == Tail(q)
        <5>1. t \in Seq(Nat) /\ Len(t) = 0
          BY <2>2, <4>1
        <5> HIDE DEF t
        <5>2. t = <<>>
          BY <5>1, EmptySeq
        <5> QED
          BY <5>2 DEF t
      <4> QED
        BY <2>2, <2>3, <3>1, <3>2, <4>2 DEF NewestIsLast
    <3>3. CASE Len(q) # 1
      <4>1. Len(q) - 1 \in 1..(Len(q) - 1) /\ Tail(q) # <<>>
        <5> HIDE DEF q
        <5>1. Len(q) # 0
          BY <1>0, <2>1, EmptySeq
        <5>2. Len(Tail(q)) # 0
          BY <1>0, <2>2, <3>3
        <5>3. Tail(q) # <<>>
          <6> DEFINE t == Tail(q)
          <6>1. Len(t) # 0
            BY <5>2
          <6> HIDE DEF t
          <6>2. t # <<>>
            BY <6>1
          <6> QED
            BY <6>2 DEF t
        <5> QED
          BY <1>0, <3>3, <5>1, <5>3
      <4>2. Tail(q)[Len(Tail(q))] = q[Len(q)]
        BY <1>0, <2>2, <4>1
      <4> QED
        BY <2>3, <3>1, <4>1, <4>2 DEF NewestIsLast
    <3> QED
      BY <3>2, <3>3
  <2> QED
    BY <1>0, <2>1, <2>2, <2>3, <2>4 DEF ChannelInv
<1>7. CASE Handles /\ ~Publish /\ ~PublishDrops /\ ~PublishAgain
  <2>1. channel' = channel /\ mdJob.at \notin {"drop", "repush"}
    BY <1>7 DEF Handles, PublishBBO, FromVenueSnapshot, NextAsset, BatchUpdatesBook, SaveBatch, ReadConfig,
       StoreSnapshot, StoreAgain, PauseSnapshot, Broadcast, BroadcastCalls, SnapshotDone
  <2>2. mdJob'.at \notin {"drop", "repush"}
    <3> USE DEF MdShaped, Jobs, JobSteps
    <3>1. CASE PublishBBO \/ ReadConfig \/ StoreSnapshot \/ StoreAgain \/ PauseSnapshot \/ Broadcast
      BY <3>1 DEF PublishBBO, ReadConfig, StoreSnapshot, StoreAgain, PauseSnapshot, Broadcast, Goes
    <3>2. CASE NextAsset \/ BroadcastCalls
      BY <3>2 DEF NextAsset, BroadcastCalls
    <3>3. CASE mdJob' = JobIdle
      BY <3>3 DEF JobIdle
    <3>4. CASE FromVenueSnapshot \/ SaveBatch \/ SnapshotDone
      BY <3>3, <3>4 DEF FromVenueSnapshot, SaveBatch, SnapshotDone
    <3>5. CASE BatchUpdatesBook
      BY <3>3, <3>5 DEF BatchUpdatesBook, Goes
    <3> QED
      BY <1>7, <3>1, <3>2, <3>4, <3>5 DEF Handles
  <2> QED
    BY <1>1, <2>1, <2>2
<1>8. CASE Receives
  <2>1. channel' = channel /\ (mdJob' = mdJob \/ mdJob.at = "idle")
    BY <1>8 DEF Receives, OnBatchResult, OnExecutionGroup, OnExecutionReport, OnVectorClearingResult,
       OnLiquidityCurve, OnMarketDataRaw, OnFillEvent, OnVenueSnapshot, OnOrderCreate, OnOrderCancel,
       OrderFilled, SaveRows, Message
  <2>2. mdJob' = mdJob \/ mdJob'.at \notin {"drop", "repush"}
    BY <1>8 DEF Receives, OnBatchResult, OnExecutionGroup, OnExecutionReport, OnVectorClearingResult,
       OnLiquidityCurve, OnMarketDataRaw, OnFillEvent, OnVenueSnapshot, OnOrderCreate, OnOrderCancel,
       OrderFilled, SaveRows, JobIdle
  <2> QED
    BY <1>1, <2>1, <2>2
<1>9. CASE Sweeper \/ Ages \/ PersistDue
           \/ (\E s \in Streams : StreamReads(s) \/ StreamSubscribes(s) \/ StreamReturns(s))
           \/ UNCHANGED mdVars
  BY <1>1, <1>9 DEF Sweeper, MarkStale, SweeperCalls, SweeperUnlocks, Ages, PersistDue,
     StreamReads, StreamSubscribes, StreamReturns, mdVars
<1> QED
  BY <1>3, <1>4, <1>5, <1>6, <1>7, <1>8, <1>9 DEF MdNext

LEMMA SegmentsInvStep == ASSUME SegmentsInv, [MdNext]_mdVars PROVE SegmentsInv'
<1>1. CASE OnLiquidityCurve
  BY <1>1 DEF OnLiquidityCurve, SegmentsInv
<1>2. CASE segments' = segments
  BY <1>2 DEF SegmentsInv
<1> QED
  BY <1>1, <1>2 DEF MdNext, mdVars, Receives, Handles, Sweeper, Publish, PublishDrops, PublishAgain,
     PublishBBO, FromVenueSnapshot, NextAsset, BatchUpdatesBook, SaveBatch, ReadConfig, StoreSnapshot,
     StoreAgain, PauseSnapshot, Broadcast, BroadcastCalls, SnapshotDone, OnBatchResult, OnExecutionGroup,
     OnExecutionReport, OnVectorClearingResult, SaveRows, OnMarketDataRaw, OnFillEvent, OnVenueSnapshot,
     OnOrderCreate, OnOrderCancel, OrderFilled, MarkStale, SweeperCalls, SweeperUnlocks, Ages, PersistDue,
     GetLiveMarketSnapshots, StreamReads, StreamSubscribes, StreamReturns

LEMMA ControlStep ==
  ASSUME MdAssumption, MdShaped, JobInv, CacheInv, [MdNext]_mdVars
  PROVE  MdShaped' /\ JobInv' /\ CacheInv'
<1>1. CASE Handles
  BY <1>1, PublishStep, PublishDropsStep, PublishAgainStep, PublishBBOStep, FromVenueSnapshotStep, NextAssetStep,
     BatchUpdatesBookStep, SaveBatchStep, ReadConfigStep, StoreSnapshotStep, StoreAgainStep, PauseSnapshotStep,
     BroadcastStep, BroadcastCallsStep, SnapshotDoneStep DEF Handles
<1>2. CASE Receives
  BY <1>2, OnBatchResultStep, OnMarketDataRawStep, OnVenueSnapshotStep, MessageStep, MdOrderStep DEF Receives
<1>3. CASE Sweeper
  BY <1>3, MarkStaleStep, SweeperCallsStep, SweeperUnlocksStep DEF Sweeper
<1>4. CASE \E s \in Streams : StreamReads(s) \/ StreamSubscribes(s) \/ StreamReturns(s)
  BY <1>4, StreamReadsStep, StreamSubscribesStep, StreamReturnsStep
<1>5. CASE GetLiveMarketSnapshots \/ UNCHANGED mdVars
  BY <1>5, MdQuietStep DEF GetLiveMarketSnapshots, mdVars
<1> QED
  BY <1>1, <1>2, <1>3, <1>4, <1>5, AgesStep, PersistDueStep DEF MdNext

LEMMA MdInvStep == ASSUME MdAssumption, MdInv, [MdNext]_mdVars PROVE MdInv'
  BY ControlStep, BooksStep, ChannelStep, SegmentsInvStep DEF MdInv

LEMMA MdInvImplies ==
  ASSUME MdAssumption, MdInv PROVE MdTypeOK /\ NewestNeverDropped /\ SegmentsCoverCurve
<1>1. MdTypeOK
  BY DEF MdInv, MdShaped, Jobs, BooksShaped, ChannelInv, MdTypeOK
<1>2. NewestNeverDropped
  <2>1. CASE channel.queue = <<>>
    BY <2>1 DEF MdInv, ChannelInv, NewestIsLast, NewestNeverDropped
  <2>2. CASE channel.queue # <<>>
    <3>1. channel.queue \in Seq(Nat)
      BY DEF MdInv, ChannelInv
    <3>2. Len(channel.queue) \in DOMAIN channel.queue
      BY <2>2, <3>1
    <3>3. channel.queue[Len(channel.queue)] \in ToSet(channel.queue)
      BY <3>2 DEF ToSet
    <3> QED
      BY <2>2, <3>3 DEF MdInv, ChannelInv, NewestIsLast, NewestNeverDropped
  <2> QED
    BY <2>1, <2>2
<1>3. SegmentsCoverCurve
  <2>1. segments.curve \in [{"bid", "ask"} -> Seq(Nat \X Nat)]
    <3>1. NoCurve \in [{"bid", "ask"} -> Seq(Nat \X Nat)]
      BY DEF NoCurve
    <3> QED
      BY <3>1 DEF MdInv, SegmentsInv, MdAssumption
  <2>2. \A side \in {"bid", "ask"} : Cumulative(segments.curve[side])
    BY DEF MdInv, SegmentsInv, NoCurve, MdAssumption, Cumulative
  <2> QED
    BY <2>1, <2>2, SegmentsAreCurve DEF MdInv, SegmentsInv, SegmentsCoverCurve
<1> QED
  BY <1>1, <1>2, <1>3

(* A step of the service shows no stream an older snapshot.                *)
LEMMA ForwardStep ==
  ASSUME MdAssumption, MdInv, [MdNext]_mdVars PROVE \A s \in Streams : view'[s].n >= view[s].n
<1> USE DEF MdInv
<1>0. Watched \in Assets /\ (\A s \in Streams : view[s].n \in Nat /\ view[s].n <= mdLast[Watched].n)
  BY WatchedIsAsset DEF CacheInv, MdShaped, Snapshots
<1>1. CASE view' = view
  BY <1>0, <1>1
<1>2. ASSUME NEW s \in Streams, StreamReads(s) PROVE \A t \in Streams : view'[t].n >= view[t].n
  BY <1>0, <1>2 DEF StreamReads, Writes, MdShaped
<1>3. CASE SweeperCalls
  BY <1>0, <1>3 DEF SweeperCalls, Writes, CacheInv, MdShaped
<1>4. CASE BroadcastCalls
  BY <1>0, <1>4 DEF BroadcastCalls, Writes, CacheInv, MdShaped
<1> QED
  BY <1>1, <1>2, <1>3, <1>4 DEF MdNext, mdVars, Receives, Handles, Sweeper, Publish, PublishDrops,
     PublishAgain, PublishBBO, FromVenueSnapshot, NextAsset, BatchUpdatesBook, SaveBatch, ReadConfig,
     StoreSnapshot, StoreAgain, PauseSnapshot, Broadcast, SnapshotDone, OnBatchResult, OnExecutionGroup,
     OnExecutionReport, OnVectorClearingResult, OnLiquidityCurve, SaveRows, OnMarketDataRaw, OnFillEvent,
     OnVenueSnapshot, OnOrderCreate, OnOrderCancel, OrderFilled, MarkStale, SweeperUnlocks, Ages, PersistDue,
     GetLiveMarketSnapshots, StreamSubscribes, StreamReturns, streamVars

LEMMA InternalStep ==
  ASSUME MdAssumption, MdInv, [MdNext]_mdVars
  PROVE  \A a \in Assets : mdLast[a].src = "internal" /\ ~mdLast[a].stale => mdLast'[a].src = "internal"
<1> USE DEF MdInv
<1>1. CASE mdLast' = mdLast
  BY <1>1
<1>2. ASSUME NEW a \in Assets, MarkStale(a)
      PROVE  \A b \in Assets : mdLast[b].src = "internal" /\ ~mdLast[b].stale => mdLast'[b].src = "internal"
  BY <1>2 DEF MarkStale, MdShaped, Snapshots
<1>3. CASE StoreSnapshot \/ StoreAgain \/ PauseSnapshot
  BY <1>3 DEF StoreSnapshot, StoreAgain, PauseSnapshot, CacheInv, JobInv, SnapSteps, HasFreshInternal, MdShaped
<1> QED
  BY <1>1, <1>2, <1>3 DEF MdNext, mdVars, cacheVars, Receives, Handles, Sweeper, Publish, PublishDrops,
     PublishAgain, PublishBBO, FromVenueSnapshot, NextAsset, BatchUpdatesBook, SaveBatch, ReadConfig,
     Broadcast, BroadcastCalls, SnapshotDone, OnBatchResult, OnExecutionGroup,
     OnExecutionReport, OnVectorClearingResult, OnLiquidityCurve, SaveRows, OnMarketDataRaw, OnFillEvent,
     OnVenueSnapshot, OnOrderCreate, OnOrderCancel, OrderFilled, SweeperCalls, SweeperUnlocks, Ages, PersistDue,
     GetLiveMarketSnapshots, StreamReads, StreamSubscribes, StreamReturns

(* MdSafety for any assets, venues, streams and curves: a channel loses    *)
(* old books only, segments are their curve, no stream goes back, and a    *)
(* fresh internal snapshot gives way to internal ones only.                *)
THEOREM MarketDataIsSafe == ASSUME MdAssumption PROVE MdSpec => MdSafety
<1>1. MdInit => MdInv
  BY MdInitInv
<1>2. MdInv /\ [MdNext]_mdVars => MdInv'
  BY MdInvStep
<1>3. MdInv => MdTypeOK /\ NewestNeverDropped /\ SegmentsCoverCurve
  BY MdInvImplies
<1>4. MdInv /\ [MdNext]_mdVars => [\A s \in Streams : view'[s].n >= view[s].n]_mdVars
  BY ForwardStep
<1>5. MdInv /\ [MdNext]_mdVars
        => [\A a \in Assets : mdLast[a].src = "internal" /\ ~mdLast[a].stale => mdLast'[a].src = "internal"]_mdVars
  BY InternalStep
<1> QED
  BY <1>1, <1>2, <1>3, <1>4, <1>5, PTL DEF MdSpec, MdSafety, StreamNeverGoesBack, InternalFirst
=============================================================================

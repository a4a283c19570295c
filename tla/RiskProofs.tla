---------------------------- MODULE RiskProofs ----------------------------
(***************************************************************************)
(* The risk service for every set of users, venues, batches and limits:    *)
(* the two callers of OnBatchResult, the ledger's writes between their     *)
(* transactions, failures and restarts never give a user two snapshots or  *)
(* two margin alerts of a batch, and the exposures stay within the limit.  *)
(***************************************************************************)
EXTENDS Risk, FiniteSetTheorems, TLAPS

Margins == {"none", "liquidation", "margin_call", "throttled", "fine"}
Stages  == {"idle", "next", "positions", "collateral", "rates", "insert", "alert"}
Rows    == [user : RiskUsers, batch : DOMAIN RiskBatches, m : Margins]

WorkShaped ==
  work \in [Callers -> [pc : Stages, batch : Nat, users : SUBSET RiskUsers,
                        user : RiskUsers \cup {"none"},
                        book : [free : Int, pnl : Int, notional : Int], m : Margins]]

(* A caller holds a batch of the stream, the consumer the one after its    *)
(* committed offset, and from "positions" on a user.                       *)
CallersBacked ==
  \A c \in Callers :
    /\ work[c].pc # "idle" => work[c].batch \in DOMAIN RiskBatches
    /\ work[c].pc \notin {"idle", "next"} => work[c].user \in RiskUsers
    /\ c = "kafka" /\ work[c].pc # "idle" => work[c].batch = riskOffset + 1

(* One row of a user and batch: the conflict target of the insert.         *)
RowsUnique ==
  /\ snapshots \subseteq Rows
  /\ \A s, t \in snapshots : s.user = t.user /\ s.batch = t.batch => s = t

(* An alert sent has its row; one about to be sent has its row too and is  *)
(* the first, and no two callers are about to send the same.               *)
Calls(u, b) == \E s \in snapshots : s.user = u /\ s.batch = b /\ Alerting(s.m)
AlertsBacked ==
  /\ \A u \in RiskUsers, b \in DOMAIN RiskBatches :
       marginAlerts[<<u, b>>] = 0 \/ (marginAlerts[<<u, b>>] = 1 /\ Calls(u, b))
  /\ \A c \in Callers : work[c].pc = "alert" =>
       /\ Calls(work[c].user, work[c].batch)
       /\ marginAlerts[<<work[c].user, work[c].batch>>] = 0
  /\ \A c, d \in Callers :
       work[c].pc = "alert" /\ work[d].pc = "alert"
       /\ work[c].user = work[d].user /\ work[c].batch = work[d].batch => c = d

RiskInv == RiskTypeOK /\ WorkShaped /\ CallersBacked /\ RowsUnique /\ AlertsBacked
-----------------------------------------------------------------------------
(* The margin of a book is one of the five, whatever the rates.            *)
LEMMA MarginIsMargin == ASSUME NEW b, NEW rates PROVE MarginOf(b, rates) \in Margins
  BY DEF MarginOf, Margins

LEMMA BooksHaveNumbers == UserBooks \subseteq [free : Nat, pnl : Int, notional : Nat]
  BY RiskAssumption

LEMMA BatchOfUsers == ASSUME NEW b \in DOMAIN RiskBatches
                      PROVE  b \in Nat /\ RiskBatches[b] \subseteq RiskUsers
  BY RiskAssumption

LEMMA RiskInitInv == RiskInit => RiskInv
<1> SUFFICES ASSUME RiskInit PROVE RiskInv
  OBVIOUS
<1>1. RiskTypeOK
  BY RiskAssumption DEF RiskInit, RiskTypeOK, Keys
<1>2. WorkShaped
  BY DEF RiskInit, WorkShaped, NoWork, NoUserBook, Stages, Margins
<1>3. CallersBacked
  BY DEF RiskInit, CallersBacked, NoWork
<1>4. RowsUnique
  BY DEF RiskInit, RowsUnique
<1>5. AlertsBacked
  BY DEF RiskInit, AlertsBacked, NoWork, Keys
<1> QED
  BY <1>1, <1>2, <1>3, <1>4, <1>5 DEF RiskInv

(* Messages, the operator, the ledger and a stutter leave the callers and  *)
(* the tables of the service alone.                                        *)
LEMMA InputStep ==
  ASSUME RiskInv, RiskTypeOK', UNCHANGED <<work, riskOffset, snapshots, marginAlerts>>
  PROVE  RiskInv'
  BY DEF RiskInv, WorkShaped, CallersBacked, RowsUnique, AlertsBacked, Calls

LEMMA KillSwitchStep ==
  ASSUME RiskInv, NEW sym \in Symbols \cup {"*"}, NEW on \in BOOLEAN, SetKillSwitch(sym, on)
  PROVE  RiskInv'
<1>1. halted' \subseteq Symbols \cup {"*"}
  BY DEF SetKillSwitch, RiskInv, RiskTypeOK
<1> QED
  BY <1>1, InputStep DEF SetKillSwitch, RiskInv, RiskTypeOK

LEMMA HealthStep ==
  ASSUME RiskInv, NEW v \in RiskVenues, NEW h \in Healths, HealthChecks(v, h)
  PROVE  RiskInv'
<1>1. gate' \in [RiskVenues -> Healths \cup {NoHealth}]
  BY DEF HealthChecks, RiskInv, RiskTypeOK
<1> QED
  BY <1>1, InputStep DEF HealthChecks, RiskInv, RiskTypeOK

(* An exposure moves only to a value within the limit.                     *)
LEMMA SyntheticStep ==
  ASSUME RiskInv, NEW o \in Synthetics, OnSyntheticOrder(o)
  PROVE  RiskInv'
<1>1. o.venue \in RiskVenues /\ o.cost \in Int
  BY RiskAssumption
<1> DEFINE new == exposures[o.venue] + o.cost
           next == IF Magnitude(new) <= MaxExposure THEN new ELSE exposures[o.venue]
<1>2. new \in Int /\ exposures[o.venue] \in -MaxExposure..MaxExposure
  BY <1>1, RiskAssumption DEF RiskInv, RiskTypeOK
<1>3. next \in -MaxExposure..MaxExposure
  <2> HIDE DEF new
  <2> QED
    BY <1>2, RiskAssumption DEF Magnitude
<1>4. exposures' = [exposures EXCEPT ![o.venue] = next]
  BY DEF OnSyntheticOrder
<1>5. exposures' \in [RiskVenues -> -MaxExposure..MaxExposure]
  <2> HIDE DEF next
  <2> QED
    BY <1>1, <1>3, <1>4 DEF RiskInv, RiskTypeOK
<1> QED
  BY <1>5, InputStep DEF OnSyntheticOrder, RiskInv, RiskTypeOK

LEMMA LedgerStep ==
  ASSUME RiskInv, NEW u \in RiskUsers, NEW b \in UserBooks, LedgerWrites(u, b)
  PROVE  RiskInv'
<1>1. books' \in [RiskUsers -> UserBooks]
  BY DEF LedgerWrites, RiskInv, RiskTypeOK
<1> QED
  BY <1>1, InputStep DEF LedgerWrites, RiskInv, RiskTypeOK

(* A caller that moves between two stages other than "alert", on the same  *)
(* batch, disturbs no table.                                               *)
LEMMA CallerMoves ==
  ASSUME RiskInv, NEW c \in Callers, UnchangedBelow, UNCHANGED <<riskOffset, snapshots, marginAlerts>>,
         NEW x, work' = [work EXCEPT ![c] = x],
         x \in [pc : Stages, batch : Nat, users : SUBSET RiskUsers,
                user : RiskUsers \cup {"none"},
                book : [free : Int, pnl : Int, notional : Int], m : Margins],
         x.pc # "alert",
         x.pc # "idle" => x.batch \in DOMAIN RiskBatches /\ (c = "kafka" => x.batch = riskOffset + 1),
         x.pc \notin {"idle", "next"} => x.user \in RiskUsers
  PROVE  RiskInv'
<1>1. RiskTypeOK' /\ RowsUnique'
  BY DEF RiskInv, RiskTypeOK, RowsUnique, UnchangedBelow
<1>2. WorkShaped'
  BY DEF RiskInv, WorkShaped
<1>3. /\ work'[c] = x
      /\ \A d \in Callers : d # c => work'[d] = work[d]
  BY DEF RiskInv, WorkShaped
<1>4. CallersBacked'
  BY <1>3 DEF RiskInv, CallersBacked
<1>5. AlertsBacked'
  BY <1>3, SMTT(30) DEF RiskInv, AlertsBacked, Calls
<1> QED
  BY <1>1, <1>2, <1>4, <1>5 DEF RiskInv

LEMMA TakeStep ==
  ASSUME RiskInv, NEW c \in Callers, NEW b, TakeBatch(c, b)
  PROVE  RiskInv'
<1> DEFINE x == [NoWork EXCEPT !.pc = "next", !.batch = b, !.users = RiskBatches[b]]
<1>1. b \in DOMAIN RiskBatches /\ b \in Nat /\ RiskBatches[b] \subseteq RiskUsers
  BY BatchOfUsers DEF TakeBatch
<1>2. x \in [pc : Stages, batch : Nat, users : SUBSET RiskUsers, user : RiskUsers \cup {"none"},
             book : [free : Int, pnl : Int, notional : Int], m : Margins]
  <2>1. NoWork \in [pc : Stages, batch : Nat, users : SUBSET RiskUsers, user : RiskUsers \cup {"none"},
                    book : [free : Int, pnl : Int, notional : Int], m : Margins]
    BY DEF NoWork, NoUserBook, Stages, Margins
  <2> QED
    BY <1>1, <2>1 DEF Stages
<1>3. x.pc = "next" /\ x.batch = b
  BY DEF NoWork
<1>4. work' = [work EXCEPT ![c] = x] /\ (c = "kafka" => b = riskOffset + 1)
  BY DEF TakeBatch
<1>5. UnchangedBelow /\ UNCHANGED <<riskOffset, snapshots, marginAlerts>>
  BY DEF TakeBatch
<1> HIDE DEF x
<1> QED
  BY <1>1, <1>2, <1>3, <1>4, <1>5, CallerMoves

LEMMA UserStep ==
  ASSUME RiskInv, NEW c \in Callers, NEW u \in RiskUsers, NextUser(c, u)
  PROVE  RiskInv'
<1> DEFINE x == [work[c] EXCEPT !.pc = "positions", !.user = u, !.users = @ \ {u}]
<1>1. x \in [pc : Stages, batch : Nat, users : SUBSET RiskUsers, user : RiskUsers \cup {"none"},
             book : [free : Int, pnl : Int, notional : Int], m : Margins]
  BY DEF RiskInv, WorkShaped, Stages
<1>2. x.pc = "positions" /\ x.batch = work[c].batch /\ x.user = u /\ work[c].pc = "next"
  BY DEF RiskInv, WorkShaped, NextUser, CallerAt
<1>3. work' = [work EXCEPT ![c] = x]
  BY DEF NextUser, RiskInv, WorkShaped
<1>4. UnchangedBelow /\ UNCHANGED <<riskOffset, snapshots, marginAlerts>>
  BY DEF NextUser
<1>5. work[c].batch \in DOMAIN RiskBatches /\ (c = "kafka" => work[c].batch = riskOffset + 1)
  BY <1>2 DEF RiskInv, CallersBacked
<1> HIDE DEF x
<1> QED
  BY <1>1, <1>2, <1>3, <1>4, <1>5, CallerMoves

(* The reads in between: the caller goes from one stage to a later one     *)
(* with its batch and user and a new book or margin.                       *)
LEMMA ReadingStep ==
  ASSUME RiskInv, NEW c \in Callers, work[c].pc \in {"positions", "collateral", "rates", "insert"},
         UnchangedBelow, UNCHANGED <<riskOffset, snapshots, marginAlerts>>,
         NEW stage \in {"next", "collateral", "rates", "insert"},
         NEW book \in [free : Int, pnl : Int, notional : Int], NEW m \in Margins,
         work' = [work EXCEPT ![c] = [work[c] EXCEPT !.pc = stage, !.book = book, !.m = m]]
  PROVE  RiskInv'
<1> DEFINE x == [work[c] EXCEPT !.pc = stage, !.book = book, !.m = m]
<1>1. x \in [pc : Stages, batch : Nat, users : SUBSET RiskUsers, user : RiskUsers \cup {"none"},
             book : [free : Int, pnl : Int, notional : Int], m : Margins]
  BY DEF RiskInv, WorkShaped, Stages
<1>2. x.pc = stage /\ x.batch = work[c].batch /\ x.user = work[c].user
  BY DEF RiskInv, WorkShaped
<1>3. /\ work[c].batch \in DOMAIN RiskBatches /\ (c = "kafka" => work[c].batch = riskOffset + 1)
      /\ work[c].user \in RiskUsers
  BY DEF RiskInv, CallersBacked
<1> HIDE DEF x
<1>4. work' = [work EXCEPT ![c] = x]
  BY DEF x
<1> QED
  BY <1>1, <1>2, <1>3, <1>4, CallerMoves

(* The book a caller holds has numbers in every field.                     *)
LEMMA HeldBook ==
  ASSUME RiskInv, NEW c \in Callers
  PROVE  work[c].book \in [free : Int, pnl : Int, notional : Int] /\ work[c].m \in Margins
  BY DEF RiskInv, WorkShaped

LEMMA PositionsStep ==
  ASSUME RiskInv, NEW c \in Callers, ReadPositions(c)
  PROVE  RiskInv'
<1> DEFINE b == books[work[c].user]
<1>1. work[c].pc = "positions" /\ work[c].user \in RiskUsers
  BY DEF ReadPositions, CallerAt, RiskInv, CallersBacked
<1>2. b \in [free : Int, pnl : Int, notional : Int]
  BY <1>1, BooksHaveNumbers DEF RiskInv, RiskTypeOK
<1>3. PICK book \in [free : Int, pnl : Int, notional : Int] :
        work' = [work EXCEPT ![c].pc = "collateral", ![c].book = book]
  <2>1. NoUserBook \in [free : Int, pnl : Int, notional : Int]
    BY DEF NoUserBook
  <2>2. [NoUserBook EXCEPT !.pnl = b.pnl, !.notional = b.notional] \in [free : Int, pnl : Int, notional : Int]
    BY <1>2, <2>1
  <2> QED
    BY <2>1, <2>2 DEF ReadPositions
<1>4. work' = [work EXCEPT ![c] = [work[c] EXCEPT !.pc = "collateral", !.book = book, !.m = work[c].m]]
  BY <1>3 DEF RiskInv, WorkShaped
<1>5. UnchangedBelow /\ UNCHANGED <<riskOffset, snapshots, marginAlerts>>
  BY DEF ReadPositions
<1> QED
  BY <1>1, <1>4, <1>5, HeldBook, ReadingStep

LEMMA CollateralStep ==
  ASSUME RiskInv, NEW c \in Callers, LoadCollateral(c)
  PROVE  RiskInv'
<1>1. work[c].pc = "collateral" /\ work[c].user \in RiskUsers
  BY DEF LoadCollateral, CallerAt, RiskInv, CallersBacked
<1>2. books[work[c].user].free \in Int
  BY <1>1, BooksHaveNumbers DEF RiskInv, RiskTypeOK
<1>3. PICK book \in [free : Int, pnl : Int, notional : Int] :
        work' = [work EXCEPT ![c] = [work[c] EXCEPT !.pc = "rates", !.book = book, !.m = work[c].m]]
  <2>1. CASE work' = [work EXCEPT ![c].pc = "rates"]
    <3>1. work' = [work EXCEPT ![c] = [work[c] EXCEPT !.pc = "rates", !.book = work[c].book, !.m = work[c].m]]
      BY <2>1 DEF RiskInv, WorkShaped
    <3> QED
      BY <3>1, HeldBook
  <2>2. CASE work' = [work EXCEPT ![c].pc = "rates", ![c].book.free = books[work[c].user].free]
    <3> DEFINE book == [work[c].book EXCEPT !.free = books[work[c].user].free]
    <3>1. book \in [free : Int, pnl : Int, notional : Int]
      BY <1>2, HeldBook
    <3>2. work' = [work EXCEPT ![c] = [work[c] EXCEPT !.pc = "rates", !.book = book, !.m = work[c].m]]
      BY <2>2 DEF RiskInv, WorkShaped
    <3> QED
      BY <3>1, <3>2
  <2> QED
    BY <2>1, <2>2 DEF LoadCollateral
<1>4. UnchangedBelow /\ UNCHANGED <<riskOffset, snapshots, marginAlerts>>
  BY DEF LoadCollateral
<1> QED
  BY <1>1, <1>3, <1>4, HeldBook, ReadingStep

LEMMA RatesStep ==
  ASSUME RiskInv, NEW c \in Callers, ReadRates(c)
  PROVE  RiskInv'
<1>1. PICK m \in Margins : work' = [work EXCEPT ![c].pc = "insert", ![c].m = m]
  BY MarginIsMargin DEF ReadRates
<1>2. work' = [work EXCEPT ![c] = [work[c] EXCEPT !.pc = "insert", !.book = work[c].book, !.m = m]]
  BY <1>1 DEF RiskInv, WorkShaped
<1>3. /\ UnchangedBelow /\ UNCHANGED <<riskOffset, snapshots, marginAlerts>>
      /\ work[c].pc = "rates"
  BY DEF ReadRates, CallerAt
<1> QED
  BY <1>2, <1>3, HeldBook, ReadingStep

(* The insert: the row is new exactly when no row of the user and batch is *)
(* there, and then nobody has alerted for it or is about to.               *)
LEMMA InsertStep ==
  ASSUME RiskInv, NEW c \in Callers, InsertSnapshot(c)
  PROVE  RiskInv'
<1> DEFINE x == work[c]
           row == [user |-> x.user, batch |-> x.batch, m |-> x.m]
<1>0. /\ x.pc = "insert" /\ x.user \in RiskUsers /\ x.batch \in DOMAIN RiskBatches
      /\ c = "kafka" => x.batch = riskOffset + 1
  BY DEF InsertSnapshot, CallerAt, RiskInv, CallersBacked
<1>1. UnchangedBelow /\ UNCHANGED <<riskOffset, marginAlerts>>
  BY DEF InsertSnapshot
<1>2. CASE UNCHANGED snapshots /\ work' = [work EXCEPT ![c].pc = "next"]
  <2>1. work' = [work EXCEPT ![c] = [work[c] EXCEPT !.pc = "next", !.book = work[c].book, !.m = work[c].m]]
    BY <1>2 DEF RiskInv, WorkShaped
  <2>2. UNCHANGED <<riskOffset, snapshots, marginAlerts>> /\ work[c].pc = "insert"
    BY <1>0, <1>1, <1>2
  <2> QED
    BY <1>1, <2>1, <2>2, HeldBook, ReadingStep
<1>3. CASE /\ ~Conflicts(x.user, x.batch)
           /\ snapshots' = snapshots \cup {row}
           /\ work' = [work EXCEPT ![c].pc = IF Alerting(x.m) THEN "alert" ELSE "next"]
  <2>1. /\ work'[c].pc = IF Alerting(x.m) THEN "alert" ELSE "next"
        /\ work'[c].user = x.user /\ work'[c].batch = x.batch
        /\ \A d \in Callers : d # c => work'[d] = work[d]
    BY <1>3 DEF RiskInv, WorkShaped
  <2>2. RiskTypeOK' /\ WorkShaped'
    <3>1. RiskTypeOK'
      BY <1>1 DEF RiskInv, RiskTypeOK, UnchangedBelow
    <3>2. PICK stage \in Stages : work' = [work EXCEPT ![c].pc = stage]
      BY <1>3 DEF Stages
    <3>3. WorkShaped'
      BY <3>2 DEF RiskInv, WorkShaped
    <3> QED
      BY <3>1, <3>3
  <2>3. CallersBacked'
    BY <1>0, <1>1, <2>1 DEF RiskInv, CallersBacked
  <2>4. row \in Rows /\ row.user = x.user /\ row.batch = x.batch /\ row.m = x.m
    BY <1>0, HeldBook DEF Rows
  <2>5. \A s \in snapshots : ~(s.user = x.user /\ s.batch = x.batch)
    BY <1>3 DEF Conflicts
  <2> HIDE DEF row
  <2>6. RowsUnique'
    BY <1>3, <2>4, <2>5 DEF RiskInv, RowsUnique
  <2>7. AlertsBacked'
    <3>1. \A u, b : Calls(u, b) => Calls(u, b)'
      BY <1>3 DEF Calls
    <3>2. ~Calls(x.user, x.batch)
      BY <2>5 DEF Calls
    <3>3. marginAlerts[<<x.user, x.batch>>] = 0
      BY <1>0, <3>2 DEF RiskInv, AlertsBacked
    <3>4. \A d \in Callers : work[d].pc = "alert" => ~(work[d].user = x.user /\ work[d].batch = x.batch)
      BY <3>2 DEF RiskInv, AlertsBacked
    <3>5. Alerting(x.m) => Calls(x.user, x.batch)'
      BY <1>3, <2>4 DEF Calls
    <3> QED
      BY <1>1, <2>1, <3>1, <3>3, <3>4, <3>5 DEF RiskInv, AlertsBacked
  <2> QED
    BY <2>2, <2>3, <2>6, <2>7 DEF RiskInv
<1> QED
  BY <1>2, <1>3 DEF InsertSnapshot

(* The alert is the first and only one of its user and batch.              *)
LEMMA AlertStep ==
  ASSUME RiskInv, NEW c \in Callers, PublishMarginAlert(c)
  PROVE  RiskInv'
<1> DEFINE u == work[c].user
           b == work[c].batch
<1>0. /\ work[c].pc = "alert" /\ u \in RiskUsers /\ b \in DOMAIN RiskBatches
      /\ c = "kafka" => b = riskOffset + 1
      /\ UnchangedBelow /\ UNCHANGED <<riskOffset, snapshots>>
  BY DEF PublishMarginAlert, CallerAt, RiskInv, CallersBacked
<1>1. /\ work'[c].pc = "next" /\ work'[c].user = u /\ work'[c].batch = b
      /\ \A d \in Callers : d # c => work'[d] = work[d]
      /\ WorkShaped'
  <2> DEFINE x == [work[c] EXCEPT !.pc = "next"]
  <2>1. work' = [work EXCEPT ![c] = x] /\ WorkShaped
    BY DEF PublishMarginAlert, RiskInv
  <2>2. /\ x \in [pc : Stages, batch : Nat, users : SUBSET RiskUsers, user : RiskUsers \cup {"none"},
                   book : [free : Int, pnl : Int, notional : Int], m : Margins]
        /\ x.pc = "next" /\ x.user = u /\ x.batch = b
    BY <2>1 DEF WorkShaped, Stages
  <2> HIDE DEF x, u, b
  <2> QED
    BY <2>1, <2>2 DEF WorkShaped
<1>2. marginAlerts[<<u, b>>] = 0 /\ Calls(u, b)
  BY <1>0 DEF RiskInv, AlertsBacked
<1>3. marginAlerts' = [marginAlerts EXCEPT ![<<u, b>>] = 1]
  BY <1>2 DEF PublishMarginAlert
<1>4. /\ marginAlerts' \in [Keys -> Nat] /\ marginAlerts'[<<u, b>>] = 1
      /\ \A k \in Keys : k # <<u, b>> => marginAlerts'[k] = marginAlerts[k]
  BY <1>0, <1>3 DEF RiskInv, RiskTypeOK, Keys
<1> HIDE DEF u, b
<1>5. RiskTypeOK' /\ RowsUnique'
  BY <1>0, <1>4 DEF RiskInv, RiskTypeOK, RowsUnique, UnchangedBelow
<1>6. CallersBacked'
  BY <1>0, <1>1 DEF RiskInv, CallersBacked
<1>7. AlertsBacked'
  <2>1. \A v, e : Calls(v, e)' <=> Calls(v, e)
    BY <1>0 DEF Calls
  <2>2. ASSUME NEW v \in RiskUsers, NEW e \in DOMAIN RiskBatches
        PROVE  marginAlerts'[<<v, e>>] = 0 \/ (marginAlerts'[<<v, e>>] = 1 /\ Calls(v, e)')
    <3>1. CASE <<v, e>> = <<u, b>>
      BY <1>2, <1>4, <2>1, <3>1
    <3>2. CASE <<v, e>> # <<u, b>>
      BY <1>4, <2>1, <3>2 DEF RiskInv, AlertsBacked, Keys
    <3> QED
      BY <3>1, <3>2
  <2>3. ASSUME NEW d \in Callers, work'[d].pc = "alert"
        PROVE  /\ Calls(work[d].user, work[d].batch)
               /\ marginAlerts'[<<work[d].user, work[d].batch>>] = 0
               /\ work'[d] = work[d]
    <3>1. d # c /\ work'[d] = work[d]
      BY <1>1, <2>3
    <3>2. /\ Calls(work[d].user, work[d].batch) /\ marginAlerts[<<work[d].user, work[d].batch>>] = 0
          /\ work[d].user \in RiskUsers /\ work[d].batch \in DOMAIN RiskBatches
      BY <2>3, <3>1 DEF RiskInv, AlertsBacked, CallersBacked
    <3>3. <<work[d].user, work[d].batch>> # <<u, b>>
      BY <1>0, <2>3, <3>1 DEF RiskInv, AlertsBacked, u, b
    <3> QED
      BY <1>4, <3>1, <3>2, <3>3 DEF Keys
  <2>4. \A d, e \in Callers :
          work'[d].pc = "alert" /\ work'[e].pc = "alert"
          /\ work'[d].user = work'[e].user /\ work'[d].batch = work'[e].batch => d = e
    <3> SUFFICES ASSUME NEW d \in Callers, NEW e \in Callers,
                        work'[d].pc = "alert", work'[e].pc = "alert",
                        work'[d].user = work'[e].user, work'[d].batch = work'[e].batch
                 PROVE  d = e
      OBVIOUS
    <3>1. work'[d] = work[d] /\ work'[e] = work[e]
      BY <2>3
    <3> QED
      BY <3>1 DEF RiskInv, AlertsBacked
  <2> QED
    BY <2>1, <2>2, <2>3, <2>4 DEF AlertsBacked
<1> QED
  BY <1>1, <1>5, <1>6, <1>7 DEF RiskInv

(* The batch is done: the consumer commits it.                             *)
LEMMA EndStep ==
  ASSUME RiskInv, NEW c \in Callers, EndBatch(c)
  PROVE  RiskInv'
<1>1. /\ work'[c] = NoWork /\ \A d \in Callers : d # c => work'[d] = work[d]
      /\ WorkShaped'
  BY DEF EndBatch, RiskInv, WorkShaped, NoWork, NoUserBook, Stages, Margins
<1>2. riskOffset' \in 0..Len(RiskBatches)
  <2>1. c = "kafka" => riskOffset + 1 \in DOMAIN RiskBatches
    BY DEF EndBatch, CallerAt, RiskInv, CallersBacked
  <2> QED
    BY <2>1, RiskAssumption DEF EndBatch, RiskInv, RiskTypeOK
<1>3. RiskTypeOK' /\ RowsUnique'
  BY <1>2 DEF EndBatch, RiskInv, RiskTypeOK, RowsUnique, UnchangedBelow
<1>4. CallersBacked'
  BY <1>1 DEF EndBatch, RiskInv, CallersBacked, NoWork
<1>5. AlertsBacked'
  <2>1. work'[c].pc # "alert"
    BY <1>1 DEF NoWork
  <2> QED
    BY <1>1, <2>1 DEF EndBatch, RiskInv, AlertsBacked, Calls
<1> QED
  BY <1>1, <1>3, <1>4, <1>5 DEF RiskInv

LEMMA RestartStep == RiskInv /\ RestartRisk => RiskInv'
<1> SUFFICES ASSUME RiskInv, RestartRisk PROVE RiskInv'
  OBVIOUS
<1>1. \A c \in Callers : work'[c] = NoWork
  BY DEF RestartRisk
<1>2. RiskTypeOK' /\ RowsUnique'
  BY RiskAssumption DEF RestartRisk, RiskInv, RiskTypeOK, RowsUnique
<1>3. WorkShaped'
  BY DEF RestartRisk, WorkShaped, NoWork, NoUserBook, Stages, Margins
<1>4. CallersBacked' /\ AlertsBacked'
  BY <1>1 DEF RestartRisk, RiskInv, CallersBacked, AlertsBacked, Calls, NoWork
<1> QED
  BY <1>2, <1>3, <1>4 DEF RiskInv

LEMMA RiskStep == RiskInv /\ [RiskNext]_riskVars => RiskInv'
<1> SUFFICES ASSUME RiskInv, [RiskNext]_riskVars PROVE RiskInv'
  OBVIOUS
<1>1. ASSUME NEW c \in Callers, Assess(c) PROVE RiskInv'
  BY <1>1, UserStep, PositionsStep, CollateralStep, RatesStep, InsertStep, AlertStep, EndStep
  DEF Assess
<1>2. CASE UNCHANGED riskVars
  BY <1>2, InputStep DEF riskVars, RiskInv, RiskTypeOK
<1>3. CASE BatchConsumer
  BY <1>1, <1>3, TakeStep DEF BatchConsumer, Callers
<1>4. CASE Assess("grpc")
  BY <1>1, <1>4 DEF Callers
<1>5. CASE \E b \in DOMAIN RiskBatches : TakeBatch("grpc", b)
  BY <1>5, TakeStep DEF Callers
<1> QED
  BY <1>2, <1>3, <1>4, <1>5, KillSwitchStep, HealthStep, SyntheticStep, LedgerStep, RestartStep
  DEF RiskNext
-----------------------------------------------------------------------------
(* The two checks read one gate.                                           *)
LEMMA SameGate == GatesAgree
<1> SUFFICES ASSUME NEW sym \in Symbols, PreHedgeCheck(sym, TRUE, RiskVenues) = "VENUES_UNAVAILABLE"
             PROVE  CheckNewOrder(sym, TRUE) = "reject"
  BY DEF GatesAgree
<1>1. RiskVenues \cap Known = Known
  BY DEF Known
<1>2. ~IsHalted(sym)
  BY DEF PreHedgeCheck
<1>3. Known # {} /\ \A v \in Known : HedgeBlocked(gate[v])
  BY <1>1, <1>2 DEF PreHedgeCheck
<1>4. {v \in Known : HardBlock(gate[v])} = Known
  BY <1>3 DEF HedgeBlocked, HardBlock
<1>5. EvaluateVenueHealthGate = "reject"
  BY <1>3, <1>4 DEF EvaluateVenueHealthGate
<1> QED
  BY <1>2, <1>5 DEF CheckNewOrder

LEMMA AtMostOne ==
  ASSUME NEW S, \A s, t \in S : s = t
  PROVE  IsFiniteSet(S) /\ Cardinality(S) <= 1 /\ (S # {} => Cardinality(S) = 1)
<1>1. CASE S = {}
  BY <1>1, FS_EmptySet
<1>2. CASE S # {}
  <2>1. PICK s : S = {s}
    BY <1>2
  <2>2. IsFiniteSet(S) /\ Cardinality(S) = 1
    BY <2>1, FS_Singleton
  <2> QED
    BY <2>2
<1> QED
  BY <1>1, <1>2

LEMMA OneAlert == RiskInv => OneMarginAlert
<1> SUFFICES ASSUME RiskInv, NEW k \in Keys
             PROVE  LET rows == {s \in snapshots : s.user = k[1] /\ s.batch = k[2]}
                    IN  /\ Cardinality(rows) <= 1
                        /\ marginAlerts[k] <= Cardinality({s \in rows : Alerting(s.m)})
  BY DEF OneMarginAlert
<1> DEFINE rows == {s \in snapshots : s.user = k[1] /\ s.batch = k[2]}
           calling == {s \in rows : Alerting(s.m)}
<1>1. k = <<k[1], k[2]>> /\ k[1] \in RiskUsers /\ k[2] \in DOMAIN RiskBatches
  BY DEF Keys
<1>2. \A s, t \in rows : s = t
  BY DEF RiskInv, RowsUnique
<1>3. Cardinality(rows) <= 1
  <2> HIDE DEF rows
  <2> QED
    BY <1>2, AtMostOne
<1>4. /\ Cardinality(calling) \in Nat
      /\ calling # {} => Cardinality(calling) = 1
  <2>1. \A s, t \in calling : s = t
    BY <1>2
  <2> HIDE DEF calling
  <2> QED
    BY <2>1, AtMostOne, FS_CardinalityType
<1>5. marginAlerts[k] = 0 \/ (marginAlerts[k] = 1 /\ Calls(k[1], k[2]))
  BY <1>1 DEF RiskInv, AlertsBacked
<1>6. Calls(k[1], k[2]) => calling # {}
  BY DEF Calls
<1>7. marginAlerts[k] <= Cardinality(calling)
  <2> HIDE DEF calling
  <2> QED
    BY <1>4, <1>5, <1>6
<1> QED
  BY <1>3, <1>7

(* The batch consumer and the gRPC call, with the ledger writing between   *)
(* their transactions, failed inserts and restarts, leave one snapshot and *)
(* at most one margin alert of a user and batch, and the order check is    *)
(* never laxer than the hedge check (OnBatchResult, buildRiskSnapshot,     *)
(* EvaluateVenueHealthGate, PreHedgeCheck).                                *)
THEOREM AlertsAreSafe == RiskSpec => []RiskSafety
<1>1. RiskInv => RiskSafety
  BY OneAlert, SameGate DEF RiskInv, RiskSafety
<1> QED
  BY <1>1, RiskInitInv, RiskStep, PTL DEF RiskSpec
=============================================================================

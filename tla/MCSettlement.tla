---------------------------- MODULE MCSettlement ----------------------------
(* Small instances of Ledger: one instrument, a buyer with two orders that *)
(* compete for the same quote balance and a seller.                        *)
(*                                                                         *)
(* Two ways to settle: `calm', three orders and two batches without a      *)
(* failure, and `faulty', one batch and two combo groups with a failed PG  *)
(* statement and a restart at any point.  `part' says which of them runs.  *)
EXTENDS Ledger

CONSTANTS alice, bob, b1, b2, s1

MCBaseOf == [i \in {"BTC/USDT"} |-> "BTC"]
MCQuoteOf == [i \in {"BTC/USDT"} |-> "USDT"]

Ord(u, side, qty, ph) ==
  [user |-> u, ins |-> "BTC/USDT", side |-> side, qty |-> qty, price_high |-> ph]

MCOrderInfo == [o \in Orders |->
  CASE o = b1 -> Ord(alice, "BUY", 2, 3)
    [] o = b2 -> Ord(alice, "BUY", 1, 3)
    [] o = s1 -> Ord(bob, "SELL", 2, 3)]

F(o, qty, price, fee) ==
  [order |-> o, user |-> MCOrderInfo[o].user, ins |-> "BTC/USDT",
   side |-> MCOrderInfo[o].side, qty |-> qty, price |-> price, fee |-> fee]

(* b1 and s1 trade half; then the rest of b1 below its limit, and b2.      *)
BatchPartial == [id |-> "p", fills |-> <<F(b1, 1, 2, 0), F(s1, 1, 2, 0)>>, terminal |-> << >>]
BatchRest    == [id |-> "r", fills |-> <<F(b1, 1, 3, 0), F(b2, 1, 2, 0)>>, terminal |-> <<b1, b2>>]

MCBatches    == {BatchPartial, BatchRest}

MCInitBalance == [u \in {alice, bob} |-> [c \in {"BTC", "USDT"} |->
                    IF u = alice THEN (IF c = "USDT" THEN 7 ELSE 0)
                                 ELSE (IF c = "BTC" THEN 2 ELSE 0)]]

(* alice starts with a long position that does not match her balance, as   *)
(* the demo seed of the ledger does.                                       *)
MCInitPosition == [u \in {alice, bob} |-> [i \in {"BTC/USDT"} |->
                     IF u = alice THEN [amount |-> 1, avg |-> 2, pnl |-> 0] ELSE Flat]]

VARIABLE part

(* b1 and s1 trade all they have at once.                                  *)
BatchFull  == [id |-> "f", fills |-> <<F(b1, 2, 2, 0), F(s1, 2, 2, 0)>>, terminal |-> <<b1>>]
SomeBatches == MCBatches \cup {BatchFull}

(* A combo of bob that buys and sells in one critical section; one without *)
(* a leg.                                                                  *)
GroupLeg(side, qty, price) == [ins |-> "BTC/USDT", side |-> side, qty |-> qty, price |-> price]
SomeGroups == {[id |-> "g", user |-> bob, legs |-> <<GroupLeg("BUY", 2, 2), GroupLeg("SELL", 1, 3)>>],
               [id |-> "e", user |-> bob, legs |-> << >>]}

Settles(batchset) == worker'.pc = "idle" \/ worker'.batch \in batchset

PackInit == part \in {"calm", "faulty"} /\ Init

PackNext ==
  /\ Next /\ UNCHANGED part
  /\ \/ /\ part = "calm" /\ Settles(MCBatches)
        /\ gworker' = Idle /\ pgFaults' = 0 /\ crashes' = 0
     \/ part = "faulty" /\ Settles({BatchFull}) /\ b2 \notin requested'

PackSpec == PackInit /\ [][PackNext]_<<part, vars>>
=============================================================================

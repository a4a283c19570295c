----------------------------- MODULE Lifecycle -----------------------------
(***************************************************************************)
(* What a status column promises its readers: every item starts in First   *)
(* and moves only along the edges, whoever writes it and in whatever       *)
(* order.  A status without outgoing edges is final.                       *)
(***************************************************************************)
CONSTANTS Item, First, Edge

VARIABLE status

Init == status = [i \in Item |-> First]

Next == /\ status' \in [Item -> {First} \cup {e[2] : e \in Edge}]
        /\ \A i \in Item : status'[i] = status[i] \/ <<status[i], status'[i]>> \in Edge

Spec == Init /\ [][Next]_status
=============================================================================

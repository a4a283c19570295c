------------------------------- MODULE MCFlow -------------------------------
(* Small instances of FlowOrders: orders of three lots, which fills of two *)
(* lots overshoot in the second batch.                                     *)
EXTENDS FlowOrders

MCQty == [o \in Orders |-> 3]
=============================================================================

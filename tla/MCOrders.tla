------------------------------ MODULE MCOrders ------------------------------
(* Combo orders, the compensation of their failed legs, and the ledger's   *)
(* book of hedges.  `part' says which of them runs; the others stay in     *)
(* their initial state, so the state spaces add up.                        *)
EXTENDS Compensation, Combos, HedgeBook

VARIABLE part

vars == <<part, comboVars, compVars, bookVars>>

-----------------------------------------------------------------------------
(* One combo: an internal entry 1, an external leg 2, an internal exit 3   *)
(* that brackets the entry and is one-cancels-other with leg 2.  The other *)
(* combo has a single leg and is refused.                                  *)
L(c, p, s, n, r, m) == [combo |-> c, prefs |-> p, symbol |-> s, ratio |-> n, rate |-> r, qmax |-> m]
MCDef == <<L("c", "internal", "A", 1, 1, 3), L("c", "external", "B", 1, 1, 2),
           L("c", "none", "D", 2, 2, 2), L("s", "none", "A", 1, 1, 1)>>

MCPolicy == [c \in Combo |-> "scalable_atomic"]
MCOco == {<<3, 2>>}
MCBracket == {<<1, 3>>}

(* Two failed legs of one combo with two internal legs; one operator.      *)
MCReason == [x1 |-> "rejected", x2 |-> "cancelled"]

Hedge(id, v, s, side, q, p, i, t) ==
  [id |-> id, venue |-> v, symbol |-> s, side |-> side, qty |-> q, price |-> p,
   internal |-> i, time |-> t]

(* Two hedges with the same id on different venues; two fills.             *)
MCHedges ==
  {Hedge("h1", "v1", "s1", "BUY", 1, 3, 2, 1), Hedge("h1", "v2", "s1", "SELL", 1, 3, 2, 1),
   Hedge("h2", "v1", "s2", "SELL", 2, 4, 3, 2)}
MCHedgeFills ==
  {Hedge("r1", "v1", "s1", "SELL", 1, 2, 1, 1), Hedge("r2", "v1", "s1", "BUY", 2, 1, 3, 2)}
MCTotals == {<<2, 1>>}

ASSUME OrdersAssumption == CombosAssumption /\ HedgeBookAssumption

-----------------------------------------------------------------------------
Init ==
  /\ part \in {"combos", "compensation", "book"}
  /\ ComboInit /\ CompInit /\ BookInit

Next ==
  \/ part = "combos" /\ ComboNext /\ UNCHANGED <<part, compVars, bookVars>>
  \/ part = "compensation" /\ CompNext /\ UNCHANGED <<part, comboVars, bookVars>>
  \/ part = "book" /\ BookNext /\ UNCHANGED <<part, comboVars, compVars>>

(* The consumer and the loop run, venues answer, time passes.              *)
Fairness ==
  /\ WF_comboVars(part = "combos" /\ VenuesAnswer)
  /\ WF_comboVars(part = "combos" /\ HandleReport)
  /\ WF_compVars(part = "compensation" /\ Progress("auto"))
  /\ WF_compVars(part = "compensation" /\ BeginPass)
  /\ \A x \in {"x1", "x2"} : /\ WF_compVars(part = "compensation" /\ Judge(x))
                             /\ WF_compVars(part = "compensation" /\ GrowOld(x))

Spec == Init /\ [][Next]_vars /\ Fairness
-----------------------------------------------------------------------------
(* A chunk that a venue answers with a final status frees its leg for the  *)
(* next chunk; a failed leg whose reason the policy accepts is resolved    *)
(* unless a guardrail leaves it to an operator.                            *)
OrdersProgress ==
  /\ part = "combos" => FlagReleased
  /\ part = "compensation" => ReversedOrEscalated
=============================================================================

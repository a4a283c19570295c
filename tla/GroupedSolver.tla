--------------------------- MODULE GroupedSolver ---------------------------
(***************************************************************************)
(* The clearing of one combo (matching): ComputeFeasibleCaps, then         *)
(* GroupedSolverBisection::Solve.                                          *)
(*                                                                         *)
(* A leg is [id, symbol, ratio, rate, qmax, filled]; ids are numbers, in   *)
(* the order of the query that loads the legs.  Quantities and group units *)
(* are integers at the scale of Decimal::div (kGroupScale), which rounds   *)
(* half-up; a ratio is its absolute value, as the solver uses it.  The     *)
(* caps q_liq, q_risk and q_venue are never set by the loader.             *)
(***************************************************************************)
EXTENDS Positions

CONSTANT AlphaOne    \* execution scale 1 at kAlphaScale

Remaining(leg) == IF leg.filled < leg.qmax THEN leg.qmax - leg.filled ELSE 0

(* ComputeFeasibleCaps of one leg.                                         *)
FeasibleCap(leg) == Lesser(Remaining(leg), leg.rate)

(* cap_by_sym: of the legs of a symbol the last one in order wins.         *)
CapOf(legs, leg) ==
  FeasibleCap(CHOOSE l \in legs : /\ l.symbol = leg.symbol
                                  /\ \A k \in legs : k.symbol = leg.symbol => k.id <= l.id)

Least(S) == CHOOSE n \in S : \A m \in S : n <= m

(* G_feasible and G_desired, in group units; a leg of ratio 0 is skipped.  *)
Sized(legs)    == {l \in legs : l.ratio > 0}
Feasible(legs) == Least({DivHalfUp(CapOf(legs, l), l.ratio) : l \in Sized(legs)})
Desired(legs)  == Least({DivHalfUp(Remaining(l), l.ratio) : l \in Sized(legs)})

Alpha(legs) ==
  IF Desired(legs) = 0 THEN 0
  ELSE Lesser(DivHalfUp(Feasible(legs) * AlphaOne, Desired(legs)), AlphaOne)

(* The group unit that is executed; other policies are not implemented     *)
(* and block the group.                                                    *)
GExec(legs, policy, minScale) ==
  CASE policy = "strict_atomic"   -> IF Feasible(legs) < Desired(legs) THEN 0 ELSE Feasible(legs)
    [] policy = "scalable_atomic" -> IF Alpha(legs) < minScale THEN 0 ELSE Feasible(legs)
    [] OTHER                      -> 0

(* leg_execs: leg id -> executed quantity; empty when nothing is executed. *)
Solve(legs, policy, minScale) ==
  LET leg(i) == CHOOSE l \in legs : l.id = i
      ids    == {l.id : l \in Sized(legs)}
      g      == GExec(legs, policy, minScale)
  IN  IF ids = {} THEN <<>>
      ELSE IF policy = "best_effort" THEN [i \in ids |-> CapOf(legs, leg(i))]
      ELSE IF g = 0 THEN <<>>
      ELSE [i \in ids |-> Lesser(g * leg(i).ratio, CapOf(legs, leg(i)))]
=============================================================================

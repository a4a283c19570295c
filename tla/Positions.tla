----------------------------- MODULE Positions -----------------------------
(***************************************************************************)
(* The signed-position arithmetic of the settlement ledger:                *)
(* LedgerUseCases::apply_signed_fill and update_position_for_fill.         *)
(*                                                                         *)
(* A position is [amount, avg, pnl]: the net signed quantity (positive is  *)
(* long, negative is short), the average entry price and the realised PnL. *)
(* Quantities are whole lots and prices whole price units, so the product  *)
(* of two of them is exact, as Decimal::mul followed by rescale() is for   *)
(* values that fit the canonical scales.  The one inexact operation of the *)
(* code, Decimal::div at kPriceScale, keeps its rounding (DivHalfUp).      *)
(***************************************************************************)
EXTENDS Integers

Sides == {"BUY", "SELL"}

Position == [amount : Int, avg : Int, pnl : Int]

Flat == [amount |-> 0, avg |-> 0, pnl |-> 0]

Abs(n) == IF n < 0 THEN -n ELSE n

Lesser(a, b) == IF a < b THEN a ELSE b

(* Decimal::div at a fixed result scale, for a positive divisor: half-up,  *)
(* away from zero.                                                         *)
DivHalfUp(n, d) ==
  IF n >= 0 THEN (2 * n + d) \div (2 * d)
            ELSE -((2 * (-n) + d) \div (2 * d))

Dir(side) == IF side = "BUY" THEN 1 ELSE -1

(* Same direction, or a flat position: volume-weighted entry price.        *)
Increase(pos, dir, qty, price) ==
  [pos EXCEPT !.amount = @ + dir * qty,
              !.avg = DivHalfUp(Abs(pos.amount) * @ + qty * price,
                                Abs(pos.amount) + qty)]

(* PnL realised by closing `closed' units of pos at `price'.               *)
Realised(pos, closed, price) ==
  IF pos.amount > 0 THEN (price - pos.avg) * closed
                    ELSE (pos.avg - price) * closed

(* The net amount after the opposite fill.  Mutation: it only closes.      *)
ClosedOnly(pos, dir, qty) == pos.amount + dir * Lesser(qty, Abs(pos.amount))
NewAmount(pos, dir, qty) == pos.amount + dir * qty

(* Opposite direction: reduce, close, or flip through zero.                *)
Reduce(pos, dir, qty, price) ==
  LET closed    == Lesser(qty, Abs(pos.amount))
      newAmount == NewAmount(pos, dir, qty)
      sameSide  == (pos.amount > 0) = (newAmount > 0)
  IN  [amount |-> newAmount,
       avg    |-> IF newAmount = 0 THEN 0
                  ELSE IF sameSide THEN pos.avg ELSE price,
       pnl    |-> pos.pnl + Realised(pos, closed, price)]

ApplySignedFill(pos, side, qty, price) ==
  LET dir == Dir(side) IN
  IF qty <= 0 THEN pos
  ELSE IF pos.amount * dir >= 0 THEN Increase(pos, dir, qty, price)
  ELSE Reduce(pos, dir, qty, price)
=============================================================================

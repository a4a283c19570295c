---------------------------- MODULE Compensation ----------------------------
(***************************************************************************)
(* How pending compensations of combos are resolved: by operators through  *)
(* ResolveCompensation and by the AutoResolveLoop thread of order_flow.    *)
(*                                                                         *)
(* The row of a compensation is written by matching (module Combos); the   *)
(* gate WHERE status = 'pending' of its ResolvePending decides a race.     *)
(* Reversal orders are created before the gate, one per filled internal    *)
(* leg, and inserted once per compensation and leg.  Meanwhile batches go  *)
(* on filling the legs.  Notional is quantity: prices do not change.       *)
(***************************************************************************)
EXTENDS Integers, Sequences, FiniteSets, FiniteSetsExt, Functions

CONSTANTS
  Comp,            \* compensations, all of one combo
  Reason,          \* Comp -> reason of the row
  ILeg,            \* internal legs of the combo, numbers in the order of leg_id
  ILegMax,         \* q_max of a leg
  Operator,        \* operators
  MaxNotional, MaxPerWindow, WindowNotional,  \* guardrails of the loop
  MaxCalls,        \* bound on ResolveCompensation calls of operators
  MaxCompFaults    \* bound on failed or lost calls and restarts

ASSUME CompensationAssumption ==
  /\ Reason \in [Comp -> {"rejected", "cancelled", "expired"}]
  /\ ILeg \subseteq Nat /\ IsFiniteSet(ILeg)
  /\ ILegMax \in Nat /\ "auto" \notin Operator
  /\ {MaxNotional, MaxPerWindow, WindowNotional, MaxCalls, MaxCompFaults} \subseteq Nat

Resolver == Operator \cup {"auto"}

VARIABLES
  filled_cum,     \* PG: ILeg -> filled_cum
  comp_status,    \* PG: Comp -> status
  reversals,      \* flow_orders: Comp -> ILeg -> quantity, 0 for no order
  resolver,       \* Resolver -> [pc, comp, action, todo]
  auto_list,      \* the loop: pending compensations of the pass not yet seen
  estimate,       \* the loop: reversal_notional of the candidate
  window,         \* the loop: notionals of applied resolutions
  aged,           \* compensations older than min_age_ms
  applied,        \* Comp -> number of resolvers told 'applied'
  calls, compFaults

compVars == <<filled_cum, comp_status, reversals, resolver, auto_list, estimate, window,
              aged, applied, calls, compFaults>>
autoVars == <<auto_list, estimate, window, aged>>

NoCall == [pc |-> "idle", comp |-> "", action |-> "", todo |-> <<>>]

CompInit ==
  /\ filled_cum = [l \in ILeg |-> 0]
  /\ comp_status = [x \in Comp |-> "none"]
  /\ reversals = [x \in Comp |-> [l \in ILeg |-> 0]]
  /\ resolver = [r \in Resolver |-> NoCall]
  /\ auto_list = {} /\ estimate = 0 /\ window = <<>> /\ aged = {}
  /\ applied = [x \in Comp |-> 0]
  /\ calls = 0 /\ compFaults = 0

CompFault == compFaults < MaxCompFaults /\ compFaults' = compFaults + 1
Call      == calls < MaxCalls /\ calls' = calls + 1
-----------------------------------------------------------------------------
(* What matching writes meanwhile.                                         *)
FillLeg(l) ==
  /\ filled_cum[l] < ILegMax
  /\ filled_cum' = [filled_cum EXCEPT ![l] = @ + 1]
  /\ UNCHANGED <<comp_status, reversals, resolver, autoVars, applied, calls, compFaults>>

(* Mutation: the row is inserted with a wrong default status.              *)
WriteResolved(x) ==
  /\ comp_status[x] = "none"
  /\ \E l \in ILeg : filled_cum[l] > 0
  /\ comp_status' = [comp_status EXCEPT ![x] = "resolved"]
  /\ UNCHANGED <<filled_cum, reversals, resolver, autoVars, applied, calls, compFaults>>

WritePending(x) ==
  /\ comp_status[x] = "none"
  /\ \E l \in ILeg : filled_cum[l] > 0
  /\ comp_status' = [comp_status EXCEPT ![x] = "pending"]
  /\ UNCHANGED <<filled_cum, reversals, resolver, autoVars, applied, calls, compFaults>>

GrowOld(x) ==
  /\ comp_status[x] # "none" /\ x \notin aged
  /\ aged' = aged \cup {x}
  /\ UNCHANGED <<filled_cum, comp_status, reversals, resolver, auto_list, estimate, window,
                 applied, calls, compFaults>>
-----------------------------------------------------------------------------
(* LoadInternalFilledLegs.                                                 *)
InternalFilled == [l \in {k \in ILeg : filled_cum[k] > 0} |-> filled_cum[l]]

Total(f) == SumFunctionOnSet(f, DOMAIN f)

(* ResolveCompensation up to GetPending: an unknown action, retry_external *)
(* and a compensation that is not pending end the call.                    *)
Started(x, action) ==
  [pc |-> IF action = "reverse_internal" THEN "load" ELSE "gate",
   comp |-> x, action |-> action, todo |-> <<>>]

OperatorCall(r, x, action) ==
  /\ Call
  /\ resolver[r].pc = "idle"
  /\ comp_status[x] = "pending"
  /\ resolver' = [resolver EXCEPT ![r] = Started(x, action)]
  /\ UNCHANGED <<filled_cum, comp_status, reversals, autoVars, applied, compFaults>>

LoadLegs(r) ==
  /\ resolver[r].pc = "load"
  /\ resolver' = [resolver EXCEPT ![r].pc = "create", ![r].todo = InternalFilled]
  /\ UNCHANGED <<filled_cum, comp_status, reversals, autoVars, applied, calls, compFaults>>

(* CreateFlowOrder with the id of (compensation, leg): ON CONFLICT DO      *)
(* NOTHING.  A refusal of risk or ledger is not looked at.                 *)
(* Mutation: the id is new on every call.                                  *)
InsertAgain(old, qty) == old + qty
Insert(old, qty) == IF old = 0 THEN qty ELSE old

CreateReversal(r) ==
  LET todo == resolver[r].todo
      l    == Min(DOMAIN todo)
      x    == resolver[r].comp
  IN  /\ resolver[r].pc = "create"
      /\ DOMAIN todo # {}
      /\ resolver' = [resolver EXCEPT ![r].todo = [k \in DOMAIN todo \ {l} |-> todo[k]]]
      /\ \/ reversals' = [reversals EXCEPT ![x][l] = Insert(@, todo[l])] /\ UNCHANGED compFaults
         \/ CompFault /\ UNCHANGED reversals
      /\ UNCHANGED <<filled_cum, comp_status, autoVars, applied, calls>>

Resolves(x) == comp_status[x] = "pending"

Outcome(action) == IF action = "accept" THEN "cancelled" ELSE "resolved"

(* The gate.  The loop notes an applied resolution in its window.          *)
ResolvePending(r) ==
  LET x == resolver[r].comp
  IN  /\ resolver[r].pc = "gate" \/ (resolver[r].pc = "create" /\ DOMAIN resolver[r].todo = {})
      /\ resolver' = [resolver EXCEPT ![r] = NoCall]
      /\ comp_status' = IF Resolves(x)
                        THEN [comp_status EXCEPT ![x] = Outcome(resolver[r].action)]
                        ELSE comp_status
      /\ \/ /\ applied' = IF Resolves(x) THEN [applied EXCEPT ![x] = @ + 1] ELSE applied
            /\ window' = IF Resolves(x) /\ r = "auto" THEN Append(window, estimate) ELSE window
            /\ UNCHANGED compFaults
         \/ /\ CompFault                      \* the answer is lost: GRPC_ERROR
            /\ UNCHANGED <<applied, window>>
      /\ UNCHANGED <<filled_cum, reversals, auto_list, estimate, aged, calls>>
-----------------------------------------------------------------------------
(* AutoResolveLoop::RunOnce: PruneWindow and ListPending, then each        *)
(* candidate is judged and, if the policy lets it, reversed.               *)
Idle == resolver["auto"].pc = "idle" /\ auto_list = {}

BeginPass ==
  /\ Idle
  /\ \E n \in 0 .. Len(window) : window' = SubSeq(window, n + 1, Len(window))
  /\ auto_list' = {x \in Comp : comp_status[x] = "pending"}
  /\ UNCHANGED <<filled_cum, comp_status, reversals, resolver, estimate, aged, applied, calls, compFaults>>

Spent == Total(window)

(* EvaluateAutoResolve.                                                    *)
TerminalReason(x) == Reason[x] \in {"rejected", "timeout", "cancelled"}

TooMany(n) == n + 1 > MaxPerWindow

AutoReverse(x, notional) ==
  /\ TerminalReason(x)
  /\ x \in aged
  /\ notional > 0
  /\ notional <= MaxNotional
  /\ ~TooMany(Len(window))
  /\ Spent + notional <= WindowNotional

Judge(x) ==
  LET notional == Total(InternalFilled)
  IN  /\ resolver["auto"].pc = "idle"
      /\ x \in auto_list
      /\ auto_list' = auto_list \ {x}
      /\ estimate' = notional
      /\ resolver' = IF AutoReverse(x, notional) /\ comp_status[x] = "pending"  \* GetPending
                     THEN [resolver EXCEPT !["auto"] = Started(x, "reverse_internal")]
                     ELSE resolver
      /\ UNCHANGED <<filled_cum, comp_status, reversals, window, aged, applied, calls, compFaults>>

(* order_flow restarts: calls in progress and the window are lost.         *)
RestartOrderFlow ==
  /\ CompFault
  /\ resolver' = [r \in Resolver |-> NoCall]
  /\ auto_list' = {} /\ estimate' = 0 /\ window' = <<>>
  /\ UNCHANGED <<filled_cum, comp_status, reversals, aged, applied, calls>>
-----------------------------------------------------------------------------
Progress(r) == LoadLegs(r) \/ CreateReversal(r) \/ ResolvePending(r)

CompNext ==
  \/ \E l \in ILeg : FillLeg(l)
  \/ \E x \in Comp : WritePending(x) \/ GrowOld(x) \/ Judge(x)
  \/ \E r \in Operator, x \in Comp, a \in {"accept", "reverse_internal"} : OperatorCall(r, x, a)
  \/ \E r \in Resolver : Progress(r)
  \/ BeginPass
  \/ RestartOrderFlow

CompSpec == CompInit /\ [][CompNext]_compVars
-----------------------------------------------------------------------------
CompTypeOK ==
  /\ filled_cum \in [ILeg -> 0 .. ILegMax]
  /\ comp_status \in [Comp -> {"none", "pending", "resolved", "cancelled"}]
  /\ reversals \in [Comp -> [ILeg -> Nat]]
  /\ auto_list \subseteq Comp
  /\ applied \in [Comp -> Nat]

(* Of the operators and the loop that work on one compensation at most one *)
(* is told that it resolved it, and nobody unless it is resolved.          *)
OneWinner ==
  \A x \in Comp : applied[x] <= (IF comp_status[x] \in {"resolved", "cancelled"} THEN 1 ELSE 0)

(* However often a compensation is worked on, by whoever, and whatever is  *)
(* retried after a restart, its orders never take back more of a leg than  *)
(* the leg has traded.                                                     *)
ReversalsBacked == \A x \in Comp, l \in ILeg : reversals[x][l] <= filled_cum[l]

(* Within a window the loop applies no more and no larger reversals than   *)
(* its guardrails allow, judged by the estimates it made.                  *)
WithinGuardrails ==
  /\ estimate \in 0 .. ILegMax * Cardinality(ILeg)
  /\ Len(window) <= MaxPerWindow
  /\ Spent <= WindowNotional

(* Operators, the loop, retries and restarts together resolve a            *)
(* compensation once, reverse no more than was traded and stay within the  *)
(* guardrails of the loop.                                                 *)
CompSafety == CompTypeOK /\ OneWinner /\ ReversalsBacked /\ WithinGuardrails

(* A compensation goes from pending to one final status and stays there.   *)
CompLife == INSTANCE Lifecycle WITH
  Item <- Comp, First <- "none", status <- comp_status,
  Edge <- {<<"none", "pending">>, <<"pending", "resolved">>, <<"pending", "cancelled">>}
CompensationLife == CompLife!Spec

(* A failed leg whose reason the policy accepts is not forgotten: its      *)
(* compensation is resolved unless a guardrail leaves it to an operator.   *)
GuardrailHit ==
  \/ Total(InternalFilled) > MaxNotional
  \/ Len(window) >= MaxPerWindow
  \/ Spent + Total(InternalFilled) > WindowNotional
ReversedOrEscalated ==
  \A x \in Comp :
    (comp_status[x] = "pending" /\ Reason[x] \in {"rejected", "timeout", "cancelled"})
      ~> (comp_status[x] # "pending" \/ GuardrailHit)
=============================================================================

------------------------- MODULE CompensationProofs -------------------------
(* Theorems about Compensation (one winner per compensation, reversals     *)
(* backed by fills, the guardrails of the loop, and that the status column *)
(* implements Lifecycle) and about Combos (the caps of the legs, what the  *)
(* topic and the books agree on, and the one-cancels-other and bracket     *)
(* edges).                                                                 *)
EXTENDS Compensation, Combos, InductionLemmas, SequenceTheorems

Pcs == {"idle", "load", "create", "gate"}

(* What a call in progress holds: the quantities it is going to reverse    *)
(* were read from filled_cum, which only grows.                            *)
CallShaped(c) ==
  /\ DOMAIN c = {"pc", "comp", "action", "todo"}
  /\ c.pc \in Pcs
  /\ c.pc # "idle" => c.comp \in Comp
  /\ DOMAIN c.todo \subseteq ILeg
  /\ \A l \in DOMAIN c.todo : c.todo[l] \in Nat /\ c.todo[l] <= filled_cum[l]

CallsBacked ==
  /\ DOMAIN resolver = Resolver
  /\ \A r \in Resolver : CallShaped(resolver[r])

(* The part of the inductive invariant that the theorems share.            *)
CompCore == CompTypeOK /\ OneWinner /\ ReversalsBacked
CompInv == CompCore /\ CallsBacked

(* The loop leaves room in the window before it starts a resolution.       *)
WindowShaped ==
  /\ window \in Seq(Nat)
  /\ estimate \in 0 .. ILegMax * Cardinality(ILeg)

RoomFor(n, notional) == Len(window) + n <= MaxPerWindow /\ Spent + notional <= WindowNotional

WindowRoom ==
  /\ WindowShaped
  /\ RoomFor(0, 0)
  /\ resolver["auto"].pc # "idle" => RoomFor(1, estimate)
-----------------------------------------------------------------------------
(* A non-empty set of naturals has a least element, which Min returns.     *)
LEMMA MinInSet ==
  ASSUME NEW T, T \subseteq Nat, T # {}
  PROVE  Min(T) \in T
<1>1. PICK x \in T : \A y \in T : ~(<<y, x>> \in OpToRel(<, Nat))
  BY NatLessThanWellFounded, WFMin
<1>2. \A y \in T : x <= y
  <2> TAKE y \in T
  <2>1. ~(y < x)
    BY <1>1 DEF OpToRel
  <2> QED
    BY <2>1
<1> QED
  BY <1>2 DEF Min

LEMMA NoCallShaped == CallShaped(NoCall)
<1>1. DOMAIN NoCall.todo = {}
  BY DEF NoCall
<1> QED
  BY <1>1 DEF CallShaped, NoCall, Pcs

LEMMA StartedShaped ==
  ASSUME NEW x \in Comp, NEW a PROVE CallShaped(Started(x, a))
<1>1. DOMAIN Started(x, a).todo = {}
  BY DEF Started
<1> QED
  BY <1>1 DEF CallShaped, Started, Pcs

(* A call stays backed while filled_cum grows.                             *)
LEMMA ShapedKept ==
  ASSUME CompTypeOK, NEW c, CallShaped(c),
         filled_cum' \in [ILeg -> Nat], \A l \in ILeg : filled_cum[l] <= filled_cum'[l]
  PROVE  CallShaped(c)'
<1> SUFFICES ASSUME NEW l \in DOMAIN c.todo
             PROVE  c.todo[l] \in Nat /\ c.todo[l] <= filled_cum'[l]
  BY DEF CallShaped
<1>1. l \in ILeg /\ c.todo[l] \in Nat /\ c.todo[l] <= filled_cum[l]
  BY DEF CallShaped
<1>2. filled_cum[l] \in Nat /\ filled_cum'[l] \in Nat
  BY <1>1, CompensationAssumption DEF CompTypeOK
<1> QED
  BY <1>1, <1>2

(* The calls stay backed when one resolver moves to a backed call.         *)
LEMMA CallMoved ==
  ASSUME CallsBacked, NEW r \in Resolver, NEW c, CallShaped(c),
         resolver' = [resolver EXCEPT ![r] = c], UNCHANGED filled_cum
  PROVE  CallsBacked'
<1>1. \A s \in Resolver : CallShaped(resolver'[s])
  BY DEF CallsBacked
<1> QED
  BY <1>1 DEF CallsBacked, CallShaped

LEMMA CallsKept ==
  ASSUME CallsBacked, UNCHANGED <<resolver, filled_cum>> PROVE CallsBacked'
BY DEF CallsBacked, CallShaped

LEMMA CompInitInv == CompInit => CompInv
<1> SUFFICES ASSUME CompInit PROVE CompInv
  OBVIOUS
<1>1. CompCore
  BY CompensationAssumption
  DEF CompInit, CompCore, CompTypeOK, OneWinner, ReversalsBacked
<1>2. CallsBacked
  BY NoCallShaped DEF CompInit, CallsBacked
<1> QED
  BY <1>1, <1>2 DEF CompInv
-----------------------------------------------------------------------------
(* One lemma per action.                                                   *)
LEMMA FillLegInv == ASSUME CompInv, NEW l \in ILeg, FillLeg(l) PROVE CompInv'
<1>1. /\ filled_cum' \in [ILeg -> 0 .. ILegMax]
      /\ \A k \in ILeg : filled_cum[k] <= filled_cum'[k]
  BY CompensationAssumption DEF CompInv, CompCore, CompTypeOK, FillLeg
<1>2. CompTypeOK'
  BY <1>1 DEF CompInv, CompCore, CompTypeOK, FillLeg, autoVars
<1>3. OneWinner'
  BY DEF CompInv, CompCore, OneWinner, FillLeg
<1>4. ReversalsBacked'
  <2> SUFFICES ASSUME NEW x \in Comp, NEW k \in ILeg PROVE reversals'[x][k] <= filled_cum'[k]
    BY DEF ReversalsBacked
  <2>1. reversals[x][k] <= filled_cum[k] /\ reversals[x][k] \in Nat /\ filled_cum[k] \in Nat
    BY CompensationAssumption DEF CompInv, CompCore, ReversalsBacked, CompTypeOK
  <2>2. filled_cum[k] <= filled_cum'[k] /\ filled_cum'[k] \in Nat
    <3>1. filled_cum[k] <= filled_cum'[k] /\ filled_cum'[k] \in 0 .. ILegMax
      BY <1>1
    <3>2. ILegMax \in Nat
      BY CompensationAssumption
    <3> QED
      BY <3>1, <3>2
  <2> QED
    BY <2>1, <2>2 DEF FillLeg
<1>5. CallsBacked'
  <2>1. filled_cum' \in [ILeg -> Nat]
    BY <1>1, CompensationAssumption
  <2>2. \A r \in Resolver : CallShaped(resolver[r])'
    BY <1>1, <2>1, ShapedKept DEF CompInv, CompCore, CallsBacked, FillLeg
  <2> QED
    BY <2>2 DEF CompInv, CallsBacked, FillLeg
<1> QED
  BY <1>2, <1>3, <1>4, <1>5 DEF CompInv, CompCore

LEMMA WritePendingInv == ASSUME CompInv, NEW x \in Comp, WritePending(x) PROVE CompInv'
<1>1. CompTypeOK'
  BY DEF CompInv, CompCore, CompTypeOK, WritePending, autoVars
<1>2. OneWinner' /\ ReversalsBacked'
  BY DEF CompInv, CompCore, CompTypeOK, OneWinner, ReversalsBacked, WritePending
<1>3. CallsBacked'
  BY CallsKept DEF CompInv, WritePending
<1> QED
  BY <1>1, <1>2, <1>3 DEF CompInv, CompCore

LEMMA GrowOldInv == ASSUME CompInv, NEW x \in Comp, GrowOld(x) PROVE CompInv'
<1>1. CompCore'
  BY DEF CompInv, CompCore, CompTypeOK, OneWinner, ReversalsBacked, GrowOld
<1> QED
  BY <1>1, CallsKept DEF CompInv, GrowOld

LEMMA OperatorCallInv ==
  ASSUME CompInv, NEW r \in Operator, NEW x \in Comp, NEW a, OperatorCall(r, x, a)
  PROVE  CompInv'
<1>1. CompCore'
  BY DEF CompInv, CompCore, CompTypeOK, OneWinner, ReversalsBacked, OperatorCall, autoVars
<1>2. CallsBacked'
  BY CallMoved, StartedShaped DEF CompInv, OperatorCall, Resolver
<1> QED
  BY <1>1, <1>2 DEF CompInv

LEMMA LoadLegsInv == ASSUME CompInv, NEW r \in Resolver, LoadLegs(r) PROVE CompInv'
<1>1. CompCore'
  BY DEF CompInv, CompCore, CompTypeOK, OneWinner, ReversalsBacked, LoadLegs, autoVars
<1> DEFINE c == [resolver[r] EXCEPT !.pc = "create", !.todo = InternalFilled]
<1>2. CallShaped(resolver[r]) /\ resolver[r].pc = "load"
  BY DEF CompInv, CallsBacked, LoadLegs
<1>3. /\ DOMAIN c = {"pc", "comp", "action", "todo"}
      /\ c.pc = "create" /\ c.comp \in Comp /\ c.todo = InternalFilled
  BY <1>2 DEF CallShaped
<1>4. /\ DOMAIN InternalFilled \subseteq ILeg
      /\ \A l \in DOMAIN InternalFilled : InternalFilled[l] \in Nat /\ InternalFilled[l] <= filled_cum[l]
  BY CompensationAssumption DEF CompInv, CompCore, CompTypeOK, InternalFilled
<1>5. CallShaped(c)
  BY <1>3, <1>4 DEF CallShaped, Pcs
<1>6. resolver' = [resolver EXCEPT ![r] = c]
  BY DEF LoadLegs, CompInv, CallsBacked
<1>7. CallsBacked'
  BY <1>5, <1>6, CallMoved DEF CompInv, LoadLegs
<1> QED
  BY <1>1, <1>7 DEF CompInv

LEMMA CreateReversalInv == ASSUME CompInv, NEW r \in Resolver, CreateReversal(r) PROVE CompInv'
<1> DEFINE todo == resolver[r].todo
           l == Min(DOMAIN todo)
           x == resolver[r].comp
           c == [resolver[r] EXCEPT !.todo = [k \in DOMAIN todo \ {l} |-> todo[k]]]
<1>1. CallShaped(resolver[r]) /\ resolver[r].pc = "create" /\ DOMAIN todo \subseteq ILeg /\ x \in Comp
  BY DEF CompInv, CallsBacked, CallShaped, CreateReversal
<1>2. CallsBacked'
  <2>1. /\ DOMAIN c = {"pc", "comp", "action", "todo"}
        /\ c.pc = "create" /\ c.comp = x
        /\ c.todo = [k \in DOMAIN todo \ {l} |-> todo[k]]
    BY <1>1 DEF CallShaped
  <2>2. CallShaped(c)
    BY <1>1, <2>1 DEF CallShaped
  <2>3. resolver' = [resolver EXCEPT ![r] = c]
    BY DEF CreateReversal, CompInv, CallsBacked
  <2> QED
    BY <2>2, <2>3, CallMoved DEF CompInv, CreateReversal
<1>3. l \in DOMAIN todo
  BY <1>1, MinInSet, CompensationAssumption DEF CreateReversal
<1>4. l \in ILeg /\ todo[l] \in Nat /\ todo[l] <= filled_cum[l]
  BY <1>1, <1>3 DEF CallShaped
<1>5. CASE UNCHANGED reversals
  BY <1>2, <1>5
  DEF CompInv, CompCore, CompTypeOK, OneWinner, ReversalsBacked, CreateReversal, autoVars
<1>6. CASE reversals' = [reversals EXCEPT ![x][l] = Insert(@, todo[l])]
  <2>1. /\ reversals' \in [Comp -> [ILeg -> Nat]]
        /\ \A y \in Comp, k \in ILeg : \/ reversals'[y][k] = reversals[y][k]
                                       \/ k = l /\ reversals'[y][k] = todo[l]
    BY <1>1, <1>4, <1>6 DEF CompInv, CompCore, CompTypeOK, Insert
  <2>2. ReversalsBacked'
    BY <1>4, <2>1 DEF CompInv, CompCore, ReversalsBacked, CreateReversal
  <2> QED
    BY <1>2, <2>1, <2>2 DEF CompInv, CompCore, CompTypeOK, OneWinner, CreateReversal, autoVars
<1> QED
  BY <1>5, <1>6 DEF CreateReversal

LEMMA ResolvePendingInv == ASSUME CompInv, NEW r \in Resolver, ResolvePending(r) PROVE CompInv'
<1> DEFINE x == resolver[r].comp
<1>1. x \in Comp
  BY DEF CompInv, CallsBacked, CallShaped, ResolvePending
<1>2. CompTypeOK'
  BY <1>1 DEF CompInv, CompCore, CompTypeOK, ResolvePending, Outcome, CompFault
<1>3. OneWinner'
  BY <1>1 DEF CompInv, CompCore, CompTypeOK, OneWinner, ResolvePending, Resolves, Outcome
<1>4. ReversalsBacked'
  BY DEF CompInv, CompCore, ReversalsBacked, ResolvePending
<1>5. CallsBacked'
  BY CallMoved, NoCallShaped DEF CompInv, ResolvePending
<1> QED
  BY <1>2, <1>3, <1>4, <1>5 DEF CompInv, CompCore

LEMMA BeginPassInv == ASSUME CompInv, BeginPass PROVE CompInv'
<1>1. CompCore'
  BY DEF CompInv, CompCore, CompTypeOK, OneWinner, ReversalsBacked, BeginPass
<1> QED
  BY <1>1, CallsKept DEF CompInv, BeginPass

LEMMA JudgeInv == ASSUME CompInv, NEW x \in Comp, Judge(x) PROVE CompInv'
<1>1. CompCore'
  BY DEF CompInv, CompCore, CompTypeOK, OneWinner, ReversalsBacked, Judge
<1>2. CASE UNCHANGED resolver
  BY <1>2, <1>1, CallsKept DEF CompInv, Judge
<1>3. CASE resolver' = [resolver EXCEPT !["auto"] = Started(x, "reverse_internal")]
  BY <1>1, <1>3, CallMoved, StartedShaped DEF CompInv, Judge, Resolver
<1> QED
  BY <1>2, <1>3 DEF Judge

LEMMA RestartInv == ASSUME CompInv, RestartOrderFlow PROVE CompInv'
<1>1. CompCore'
  BY DEF CompInv, CompCore, CompTypeOK, OneWinner, ReversalsBacked, RestartOrderFlow
<1>2. CallsBacked'
  BY NoCallShaped DEF RestartOrderFlow, CallsBacked, CallShaped
<1> QED
  BY <1>1, <1>2 DEF CompInv

LEMMA CompStep == CompInv /\ [CompNext]_compVars => CompInv'
<1> SUFFICES ASSUME CompInv, [CompNext]_compVars PROVE CompInv'
  OBVIOUS
<1>1. CASE UNCHANGED compVars
  BY <1>1, CallsKept
  DEF CompInv, CompCore, CompTypeOK, OneWinner, ReversalsBacked, compVars
<1>2. ASSUME NEW r \in Resolver, Progress(r) PROVE CompInv'
  BY <1>2, LoadLegsInv, CreateReversalInv, ResolvePendingInv DEF Progress
<1> QED
  BY <1>1, <1>2, FillLegInv, WritePendingInv, GrowOldInv, JudgeInv, OperatorCallInv,
     BeginPassInv, RestartInv
  DEF CompNext

LEMMA CompInvariant == CompSpec => []CompInv
BY CompInitInv, CompStep, PTL DEF CompSpec

-----------------------------------------------------------------------------
(* The refinement.                                                         *)
LEMMA LifeInit == CompInit => CompLife!Init
BY DEF CompInit, CompLife!Init

(* Only WritePending and ResolvePending write the column.                  *)
LEMMA LifeStep ==
  CompInv /\ [CompNext]_compVars => [CompLife!Next]_comp_status
<1> SUFFICES ASSUME CompInv, [CompNext]_compVars, comp_status' # comp_status
             PROVE  CompLife!Next
  OBVIOUS
<1> DEFINE Moves(x, to) == comp_status' = [comp_status EXCEPT ![x] = to]
           Edges == {<<"none", "pending">>, <<"pending", "resolved">>, <<"pending", "cancelled">>}
<1>1. ASSUME NEW x \in Comp, NEW to, Moves(x, to), <<comp_status[x], to>> \in Edges
      PROVE  CompLife!Next
  <2>1. to \in {"pending", "resolved", "cancelled"}
    BY <1>1
  <2>2. comp_status' \in [Comp -> {"none", "pending", "resolved", "cancelled"}]
    BY <1>1, <2>1 DEF CompInv, CompCore, CompTypeOK
  <2>3. {"none"} \cup {e[2] : e \in Edges} = {"none", "pending", "resolved", "cancelled"}
    OBVIOUS
  <2>4. \A y \in Comp : comp_status'[y] = comp_status[y] \/ <<comp_status[y], comp_status'[y]>> \in Edges
    BY <1>1 DEF CompInv, CompCore, CompTypeOK
  <2> QED
    BY <2>2, <2>3, <2>4 DEF CompLife!Next
<1>2. ASSUME NEW x \in Comp, WritePending(x) PROVE CompLife!Next
  BY <1>1, <1>2 DEF WritePending
<1>3. ASSUME NEW r \in Resolver, ResolvePending(r) PROVE CompLife!Next
  <2> DEFINE x == resolver[r].comp
  <2>1. x \in Comp
    BY <1>3 DEF CompInv, CallsBacked, CallShaped, ResolvePending
  <2>2. Moves(x, Outcome(resolver[r].action)) /\ comp_status[x] = "pending"
    BY <1>3 DEF ResolvePending, Resolves
  <2>3. <<comp_status[x], Outcome(resolver[r].action)>> \in Edges
    BY <2>2 DEF Outcome
  <2> QED
    BY <1>1, <2>1, <2>2, <2>3
<1> QED
  BY <1>2, <1>3
  DEF CompNext, Progress, FillLeg, GrowOld, Judge, OperatorCall, LoadLegs, CreateReversal,
      BeginPass, RestartOrderFlow, compVars

(* The column combo_compensations.status implements the abstract life of a *)
(* status, for any compensations and resolvers: pending, then one final    *)
(* status that nobody overwrites.                                          *)
THEOREM CompensationsImplementLifecycle == CompSpec => CompensationLife
<1>1. CompSpec => CompLife!Spec
  BY LifeInit, LifeStep, CompInvariant, PTL DEF CompSpec, CompLife!Spec
<1> QED
  BY <1>1 DEF CompensationLife
-----------------------------------------------------------------------------
(* The guardrails of the loop.  Spent is a sum over the positions of the   *)
(* window: appending adds a term and pruning takes terms away.             *)
LEMMA SeqTotal ==
  ASSUME NEW w \in Seq(Nat)
  PROVE  /\ Len(w) \in Nat /\ DOMAIN w = 1 .. Len(w) /\ IsFiniteSet(1 .. Len(w))
         /\ \A i \in 1 .. Len(w) : w[i] \in Nat
         /\ Total(w) = SumFunctionOnSet(w, 1 .. Len(w)) /\ Total(w) \in Nat
<1>1. Len(w) \in Nat /\ DOMAIN w = 1 .. Len(w) /\ \A i \in 1 .. Len(w) : w[i] \in Nat
  OBVIOUS
<1>2. IsFiniteSet(1 .. Len(w))
  BY <1>1, FS_Interval
<1>3. Total(w) = SumFunctionOnSet(w, 1 .. Len(w))
  BY <1>1 DEF Total
<1>4. SumFunctionOnSet(w, 1 .. Len(w)) \in Nat
  BY <1>1, <1>2, SumNat
<1> QED
  BY <1>1, <1>2, <1>3, <1>4

LEMMA AppendTotal ==
  ASSUME NEW w \in Seq(Nat), NEW e \in Nat
  PROVE  Total(Append(w, e)) = Total(w) + e
<1> DEFINE v == Append(w, e)
           n == Len(w) + 1
           D == 1 .. n
<1>1. v \in Seq(Nat) /\ Len(v) = n /\ v[n] = e /\ \A i \in 1 .. Len(w) : v[i] = w[i]
  BY AppendProperties
<1>2. /\ Len(w) \in Nat /\ IsFiniteSet(1 .. Len(w)) /\ Total(w) = SumFunctionOnSet(w, 1 .. Len(w))
      /\ (\A i \in 1 .. Len(w) : w[i] \in Nat) /\ Total(w) \in Nat
  BY SeqTotal
<1>3. /\ IsFiniteSet(D) /\ Total(v) = SumFunctionOnSet(v, D) /\ \A i \in D : v[i] \in Nat
  BY <1>1, SeqTotal
<1>4. n \in D /\ D \ {n} = 1 .. Len(w)
  BY <1>2
<1> HIDE DEF v, n, D
<1>5. SumFunctionOnSet(v, D) = v[n] + SumFunctionOnSet(v, D \ {n})
  BY <1>3, <1>4, SumSplit
<1>6. SumFunctionOnSet(w, 1 .. Len(w)) = SumFunctionOnSet(v, 1 .. Len(w))
  <2>1. \A i \in 1 .. Len(w) : w[i] \in Int /\ w[i] = v[i]
    BY <1>1, <1>2
  <2> QED
    BY <1>2, <2>1, SumSame
<1>7. Total(v) = e + Total(w)
  BY <1>1, <1>2, <1>3, <1>4, <1>5, <1>6
<1> QED
  BY <1>2, <1>7 DEF v

(* A part of a sequence has the sum of its positions: induction on the     *)
(* length of the part.                                                     *)
LEMMA ShiftedSum ==
  ASSUME NEW w \in Seq(Nat), NEW v \in Seq(Nat), NEW n \in Nat, n + Len(v) <= Len(w),
         \A i \in 1 .. Len(v) : v[i] = w[n + i]
  PROVE  SumFunctionOnSet(v, 1 .. Len(v)) = SumFunctionOnSet(w, (n + 1) .. (n + Len(v)))
<1> DEFINE Same(k) == SumFunctionOnSet(v, 1 .. k) = SumFunctionOnSet(w, (n + 1) .. (n + k))
           Bad == {k \in 0 .. Len(v) : ~Same(k)}
<1>0. Len(v) \in Nat /\ Len(w) \in Nat /\ (\A i \in 1 .. Len(v) : v[i] \in Nat)
      /\ \A i \in 1 .. Len(w) : w[i] \in Nat
  OBVIOUS
<1>a. Len(v) \in 0 .. Len(v)
  BY <1>0
<1>b. Bad = {} => Same(Len(v))
  <2> HIDE DEF Same
  <2> QED
    BY <1>a
<1> SUFFICES ASSUME Bad # {} PROVE FALSE
  BY <1>b
<1>1. PICK k \in Bad : \A j \in Bad : k <= j
  <2>1. Bad \in SUBSET Nat
    BY <1>0
  <2> HIDE DEF Bad
  <2> QED
    BY <2>1, LeastNumber
<1>2. k \in 0 .. Len(v) /\ ~Same(k)
  OBVIOUS
<1>3. k # 0
  <2>1. 1 .. 0 = {} /\ (n + 1) .. (n + 0) = {}
    OBVIOUS
  <2> QED
    BY <1>2, <2>1, SumEmpty
<1>4. k - 1 \in 0 .. Len(v) /\ k \in 1 .. Len(v) /\ k - 1 < k /\ Same(k - 1)
  <2>1. k - 1 \in 0 .. Len(v) /\ k \in 1 .. Len(v) /\ k - 1 < k
    BY <1>0, <1>2, <1>3
  <2>2. k - 1 \notin Bad
    <3> HIDE DEF Bad
    <3> QED
      BY <1>0, <1>1, <2>1
  <2> QED
    BY <2>1, <2>2
<1> DEFINE D == 1 .. k
           E == (n + 1) .. (n + k)
           m == n + k
<1>5. /\ IsFiniteSet(D) /\ IsFiniteSet(E) /\ k \in D /\ m \in E
      /\ D \ {k} = 1 .. (k - 1) /\ E \ {m} = (n + 1) .. (n + (k - 1))
  <2>1. k \in Nat /\ n + 1 \in Int /\ n + k \in Int
    BY <1>4
  <2>2. IsFiniteSet(D) /\ IsFiniteSet(E)
    BY <2>1, FS_Interval
  <2>3. k \in D /\ m \in E
    BY <1>4, <2>1
  <2>4. D \ {k} = 1 .. (k - 1)
    <3>1. \A i \in D \ {k} : i \in 1 .. (k - 1)
      BY <2>1
    <3>2. \A i \in 1 .. (k - 1) : i \in D \ {k}
      BY <2>1
    <3> QED
      BY <3>1, <3>2
  <2>5. E \ {m} = (n + 1) .. (n + (k - 1))
    <3>0. n \in Nat
      OBVIOUS
    <3>1. \A i \in E \ {m} : i \in (n + 1) .. (n + (k - 1))
      BY <2>1, <3>0
    <3>2. \A i \in (n + 1) .. (n + (k - 1)) : i \in E \ {m}
      BY <2>1, <3>0
    <3> QED
      BY <3>1, <3>2
  <2> QED
    BY <2>2, <2>3, <2>4, <2>5
<1>6. /\ \A i \in D : v[i] \in Int
      /\ \A i \in E : w[i] \in Int
      /\ v[k] = w[m]
  <2>1. \A i \in D : i \in 1 .. Len(v)
    BY <1>0, <1>4
  <2>2. \A i \in E : i \in 1 .. Len(w)
    BY <1>0, <1>4
  <2>0. (\A i \in 1 .. Len(v) : v[i] \in Int) /\ \A i \in 1 .. Len(w) : w[i] \in Int
    <3>1. \A a \in Nat : a \in Int
      OBVIOUS
    <3>2. \A i \in 1 .. Len(v) : v[i] \in Int
      BY <1>0, <3>1, Zenon
    <3>3. \A i \in 1 .. Len(w) : w[i] \in Int
      BY <1>0, <3>1, Zenon
    <3> QED
      BY <3>2, <3>3, Zenon
  <2> HIDE DEF D, E
  <2>3. \A i \in D : v[i] \in Int
    BY <2>0, <2>1
  <2>4. \A i \in E : w[i] \in Int
    BY <2>0, <2>2
  <2>5. v[k] = w[m]
    BY <1>4
  <2> QED
    BY <2>3, <2>4, <2>5
<1>c. Same(k - 1) => SumFunctionOnSet(v, 1 .. (k - 1)) = SumFunctionOnSet(w, (n + 1) .. (n + (k - 1)))
  OBVIOUS
<1> HIDE DEF D, E, m, Same, Bad
<1>7. SumFunctionOnSet(v, D) = v[k] + SumFunctionOnSet(v, D \ {k})
  BY <1>5, <1>6, SumSplit
<1>8. SumFunctionOnSet(w, E) = w[m] + SumFunctionOnSet(w, E \ {m})
  BY <1>5, <1>6, SumSplit
<1>9. SumFunctionOnSet(v, D) = SumFunctionOnSet(w, E)
  BY <1>4, <1>5, <1>6, <1>7, <1>8, <1>c
<1> QED
  BY <1>2, <1>9 DEF D, E, m, Same

(* PruneWindow takes entries off the front.                                *)
LEMMA PrunedTotal ==
  ASSUME NEW w \in Seq(Nat), NEW n \in 0 .. Len(w)
  PROVE  /\ SubSeq(w, n + 1, Len(w)) \in Seq(Nat)
         /\ Len(SubSeq(w, n + 1, Len(w))) <= Len(w)
         /\ Total(SubSeq(w, n + 1, Len(w))) <= Total(w)
<1> DEFINE v == SubSeq(w, n + 1, Len(w))
<1>1. Len(w) \in Nat /\ n \in Nat /\ n + 1 \in 1 .. Len(w) + 1
  OBVIOUS
<1>2. v \in Seq(Nat) /\ Len(v) = (IF n + 1 <= Len(w) THEN Len(w) - (n + 1) + 1 ELSE 0)
      /\ \A i \in 1 .. Len(v) : v[i] = w[(n + 1) + i - 1]
  <2>1. PICK m, k : m = n + 1 /\ k = Len(w)
    OBVIOUS
  <2>2. m \in Int /\ k \in Int /\ m \in 1 .. k + 1
    BY <1>1, <2>1
  <2>3. \A i \in m .. k : w[i] \in Nat
    BY <2>1, <2>2
  <2>4. /\ SubSeq(w, m, k) \in Seq(Nat)
        /\ Len(SubSeq(w, m, k)) = (IF m <= k THEN k - m + 1 ELSE 0)
        /\ \A i \in 1 .. (k - m + 1) : SubSeq(w, m, k)[i] = w[m + i - 1]
    BY <2>2, <2>3, SubSeqProperties
  <2>5. v = SubSeq(w, m, k)
    BY <2>1
  <2> HIDE DEF v
  <2>6. Len(v) = (IF m <= k THEN k - m + 1 ELSE 0) /\ Len(v) = k - m + 1
    BY <2>2, <2>4, <2>5
  <2>7. v \in Seq(Nat) /\ \A i \in 1 .. Len(v) : v[i] = w[m + i - 1]
    BY <2>4, <2>5, <2>6
  <2> QED
    BY <2>1, <2>6, <2>7
<1> HIDE DEF v
<1>3. Len(v) = Len(w) - n
  BY <1>1, <1>2
<1>4. n + Len(v) = Len(w) /\ \A i \in 1 .. Len(v) : v[i] = w[n + i]
  <2>1. \A i \in 1 .. Len(v) : (n + 1) + i - 1 = n + i
    BY <1>1, <1>3
  <2>2. n + Len(v) = Len(w)
    BY <1>1, <1>3
  <2> QED
    BY <1>2, <2>1, <2>2, Zenon
<1>5. SumFunctionOnSet(v, 1 .. Len(v)) = SumFunctionOnSet(w, (n + 1) .. Len(w))
  <2>1. n + Len(v) <= Len(w)
    BY <1>1, <1>4
  <2>2. SumFunctionOnSet(v, 1 .. Len(v)) = SumFunctionOnSet(w, (n + 1) .. (n + Len(v)))
    BY <1>1, <1>2, <1>4, <2>1, ShiftedSum
  <2> QED
    BY <1>4, <2>2
<1>6. SumFunctionOnSet(w, (n + 1) .. Len(w)) <= SumFunctionOnSet(w, 1 .. Len(w))
  <2>1. (n + 1) .. Len(w) \in SUBSET (1 .. Len(w))
    BY <1>1
  <2>2. IsFiniteSet(1 .. Len(w)) /\ \A i \in 1 .. Len(w) : w[i] \in Nat
    BY SeqTotal
  <2> QED
    BY <2>1, <2>2, SumGrows
<1>7. Total(v) <= Total(w)
  BY <1>2, <1>5, <1>6, SeqTotal
<1> QED
  BY <1>1, <1>2, <1>3, <1>7 DEF v

LEMMA EstimateType ==
  ASSUME CompTypeOK PROVE Total(InternalFilled) \in 0 .. ILegMax * Cardinality(ILeg)
<1> DEFINE D == {k \in ILeg : filled_cum[k] > 0}
           f == InternalFilled
           S(T) == SumFunctionOnSet(f, T)
<1>0. IsFiniteSet(ILeg) /\ ILegMax \in Nat /\ Cardinality(ILeg) \in Nat
  BY CompensationAssumption, FS_CardinalityType
<1>1. DOMAIN f = D /\ \A l \in D : f[l] \in 0 .. ILegMax
  BY DEF InternalFilled, CompTypeOK
<1>2. IsFiniteSet(D) /\ Cardinality(D) \in Nat /\ Cardinality(D) <= Cardinality(ILeg)
  <2>1. D \subseteq ILeg
    OBVIOUS
  <2> HIDE DEF D
  <2> QED
    BY <1>0, <2>1, FS_Subset, FS_CardinalityType
<1> HIDE DEF D, f
<1>3. SumFunctionOnSet(f, D) <= ILegMax * Cardinality(D)
  BY <1>0, <1>1, <1>2, SumBound
<1>4. SumFunctionOnSet(f, D) \in Nat
  BY <1>0, <1>1, <1>2, SumNat
<1>5. ILegMax * Cardinality(D) <= ILegMax * Cardinality(ILeg) /\ ILegMax * Cardinality(D) \in Nat
      /\ ILegMax * Cardinality(ILeg) \in Nat
  BY <1>0, <1>2, ProductType, ProductGrows
<1>6. Total(f) = SumFunctionOnSet(f, D)
  BY <1>1 DEF Total
<1>7. Total(f) \in 0 .. ILegMax * Cardinality(ILeg)
  BY <1>3, <1>4, <1>5, <1>6
<1> QED
  BY <1>7 DEF f

LEMMA WindowInit == CompInit => WindowRoom
<1> SUFFICES ASSUME CompInit PROVE WindowRoom
  OBVIOUS
<1>1. window \in Seq(Nat) /\ Len(window) = 0 /\ Spent = 0
  <2>1. window = <<>> /\ window \in Seq(Nat) /\ Len(window) = 0 /\ DOMAIN window = {}
    BY DEF CompInit
  <2> QED
    BY <2>1, SumEmpty DEF Spent, Total
<1>2. resolver["auto"].pc = "idle"
  BY DEF CompInit, NoCall, Resolver
<1>3. estimate \in 0 .. ILegMax * Cardinality(ILeg)
  BY CompensationAssumption, FS_CardinalityType, ProductType DEF CompInit
<1> QED
  BY <1>1, <1>2, <1>3, CompensationAssumption DEF WindowRoom, WindowShaped, RoomFor

(* Steps of the operators and of matching leave the loop alone.            *)
LEMMA WindowKept ==
  ASSUME WindowRoom, UNCHANGED <<window, estimate>>,
         resolver'["auto"].pc \in {resolver["auto"].pc, "idle"}
  PROVE  WindowRoom'
  BY DEF WindowRoom, WindowShaped, RoomFor, Spent

LEMMA WindowTyped ==
  ASSUME WindowRoom
  PROVE  /\ Len(window) \in Nat /\ Spent \in Nat /\ estimate \in Nat
         /\ Len(window) <= MaxPerWindow /\ Spent <= WindowNotional
<1>1. Len(window) \in Nat /\ Spent \in Nat /\ estimate \in Nat
  BY SeqTotal DEF WindowRoom, WindowShaped, Spent
<1> QED
  BY <1>1 DEF WindowRoom, RoomFor

LEMMA WindowStep == CompInv /\ WindowRoom /\ [CompNext]_compVars => WindowRoom'
<1> SUFFICES ASSUME CompInv, WindowRoom, [CompNext]_compVars PROVE WindowRoom'
  OBVIOUS
<1>0. /\ window \in Seq(Nat) /\ Len(window) \in Nat /\ Spent \in Nat /\ estimate \in Nat
      /\ estimate \in 0 .. ILegMax * Cardinality(ILeg)
      /\ Len(window) <= MaxPerWindow /\ Spent <= WindowNotional
      /\ MaxPerWindow \in Nat /\ WindowNotional \in Nat
  BY WindowTyped, CompensationAssumption DEF WindowRoom, WindowShaped
<1>0a. \A a, b, c \in Nat : a <= b /\ b <= c => a + 0 <= c
  OBVIOUS
<1>1. CASE UNCHANGED <<window, resolver, estimate>>
  BY <1>1, WindowKept
<1>2. ASSUME NEW r \in Operator, NEW x \in Comp, NEW a, OperatorCall(r, x, a) PROVE WindowRoom'
  <2>1. resolver'["auto"] = resolver["auto"]
    BY <1>2, CompensationAssumption DEF OperatorCall, CompInv, CallsBacked, Resolver
  <2> QED
    BY <1>2, <2>1, WindowKept DEF OperatorCall, autoVars
<1>3. ASSUME NEW x \in Comp, Judge(x) PROVE WindowRoom'
  <2>1. /\ resolver["auto"].pc = "idle" /\ window' = window /\ estimate' = Total(InternalFilled)
        /\ Spent' = Spent
    BY <1>3 DEF Judge, Spent
  <2>2. estimate' \in 0 .. ILegMax * Cardinality(ILeg) /\ estimate' \in Nat
    BY <2>1, EstimateType DEF CompInv, CompCore
  <2>3. WindowShaped' /\ RoomFor(0, 0)'
    BY <1>0, <2>1, <2>2 DEF WindowShaped, RoomFor
  <2>4. resolver'["auto"].pc # "idle" => RoomFor(1, estimate)'
    <3>1. CASE resolver' = resolver
      BY <2>1, <3>1
    <3>2. CASE AutoReverse(x, Total(InternalFilled))
      <4>1. Len(window) + 1 <= MaxPerWindow /\ Spent + estimate' <= WindowNotional
        BY <1>0, <2>1, <3>2 DEF AutoReverse, TooMany
      <4> QED
        BY <2>1, <4>1 DEF RoomFor
    <3> QED
      BY <1>3, <3>1, <3>2 DEF Judge
  <2> QED
    BY <2>3, <2>4 DEF WindowRoom
<1>4. ASSUME NEW r \in Resolver, LoadLegs(r) \/ CreateReversal(r) PROVE WindowRoom'
  <2>1. resolver["auto"].pc = "idle" => resolver'["auto"].pc = "idle"
    BY <1>4 DEF LoadLegs, CreateReversal, CompInv, CallsBacked, CallShaped, Resolver
  <2>2. window' = window /\ estimate' = estimate
    BY <1>4 DEF LoadLegs, CreateReversal, autoVars
  <2> QED
    BY <2>1, <2>2 DEF WindowRoom, WindowShaped, RoomFor, Spent
<1>5. ASSUME NEW r \in Resolver, ResolvePending(r) PROVE WindowRoom'
  <2>0. estimate' = estimate
    BY <1>5 DEF ResolvePending
  <2>1. resolver'["auto"].pc \in {resolver["auto"].pc, "idle"}
    BY <1>5 DEF ResolvePending, NoCall, CompInv, CallsBacked, Resolver
  <2>2. CASE window' = window
    BY <2>0, <2>1, <2>2, WindowKept
  <2>3. CASE window' = Append(window, estimate) /\ r = "auto"
    <3>1. resolver["auto"].pc # "idle"
      BY <1>5, <2>3 DEF ResolvePending
    <3>2. resolver'["auto"].pc = "idle"
      BY <1>5, <2>3 DEF ResolvePending, NoCall, CompInv, CallsBacked
    <3>3. window' \in Seq(Nat) /\ Len(window') = Len(window) + 1
      BY <1>0, <2>3
    <3>4. Spent' = Spent + estimate
      BY <1>0, <2>3, AppendTotal DEF Spent
    <3>5. Len(window) + 1 <= MaxPerWindow /\ Spent + estimate <= WindowNotional
      BY <3>1 DEF WindowRoom, RoomFor
    <3>6. Len(window') + 0 <= MaxPerWindow /\ Spent' + 0 <= WindowNotional
      BY <1>0, <3>3, <3>4, <3>5
    <3> QED
      BY <1>0, <2>0, <3>2, <3>3, <3>6 DEF WindowRoom, WindowShaped, RoomFor
  <2> QED
    BY <1>5, <2>2, <2>3 DEF ResolvePending
<1>6. ASSUME BeginPass PROVE WindowRoom'
  <2>1. PICK n \in 0 .. Len(window) : window' = SubSeq(window, n + 1, Len(window))
    BY <1>6 DEF BeginPass
  <2>2. window' \in Seq(Nat) /\ Len(window') <= Len(window) /\ Spent' <= Spent
    BY <1>0, <2>1, PrunedTotal DEF Spent
  <2>3. Len(window') \in Nat /\ Spent' \in Nat
    BY <2>2, SeqTotal DEF Spent
  <2>4. resolver'["auto"].pc = "idle" /\ estimate' = estimate
    BY <1>6 DEF BeginPass, Idle
  <2>5. Len(window') + 0 <= MaxPerWindow /\ Spent' + 0 <= WindowNotional
    BY <1>0, <1>0a, <2>2, <2>3
  <2> QED
    BY <1>0, <2>2, <2>4, <2>5 DEF WindowRoom, WindowShaped, RoomFor
<1>7. ASSUME RestartOrderFlow PROVE WindowRoom'
  <2>1. window' = <<>> /\ window' \in Seq(Nat) /\ Len(window') = 0 /\ DOMAIN window' = {} /\ estimate' = 0
    BY <1>7 DEF RestartOrderFlow
  <2>2. resolver' = [r \in Resolver |-> NoCall]
    BY <1>7 DEF RestartOrderFlow
  <2>3. resolver'["auto"].pc = "idle"
    BY <2>2 DEF NoCall, Resolver
  <2>4. Spent' = 0
    BY <2>1, SumEmpty DEF Spent, Total
  <2>5. 0 \in 0 .. ILegMax * Cardinality(ILeg)
    BY CompensationAssumption, FS_CardinalityType, ProductType
  <2> QED
    BY <1>0, <2>1, <2>3, <2>4, <2>5 DEF WindowRoom, WindowShaped, RoomFor
<1> QED
  BY <1>1, <1>2, <1>3, <1>4, <1>5, <1>6, <1>7
  DEF CompNext, Progress, FillLeg, WritePending, GrowOld, autoVars, compVars

(* The loop never has more resolutions in its window than max_per_window,  *)
(* nor more notional than the window allows, although it judges a          *)
(* candidate several steps before the gate says whether it was applied and *)
(* the legs go on filling meanwhile (EvaluateAutoResolve, RunOnce).        *)
THEOREM LoopKeepsGuardrails == CompSpec => []WithinGuardrails
<1>1. WindowRoom => WithinGuardrails
  BY WindowTyped DEF WindowRoom, WindowShaped, WithinGuardrails
<1> QED
  BY <1>1, WindowInit, WindowStep, CompInvariant, PTL DEF CompSpec

(* However operators, the loop, retries and restarts interleave, for any   *)
(* number of compensations, legs and faults: at most one of those that     *)
(* work on a compensation is told that it resolved it, its orders take     *)
(* back no more of a leg than the leg has traded, and the loop stays       *)
(* within its guardrails (ResolveCompensation, AutoResolveLoop).           *)
THEOREM CompensationsAreSafe == CompSpec => []CompSafety
<1>1. CompInv /\ WithinGuardrails => CompSafety
  BY DEF CompInv, CompCore, CompSafety
<1> QED
  BY <1>1, CompInvariant, LoopKeepsGuardrails, PTL
-----------------------------------------------------------------------------
(* Combo orders.  What the timer thread read, what it is about to write,   *)
(* and the answers of the venues that are still to be handled.             *)
LegRow       == [status : LegStatus, filled : Nat, qmax : Nat]
BatchStages  == {"idle", "route", "persist", "graph", "transit"}
HandlerStage == {"idle", "mark", "record", "commit"}
BatchFields  == {"pc", "n", "loaded", "route", "groups", "cur", "exec", "graph"}
Chunk        == [leg : {l \in Leg : External(l)}, qty : Nat, open : BOOLEAN]
VenueReport  == [leg : {l \in Leg : External(l)}, qty : Nat, status : Statuses]

BatchShaped ==
  /\ DOMAIN batch = BatchFields
  /\ batch.pc \in BatchStages
  /\ \A l \in DOMAIN batch.loaded : l \in Leg /\ batch.loaded[l] \in LegRow
  /\ batch.route \subseteq DOMAIN batch.loaded
  /\ \A l \in batch.route : External(l)
  /\ batch.groups \subseteq Combo

TopicsShaped ==
  /\ intents \in Seq(Chunk) /\ reports \in Seq(VenueReport)
  /\ \A i \in DOMAIN intents : intents[i].qty <= Def[intents[i].leg].rate
  /\ \A r \in DOMAIN reports : reports[r].qty <= Def[reports[r].leg].rate
  /\ handler \in [pc : HandlerStage, next : Nat \ {0}]
  /\ handler.next <= Len(reports) + 1
  /\ handler.pc # "idle" => handler.next <= Len(reports)
  /\ handler.pc = "mark" => reports[handler.next].status # "OTHER"

(* Nobody but the timer thread writes the fills of an internal leg, so     *)
(* what it loaded is still true of the groups it has not solved yet.       *)
LoadedIsFresh ==
  \A l \in DOMAIN batch.loaded :
    ~External(l) /\ Def[l].combo \in batch.groups =>
      batch.loaded[l].filled = legs[l].filled /\ batch.loaded[l].qmax = legs[l].qmax

(* The group in progress fits the rows it will be written to.              *)
FitsRow(l, q) ==
  /\ l \in Leg /\ Def[l].combo = batch.cur /\ ~External(l) /\ q \in Nat
  /\ OwnSymbol(l) => q <= Def[l].rate /\ legs[l].filled + q <= legs[l].qmax

CurrentFits ==
  /\ batch.pc \in {"persist", "graph", "transit"} => batch.cur \in Combo \ batch.groups
  /\ batch.pc = "persist" => \A l \in DOMAIN batch.exec : FitsRow(l, batch.exec[l])
  /\ batch.pc = "transit" => \A l \in DOMAIN batch.graph.resize :
                               /\ l \in Leg /\ Def[l].combo = batch.cur
                               /\ batch.graph.resize[l] \in Nat

ChunksOut(l) == Cardinality(OpenChunks(l)) + Cardinality(Untaken(l))
Flagged(l)   == IF l \in external_in_flight THEN 1 ELSE 0

FlagCovers == \A l \in Leg : ChunksOut(l) <= Flagged(l) + 2 * faults

(* The volume of the fills of a leg that its row may still be given.       *)
Unmarked(l) == {r \in handler.next .. Len(reports) :
                  /\ reports[r].leg = l /\ reports[r].status = "FILLED"
                  /\ r = handler.next => handler.pc \in {"idle", "mark"}}
Qty  == [r \in DOMAIN reports |-> reports[r].qty]
Owed(l) == SumFunctionOnSet(Qty, Unmarked(l))
Slack(l) == faults * Def[l].rate

OwedIsReal ==
  \A l \in Leg : External(l) => legs[l].filled + Owed(l) <= executed[l] + Slack(l)

ComboInv ==
  /\ ComboTypeOK /\ BatchShaped /\ TopicsShaped
  /\ LoadedIsFresh /\ CurrentFits /\ BookMatchesTopic /\ FlagCovers /\ OwedIsReal
-----------------------------------------------------------------------------
LEMMA LegDef ==
  ASSUME CombosAssumption, NEW l \in Leg
  PROVE  /\ Def[l].combo \in Combo /\ Def[l].ratio \in Nat /\ Def[l].rate \in Nat
         /\ Def[l].qmax \in Nat /\ l \in Nat
  BY DEF CombosAssumption

LEMMA SlackGrows ==
  ASSUME CombosAssumption, faults \in Nat, faults' \in {faults, faults + 1}, NEW l \in Leg
  PROVE  /\ Slack(l) \in Nat /\ Slack(l)' \in Nat /\ Slack(l) <= Slack(l)'
         /\ faults' = faults => Slack(l)' = Slack(l)
         /\ faults' = faults + 1 => Slack(l)' = Slack(l) + Def[l].rate
<1>1. Def[l].rate \in Nat
  BY LegDef
<1>2. Slack(l) \in Nat /\ Slack(l)' \in Nat
  BY <1>1, ProductType DEF Slack
<1>3. faults' = faults => Slack(l)' = Slack(l)
  BY DEF Slack
<1>4. faults' = faults + 1 => Slack(l)' = Slack(l) + Def[l].rate
  BY <1>1, OneMoreTimes DEF Slack
<1> QED
  BY <1>1, <1>2, <1>3, <1>4

LEMMA QuotientType ==
  ASSUME NEW a \in Nat, NEW b \in Nat \ {0} PROVE a \div b \in Nat
<1>1. /\ a \div b \in Int /\ a % b \in Nat /\ a % b < b
      /\ a = b * (a \div b) + (a % b)
  OBVIOUS
<1>2. \A q \in Int, r, c \in Nat : q < 0 /\ r < c => c * q + r < 0
  <2> SUFFICES ASSUME NEW q \in Int, NEW r \in Nat, NEW c \in Nat, q < 0, r < c PROVE c * q + r < 0
    OBVIOUS
  <2>1. c * q = c * (q + 1) - c
    OBVIOUS
  <2>2. -(q + 1) \in Nat
    OBVIOUS
  <2>3. c * (-(q + 1)) \in Nat
    BY <2>2, ProductType
  <2>4. c * (q + 1) = -(c * (-(q + 1)))
    OBVIOUS
  <2> QED
    BY <2>1, <2>3, <2>4
<1> QED
  BY <1>1, <1>2

LEMMA DivHalfUpNat ==
  ASSUME NEW n \in Nat, NEW d \in Nat \ {0} PROVE DivHalfUp(n, d) \in Nat
<1>1. 2 * n + d \in Nat /\ 2 * d \in Nat \ {0} /\ n >= 0
  OBVIOUS
<1>2. DivHalfUp(n, d) = (2 * n + d) \div (2 * d)
  BY <1>1 DEF DivHalfUp
<1>3. (2 * n + d) \div (2 * d) \in Nat
  BY <1>1, QuotientType
<1> QED
  BY <1>2, <1>3

-----------------------------------------------------------------------------
(* ComputeFeasibleCaps and Solve on the legs of a group.                   *)
SolverLeg == [id : Nat, symbol : STRING, ratio : Nat, rate : Nat, qmax : Nat, filled : Nat]

LEMMA FeasibleCapFits ==
  ASSUME NEW leg \in SolverLeg
  PROVE  /\ FeasibleCap(leg) \in Nat /\ FeasibleCap(leg) <= leg.rate
         /\ leg.filled <= leg.qmax => leg.filled + FeasibleCap(leg) <= leg.qmax
  BY DEF SolverLeg, FeasibleCap, Lesser, Remaining

LEMMA CapOfFits ==
  ASSUME NEW group \in SUBSET SolverLeg, NEW I, IsFiniteSet(I), \A k \in group : k.id \in I,
         NEW leg \in group
  PROVE  /\ CapOf(group, leg) \in Nat
         /\ (\A k \in group : k.symbol = leg.symbol => k = leg) => CapOf(group, leg) = FeasibleCap(leg)
<1> DEFINE Peers == {k \in group : k.symbol = leg.symbol}
           Ids   == {k.id : k \in Peers}
           Wins(l) == l.symbol = leg.symbol /\ \A k \in group : k.symbol = leg.symbol => k.id <= l.id
           winner == CHOOSE l \in group : Wins(l)
<1>1. Ids \in SUBSET Nat /\ Ids # {} /\ IsFiniteSet(Ids)
  <2>1. Ids \subseteq I
    OBVIOUS
  <2> QED
    BY <2>1, FS_Subset DEF SolverLeg
<1>2. PICK n \in Ids : \A m \in Ids : m <= n
  <2> HIDE DEF Ids
  <2> QED
    BY <1>1, GreatestNumber
<1>3. PICK top \in Peers : top.id = n
  OBVIOUS
<1>4. top \in group /\ Wins(top)
  BY <1>2, <1>3
<1> HIDE DEF Wins
<1>5. winner \in group /\ Wins(winner)
  BY <1>4
<1>6. CapOf(group, leg) = FeasibleCap(winner)
  BY DEF CapOf, Wins
<1>7. (\A k \in group : k.symbol = leg.symbol => k = leg) => winner = leg
  BY <1>5 DEF Wins
<1> HIDE DEF winner
<1> QED
  BY <1>5, <1>6, <1>7, FeasibleCapFits

LEMMA LeastType ==
  ASSUME NEW S \in SUBSET Nat, S # {} PROVE Least(S) \in Nat
<1>1. PICK n \in S : \A m \in S : n <= m
  BY LeastNumber
<1> QED
  BY <1>1 DEF Least

(* What Solve gives a leg is a quantity, and no more than the leg can take *)
(* unless another leg of the group has its symbol.                         *)
LEMMA SolveFits ==
  ASSUME NEW group \in SUBSET SolverLeg, NEW I, IsFiniteSet(I), \A k \in group : k.id \in I,
         \A j, k \in group : j.id = k.id => j = k,
         NEW policy, NEW minScale, NEW leg \in group, leg.id \in DOMAIN Solve(group, policy, minScale)
  PROVE  /\ Solve(group, policy, minScale)[leg.id] \in Nat
         /\ (\A k \in group : k.symbol = leg.symbol => k = leg) =>
               Solve(group, policy, minScale)[leg.id] <= FeasibleCap(leg)
<1> DEFINE L(i) == CHOOSE l \in group : l.id = i
           ids  == {l.id : l \in Sized(group)}
           g    == GExec(group, policy, minScale)
           cap  == CapOf(group, leg)
<1>1. L(leg.id) = leg
  OBVIOUS
<1>2. Solve(group, policy, minScale) =
        IF ids = {} THEN <<>>
        ELSE IF policy = "best_effort" THEN [i \in ids |-> CapOf(group, L(i))]
        ELSE IF g = 0 THEN <<>>
        ELSE [i \in ids |-> Lesser(g * L(i).ratio, CapOf(group, L(i)))]
  BY DEF Solve
<1>3. cap \in Nat
  BY CapOfFits
<1>4. \A l \in group : CapOf(group, l) \in Nat /\ l.ratio \in Nat
  BY CapOfFits DEF SolverLeg
<1>5. leg.ratio \in Nat /\ leg.id \in Nat
  BY DEF SolverLeg
<1>6. leg.id \in ids => Sized(group) # {}
  OBVIOUS
<1>7. Sized(group) # {} => Feasible(group) \in Nat
  <2> DEFINE F == {DivHalfUp(CapOf(group, l), l.ratio) : l \in Sized(group)}
  <2>1. \A l \in Sized(group) : DivHalfUp(CapOf(group, l), l.ratio) \in Nat
    <3> SUFFICES ASSUME NEW l \in Sized(group) PROVE DivHalfUp(CapOf(group, l), l.ratio) \in Nat
      OBVIOUS
    <3>1. CapOf(group, l) \in Nat /\ l.ratio \in Nat \ {0}
      BY <1>4 DEF Sized
    <3> QED
      BY <3>1, DivHalfUpNat
  <2>2. Sized(group) # {} => F \in SUBSET Nat /\ F # {}
    BY <2>1
  <2>3. Feasible(group) = Least(F)
    BY DEF Feasible
  <2> HIDE DEF F
  <2> QED
    BY <2>2, <2>3, LeastType
<1>8. Sized(group) # {} => g \in Nat
  <2>1. g = 0 \/ g = Feasible(group)
    BY DEF GExec
  <2> QED
    BY <2>1, <1>7
<1> HIDE DEF L, g, cap
<1>9. CASE ids = {} \/ (policy # "best_effort" /\ g = 0)
  <2>1. Solve(group, policy, minScale) = <<>>
    BY <1>2, <1>9
  <2>2. leg.id \notin DOMAIN <<>>
    OBVIOUS
  <2> QED
    BY <2>1, <2>2
<1>10. CASE ids # {} /\ policy = "best_effort"
  <2>1. leg.id \in ids /\ Solve(group, policy, minScale)[leg.id] = CapOf(group, leg)
    BY <1>1, <1>2, <1>10
  <2> QED
    BY <2>1, <1>3, CapOfFits, FeasibleCapFits DEF cap
<1>11. CASE ids # {} /\ policy # "best_effort" /\ g # 0
  <2>1. leg.id \in ids /\ Solve(group, policy, minScale)[leg.id] = Lesser(g * leg.ratio, cap)
    BY <1>1, <1>2, <1>11 DEF cap
  <2>2. g * leg.ratio \in Nat
    BY <1>5, <1>6, <1>8, <2>1, ProductType
  <2>3. Lesser(g * leg.ratio, cap) \in Nat /\ Lesser(g * leg.ratio, cap) <= cap
    BY <2>2, <1>3 DEF Lesser
  <2>4. (\A k \in group : k.symbol = leg.symbol => k = leg) => cap = FeasibleCap(leg)
    BY CapOfFits DEF cap
  <2> HIDE DEF ids
  <2> QED
    BY <2>1, <2>3, <2>4
<1> HIDE DEF ids
<1> QED
  BY <1>9, <1>10, <1>11
-----------------------------------------------------------------------------
LEMMA ReportAt ==
  ASSUME TopicsShaped, NEW r \in 1 .. Len(reports)
  PROVE  /\ reports[r] \in VenueReport /\ r \in DOMAIN reports
         /\ reports[r].leg \in Leg /\ External(reports[r].leg)
         /\ reports[r].qty \in Nat /\ reports[r].qty <= Def[reports[r].leg].rate
<1>1. r \in DOMAIN reports /\ reports[r] \in VenueReport
  BY DEF TopicsShaped
<1> QED
  BY <1>1 DEF TopicsShaped, VenueReport

LEMMA SetsFinite ==
  ASSUME TopicsShaped, NEW l \in Leg
  PROVE  /\ IsFiniteSet(OpenChunks(l)) /\ Cardinality(OpenChunks(l)) \in Nat
         /\ IsFiniteSet(Untaken(l)) /\ Cardinality(Untaken(l)) \in Nat /\ ChunksOut(l) \in Nat
         /\ IsFiniteSet(Unmarked(l)) /\ \A r \in Unmarked(l) : Qty[r] \in Nat
         /\ Owed(l) \in Nat
<1>1. Len(intents) \in Nat /\ DOMAIN intents = 1 .. Len(intents)
      /\ Len(reports) \in Nat /\ DOMAIN reports = 1 .. Len(reports) /\ handler.next \in Nat \ {0}
  BY DEF TopicsShaped
<1>2. OpenChunks(l) \subseteq 1 .. Len(intents) /\ Untaken(l) \subseteq 1 .. Len(reports)
      /\ Unmarked(l) \subseteq 1 .. Len(reports)
  BY <1>1 DEF OpenChunks, Untaken, Unmarked
<1>3. IsFiniteSet(1 .. Len(intents)) /\ IsFiniteSet(1 .. Len(reports))
  BY <1>1, FS_Interval
<1>4. IsFiniteSet(OpenChunks(l)) /\ IsFiniteSet(Untaken(l)) /\ IsFiniteSet(Unmarked(l))
  BY <1>2, <1>3, FS_Subset
<1>5. Cardinality(OpenChunks(l)) \in Nat /\ Cardinality(Untaken(l)) \in Nat
  BY <1>4, FS_CardinalityType
<1>6. ASSUME NEW r \in Unmarked(l) PROVE Qty[r] \in Nat
  <2>1. r \in 1 .. Len(reports)
    BY <1>2
  <2>2. Qty[r] = reports[r].qty
    BY <1>1, <2>1 DEF Qty
  <2> QED
    BY <2>1, <2>2, ReportAt
<1>7. Owed(l) \in Nat
  BY <1>4, <1>6, SumNat DEF Owed
<1> QED
  BY <1>4, <1>5, <1>6, <1>7 DEF ChunksOut

LEMMA ComboInvSafe == ASSUME CombosAssumption, ComboInv PROVE ComboSafety
<1>1. OneChunkOut
  <2> SUFFICES ASSUME NEW l \in Leg
               PROVE  Cardinality(OpenChunks(l)) + Cardinality(Untaken(l)) <= 1 + 2 * faults
    BY DEF OneChunkOut
  <2>1. ChunksOut(l) <= Flagged(l) + 2 * faults /\ faults \in Nat
    BY DEF ComboInv, FlagCovers, ComboTypeOK
  <2>2. ChunksOut(l) \in Nat
    BY SetsFinite DEF ComboInv
  <2>3. Flagged(l) \in {0, 1}
    BY DEF Flagged
  <2>4. ChunksOut(l) <= 1 + 2 * faults
    BY <2>1, <2>2, <2>3
  <2> QED
    BY <2>4 DEF ChunksOut
<1>2. FilledIsReal
  <2> SUFFICES ASSUME NEW l \in Leg, External(l)
               PROVE  legs[l].filled <= executed[l] + faults * Def[l].rate
    BY DEF FilledIsReal
  <2>1. legs[l].filled + Owed(l) <= executed[l] + Slack(l)
    BY DEF ComboInv, OwedIsReal
  <2>2. legs[l].filled \in Nat /\ executed[l] \in Nat /\ faults \in Nat
    BY DEF ComboInv, ComboTypeOK
  <2>3. Owed(l) \in Nat /\ Slack(l) \in Nat
    BY <2>2, SetsFinite, LegDef, ProductType DEF ComboInv, Slack
  <2>4. legs[l].filled <= executed[l] + Slack(l)
    BY <2>1, <2>2, <2>3
  <2> QED
    BY <2>4 DEF Slack
<1> QED
  BY <1>1, <1>2 DEF ComboSafety, ComboInv

LEMMA ComboInitInv == ASSUME CombosAssumption, ComboInit PROVE ComboInv
<1> USE DEF ComboInit
<1>1. ComboTypeOK
  <2>1. \A l \in Leg : Def[l].qmax \in Nat
    BY LegDef
  <2>2. MaxFaults \in Nat
    BY DEF CombosAssumption
  <2>3. legs \in [Leg -> LegRow]
    BY <2>1 DEF LegRow, LegStatus
  <2>4. \A l \in Leg : legs[l].filled <= legs[l].qmax
    BY <2>1
  <2> QED
    BY <2>2, <2>3, <2>4 DEF ComboTypeOK, LegRow
<1>2. BatchShaped
  BY DEF BatchShaped, IdleBatch, BatchFields, BatchStages
<1>3. TopicsShaped
  <2>1. \A S : <<>> \in Seq(S) /\ Len(<<>>) = 0 /\ DOMAIN <<>> = {}
    OBVIOUS
  <2> QED
    BY <2>1 DEF TopicsShaped, HandlerStage
<1>4. LoadedIsFresh /\ CurrentFits
  BY DEF LoadedIsFresh, CurrentFits, IdleBatch
<1>5. ASSUME NEW l \in Leg
      PROVE  /\ OpenChunks(l) = {} /\ Untaken(l) = {} /\ Unmarked(l) = {}
             /\ ChunksOut(l) = 0 /\ Owed(l) = 0 /\ Slack(l) \in Nat
  <2>1. OpenChunks(l) = {} /\ Untaken(l) = {} /\ Unmarked(l) = {}
    BY DEF OpenChunks, Untaken, Unmarked
  <2>2. Owed(l) = 0
    BY <2>1, SumEmpty DEF Owed
  <2>3. Slack(l) \in Nat
    BY LegDef, ProductType DEF Slack
  <2> QED
    BY <2>1, <2>2, <2>3, FS_EmptySet DEF ChunksOut
<1>6. BookMatchesTopic
  <2>1. \A l \in Leg : InProgress(l) = 0
    BY DEF InProgress, IdleBatch
  <2>2. \A l \in Leg : faults * Def[l].rate \in Nat
    BY LegDef, ProductType
  <2> QED
    BY <2>1, <2>2 DEF BookMatchesTopic
<1>7. FlagCovers
  BY <1>5 DEF FlagCovers, Flagged
<1>8. OwedIsReal
  BY <1>5 DEF OwedIsReal
<1> QED
  BY <1>1, <1>2, <1>3, <1>4, <1>6, <1>7, <1>8 DEF ComboInv

-----------------------------------------------------------------------------
(* Steps that leave one of the threads, a topic or the fills alone.        *)
SameFills(S) == \A l \in S : legs'[l].filled = legs[l].filled /\ legs'[l].qmax = legs[l].qmax
FaultCounted == faults' \in {faults, faults + 1}

LEMMA FaultsBounded ==
  ASSUME CombosAssumption, ComboTypeOK, UNCHANGED faults \/ Fault
  PROVE  FaultCounted /\ faults' <= MaxFaults /\ faults \in Nat
<1>1. MaxFaults \in Nat /\ faults \in 0 .. MaxFaults
  BY DEF CombosAssumption, ComboTypeOK
<1> QED
  BY <1>1 DEF Fault, FaultCounted

LEMMA BatchPartKept ==
  ASSUME BatchShaped, LoadedIsFresh, CurrentFits, UNCHANGED batch,
         SameFills({l \in Leg : ~External(l)})
  PROVE  BatchShaped' /\ LoadedIsFresh' /\ CurrentFits'
<1>1. BatchShaped'
  BY DEF BatchShaped
<1>2. LoadedIsFresh'
  BY DEF LoadedIsFresh, SameFills, BatchShaped
<1>3. CurrentFits'
  <2>1. \A l, q : FitsRow(l, q) => FitsRow(l, q)'
    BY DEF FitsRow, SameFills, OwnSymbol
  <2> QED
    BY <2>1 DEF CurrentFits
<1> QED
  BY <1>1, <1>2, <1>3

LEMMA BookKept ==
  ASSUME CombosAssumption, ComboInv, FaultCounted, UNCHANGED published, legs' \in [Leg -> LegRow],
         \A l \in Leg : ~External(l) => legs'[l].filled = legs[l].filled,
         \A l \in Leg : ~External(l) => InProgress(l) \in Nat /\ InProgress(l)' = InProgress(l)
  PROVE  BookMatchesTopic'
<1> SUFFICES ASSUME NEW l \in Leg, ~External(l), OwnSymbol(l)
             PROVE  /\ published'[l] <= legs'[l].filled + InProgress(l)' + Slack(l)'
                    /\ legs'[l].filled + InProgress(l)' <= published'[l] + Slack(l)'
  BY DEF BookMatchesTopic, OwnSymbol, Slack
<1>1. /\ published[l] <= legs[l].filled + InProgress(l) + Slack(l)
      /\ legs[l].filled + InProgress(l) <= published[l] + Slack(l)
  BY DEF BookMatchesTopic, ComboInv, Slack
<1>2. legs[l].filled \in Nat /\ published[l] \in Nat /\ faults \in Nat
  BY DEF ComboInv, ComboTypeOK
<1>3. Slack(l) \in Nat /\ Slack(l)' \in Nat /\ Slack(l) <= Slack(l)'
  BY <1>2, SlackGrows DEF FaultCounted
<1> QED
  BY <1>1, <1>2, <1>3

LEMMA FlagsKept ==
  ASSUME ComboInv, FaultCounted,
         \A l \in Leg : ChunksOut(l)' = ChunksOut(l) /\ Flagged(l)' = Flagged(l)
  PROVE  FlagCovers'
<1>1. faults \in Nat /\ faults' \in Nat /\ faults <= faults'
  BY DEF FaultCounted, ComboInv, ComboTypeOK
<1>2. \A l \in Leg : ChunksOut(l) <= Flagged(l) + 2 * faults /\ ChunksOut(l) \in Nat
  BY SetsFinite DEF ComboInv, FlagCovers
<1>3. \A l \in Leg : Flagged(l) \in {0, 1}
  BY DEF Flagged
<1>4. \A l \in Leg : ChunksOut(l) <= Flagged(l) + 2 * faults'
  BY <1>1, <1>2, <1>3
<1> QED
  BY <1>4 DEF FlagCovers

LEMMA OwedKept ==
  ASSUME CombosAssumption, ComboInv, FaultCounted, UNCHANGED executed, legs' \in [Leg -> LegRow],
         \A l \in Leg : External(l) => /\ legs'[l].filled = legs[l].filled
                                       /\ Owed(l)' \in Nat /\ Owed(l)' <= Owed(l)
  PROVE  OwedIsReal'
<1> SUFFICES ASSUME NEW l \in Leg, External(l)
             PROVE  legs'[l].filled + Owed(l)' <= executed'[l] + Slack(l)'
  BY DEF OwedIsReal
<1>1. legs[l].filled + Owed(l) <= executed[l] + Slack(l)
  BY DEF ComboInv, OwedIsReal
<1>2. legs[l].filled \in Nat /\ executed[l] \in Nat /\ faults \in Nat
  BY DEF ComboInv, ComboTypeOK
<1>3. Slack(l) \in Nat /\ Slack(l)' \in Nat /\ Slack(l) <= Slack(l)'
  BY <1>2, SlackGrows DEF FaultCounted
<1>4. Owed(l) \in Nat /\ Owed(l)' \in Nat /\ Owed(l)' <= Owed(l)
  BY SetsFinite DEF ComboInv
<1> QED
  BY <1>1, <1>2, <1>3, <1>4

LEMMA TopicsKept ==
  ASSUME TopicsShaped, UNCHANGED <<intents, reports, handler>>
  PROVE  /\ TopicsShaped'
         /\ \A l \in Leg : /\ ChunksOut(l)' = ChunksOut(l)
                           /\ Owed(l)' = Owed(l) /\ Owed(l)' \in Nat
<1>1. TopicsShaped'
  BY DEF TopicsShaped
<1>2. ASSUME NEW l \in Leg PROVE ChunksOut(l)' = ChunksOut(l) /\ Owed(l)' = Owed(l)
  BY DEF ChunksOut, OpenChunks, Untaken, Owed, Unmarked, Qty
<1>3. \A l \in Leg : Owed(l) \in Nat
  BY SetsFinite
<1> QED
  BY <1>1, <1>2, <1>3

LEMMA InProgressType ==
  ASSUME BatchShaped, CurrentFits, NEW l \in Leg
  PROVE  InProgress(l) \in Nat
  BY DEF CurrentFits, FitsRow, InProgress
-----------------------------------------------------------------------------
(* order_flow writes statuses and nothing else.                            *)
LEMMA OrderFlowSteps ==
  ASSUME CombosAssumption, ComboInv, NEW c \in Combo,
         CreateComboOrder(c) \/ CheckCancel(c) \/ CancelComboAndLegs(c)
  PROVE  ComboInv'
<1> DEFINE ComboStatus == {"none", "active", "partially_filled", "filled", "cancelled"}
<1>0. ComboTypeOK /\ BatchShaped /\ TopicsShaped /\ LoadedIsFresh /\ CurrentFits
  BY DEF ComboInv
<1>1. /\ UNCHANGED <<external_in_flight, batch, handler>>
      /\ UNCHANGED <<intents, reports, published, executed, faults>>
  BY DEF CreateComboOrder, CheckCancel, CancelComboAndLegs, memory, topics
<1>2. legs \in [Leg -> LegRow] /\ combo_orders \in [Combo -> ComboStatus]
  BY <1>0 DEF ComboTypeOK, LegRow
<1>3. legs' \in [Leg -> LegRow] /\ SameFills(Leg)
  <2>1. ASSUME NEW S \in SUBSET Leg, NEW st \in LegStatus,
               legs' = [l \in Leg |-> IF l \in S THEN [legs[l] EXCEPT !.status = st] ELSE legs[l]]
        PROVE  legs' \in [Leg -> LegRow] /\ SameFills(Leg)
    BY <1>2, <2>1 DEF SameFills, LegRow
  <2>2. CASE CreateComboOrder(c)
    <3> DEFINE S == LegsOf(c)
    <3>1. /\ S \in SUBSET Leg /\ "active" \in LegStatus
          /\ legs' = [l \in Leg |-> IF l \in S THEN [legs[l] EXCEPT !.status = "active"] ELSE legs[l]]
      BY <2>2 DEF CreateComboOrder, LegStatus, LegsOf
    <3> QED
      BY <3>1, <2>1
  <2>3. CASE CheckCancel(c)
    BY <1>2, <2>3 DEF CheckCancel, tables, SameFills
  <2>4. CASE CancelComboAndLegs(c)
    <3> DEFINE S == {l \in LegsOf(c) : legs[l].status \notin {"filled", "cancelled"}}
    <3>1. /\ S \in SUBSET Leg /\ "cancelled" \in LegStatus
          /\ legs' = [l \in Leg |-> IF l \in S THEN [legs[l] EXCEPT !.status = "cancelled"] ELSE legs[l]]
      BY <2>4 DEF CancelComboAndLegs, LegStatus, LegsOf
    <3> QED
      BY <3>1, <2>1
  <2> QED
    BY <2>2, <2>3, <2>4
<1>4. combo_orders' \in [Combo -> ComboStatus]
  BY <1>2 DEF CreateComboOrder, CheckCancel, CancelComboAndLegs, tables
<1>5. cancelling' \subseteq Combo
  BY <1>0 DEF CreateComboOrder, CheckCancel, CancelComboAndLegs, ComboTypeOK
<1>6. ComboTypeOK'
  <2>1. \A l \in Leg : legs'[l].filled <= legs'[l].qmax
    BY <1>0, <1>3 DEF ComboTypeOK, SameFills
  <2> QED
    BY <1>0, <1>1, <1>3, <1>4, <1>5, <2>1 DEF ComboTypeOK, LegRow
<1>7. BatchShaped' /\ LoadedIsFresh' /\ CurrentFits'
  <2>1. SameFills({l \in Leg : ~External(l)})
    BY <1>3 DEF SameFills
  <2> QED
    BY <1>0, <1>1, <2>1, BatchPartKept
<1>8. TopicsShaped' /\ \A l \in Leg : /\ ChunksOut(l)' = ChunksOut(l) /\ Owed(l)' = Owed(l)
                                      /\ Owed(l)' \in Nat
  BY <1>0, <1>1, TopicsKept
<1>9. FaultCounted /\ \A l \in Leg : Flagged(l)' = Flagged(l)
  BY <1>1 DEF FaultCounted, Flagged
<1>10. BookMatchesTopic'
  <2>1. \A l \in Leg : InProgress(l) \in Nat /\ InProgress(l)' = InProgress(l)
    BY <1>0, <1>1, InProgressType DEF InProgress
  <2> QED
    BY <1>1, <1>3, <1>9, <2>1, BookKept DEF SameFills
<1>11. FlagCovers'
  BY <1>8, <1>9, FlagsKept
<1>12. OwedIsReal'
  BY <1>1, <1>3, <1>8, <1>9, OwedKept DEF SameFills
<1> QED
  BY <1>6, <1>7, <1>8, <1>10, <1>11, <1>12 DEF ComboInv

-----------------------------------------------------------------------------
(* The timer thread.  Most of its steps leave the rows alone; a failure    *)
(* may be counted.                                                         *)
LEMMA TimerStep ==
  ASSUME CombosAssumption, ComboInv, FaultCounted, faults' <= MaxFaults,
         UNCHANGED <<tables, handler, reports, published, executed, cancelling>>,
         BatchShaped', LoadedIsFresh', CurrentFits', TopicsShaped', FlagCovers',
         external_in_flight' \subseteq Leg,
         \A l \in Leg : InProgress(l)' = InProgress(l)
  PROVE  ComboInv'
<1>0. ComboTypeOK /\ BatchShaped /\ TopicsShaped /\ LoadedIsFresh /\ CurrentFits
  BY DEF ComboInv
<1>1. ComboTypeOK'
  BY <1>0 DEF ComboTypeOK, FaultCounted, tables
<1>2. legs' = legs /\ legs' \in [Leg -> LegRow]
  BY <1>0 DEF ComboTypeOK, LegRow, tables
<1>3. \A l \in Leg : Owed(l)' = Owed(l) /\ Owed(l) \in Nat
  BY <1>0, SetsFinite DEF Owed, Unmarked, Qty
<1>4. \A l \in Leg : InProgress(l) \in Nat
  BY <1>0, InProgressType
<1>5. BookMatchesTopic'
  BY <1>2, <1>4, BookKept
<1>6. OwedIsReal'
  BY <1>2, <1>3, OwedKept
<1> QED
  BY <1>1, <1>5, <1>6 DEF ComboInv

LEMMA SameTopics ==
  ASSUME ComboInv, FaultCounted, UNCHANGED <<external_in_flight, handler, intents, reports>>
  PROVE  TopicsShaped' /\ FlagCovers' /\ external_in_flight' \subseteq Leg
<1>0. TopicsShaped /\ ComboTypeOK
  BY DEF ComboInv
<1>1. TopicsShaped' /\ \A l \in Leg : ChunksOut(l)' = ChunksOut(l)
  BY <1>0, TopicsKept
<1>2. \A l \in Leg : Flagged(l)' = Flagged(l)
  BY DEF Flagged
<1> QED
  BY <1>0, <1>1, <1>2, FlagsKept DEF ComboTypeOK

LEMMA LoadStep == ASSUME CombosAssumption, ComboInv, LoadActiveGroups PROVE ComboInv'
<1> DEFINE S == {l \in Leg : Loadable(l)}
<1>0. ComboTypeOK /\ BatchShaped
  BY DEF ComboInv
<1>1. /\ batch.pc = "idle"
      /\ UNCHANGED <<tables, external_in_flight, handler, topics, cancelling, faults>>
      /\ batch' = [batch EXCEPT
                     !.pc = "route", !.n = @ + 1,
                     !.loaded = [l \in S |-> legs[l]],
                     !.route = {l \in S : External(l)},
                     !.groups = {Def[l].combo : l \in {k \in S : ~External(k)}}]
  BY DEF LoadActiveGroups
<1>2. DOMAIN batch = BatchFields /\ legs \in [Leg -> LegRow]
  BY <1>0 DEF BatchShaped, ComboTypeOK, LegRow
<1>3. /\ DOMAIN batch' = BatchFields /\ batch'.pc = "route"
      /\ batch'.loaded = [l \in S |-> legs[l]]
      /\ batch'.route = {l \in S : External(l)}
      /\ batch'.groups = {Def[l].combo : l \in {k \in S : ~External(k)}}
  BY <1>1, <1>2 DEF BatchFields
<1>4. BatchShaped'
  <2>1. batch'.groups \subseteq Combo
    BY <1>3, LegDef
  <2>2. DOMAIN batch'.loaded = S /\ S \subseteq Leg
    BY <1>3
  <2>3. \A l \in S : batch'.loaded[l] \in LegRow
    BY <1>2, <1>3
  <2> QED
    BY <1>3, <2>1, <2>2, <2>3 DEF BatchShaped, BatchStages
<1>5. LoadedIsFresh'
  BY <1>1, <1>3 DEF LoadedIsFresh, tables
<1>6. CurrentFits'
  BY <1>3 DEF CurrentFits
<1>7. \A l \in Leg : InProgress(l)' = InProgress(l)
  BY <1>1, <1>3 DEF InProgress
<1>8. FaultCounted /\ faults' <= MaxFaults
  BY <1>0, <1>1 DEF FaultCounted, ComboTypeOK
<1>9. TopicsShaped' /\ FlagCovers' /\ external_in_flight' \subseteq Leg
  BY <1>1, <1>8, SameTopics DEF topics
<1> QED
  BY <1>1, <1>4, <1>5, <1>6, <1>7, <1>8, <1>9, TimerStep DEF topics

LEMMA LoadedLeg ==
  ASSUME CombosAssumption, BatchShaped, NEW l \in DOMAIN batch.loaded
  PROVE  Loaded(l) \in SolverLeg /\ l \in Leg
<1>1. l \in Leg /\ batch.loaded[l].qmax \in Nat /\ batch.loaded[l].filled \in Nat
  BY DEF BatchShaped, LegRow
<1>2. Def[l].symbol \in STRING /\ l \in Nat /\ Def[l].ratio \in Nat /\ Def[l].rate \in Nat
  BY <1>1 DEF CombosAssumption
<1> QED
  BY <1>1, <1>2 DEF Loaded, SolverLeg

(* A change of the batch that concerns only what is left to do.            *)
LEMMA LessToDo ==
  ASSUME BatchShaped, LoadedIsFresh, CurrentFits, DOMAIN batch' = BatchFields,
         batch'.pc \in {"idle", "route"}, batch'.loaded = batch.loaded,
         batch'.route \subseteq batch.route, batch'.groups \subseteq batch.groups, UNCHANGED legs
  PROVE  BatchShaped' /\ LoadedIsFresh' /\ CurrentFits'
<1>1. BatchShaped'
  BY DEF BatchShaped, BatchStages
<1>2. LoadedIsFresh'
  BY DEF LoadedIsFresh
<1>3. CurrentFits'
  BY DEF CurrentFits
<1> QED
  BY <1>1, <1>2, <1>3

LEMMA NewChunk ==
  ASSUME CombosAssumption, ComboInv, NEW l \in Leg, External(l), NEW q \in Nat, q <= Def[l].rate,
         l \notin external_in_flight, external_in_flight' = external_in_flight \cup {l},
         intents' = Append(intents, [leg |-> l, qty |-> q, open |-> TRUE]),
         UNCHANGED <<handler, reports, faults>>
  PROVE  TopicsShaped' /\ FlagCovers' /\ external_in_flight' \subseteq Leg
<1> DEFINE ch == [leg |-> l, qty |-> q, open |-> TRUE]
           n == Len(intents) + 1
<1>0. TopicsShaped /\ ComboTypeOK /\ FlagCovers
  BY DEF ComboInv
<1>1. ch \in Chunk /\ intents \in Seq(Chunk) /\ Len(intents) \in Nat /\ n \in Nat
  BY <1>0 DEF Chunk, TopicsShaped
<1>2. /\ intents' \in Seq(Chunk) /\ Len(intents') = n
      /\ \A i \in 1 .. Len(intents) : intents'[i] = intents[i]
      /\ intents'[n] = ch /\ DOMAIN intents' = 1 .. n /\ DOMAIN intents = 1 .. Len(intents)
  BY <1>1, AppendProperties
<1>3. TopicsShaped'
  <2>1. \A i \in DOMAIN intents' : intents'[i].qty <= Def[intents'[i].leg].rate
    <3> SUFFICES ASSUME NEW i \in 1 .. n PROVE intents'[i].qty <= Def[intents'[i].leg].rate
      BY <1>2
    <3>1. i = n \/ i \in DOMAIN intents
      BY <1>1, <1>2
    <3> QED
      BY <1>0, <1>2, <3>1 DEF TopicsShaped
  <2> QED
    BY <1>0, <1>2, <2>1 DEF TopicsShaped
<1>4. FlagCovers'
  <2> SUFFICES ASSUME NEW k \in Leg PROVE ChunksOut(k)' <= Flagged(k)' + 2 * faults'
    BY DEF FlagCovers
  <2>1. ChunksOut(k) <= Flagged(k) + 2 * faults /\ faults \in Nat
    BY <1>0 DEF FlagCovers, ComboTypeOK
  <2>2. /\ IsFiniteSet(OpenChunks(k)) /\ Cardinality(OpenChunks(k)) \in Nat
        /\ Cardinality(Untaken(k)) \in Nat
    BY <1>0, SetsFinite
  <2>3. Untaken(k)' = Untaken(k)
    BY DEF Untaken
  <2>4. CASE k = l
    <3>1. OpenChunks(k)' = OpenChunks(k) \cup {n}
      <4>1. \A i \in 1 .. n : i \in OpenChunks(k)' <=> i \in OpenChunks(k) \/ i = n
        BY <1>1, <1>2, <2>4 DEF OpenChunks
      <4>2. OpenChunks(k)' \subseteq 1 .. n /\ OpenChunks(k) \subseteq 1 .. n
        BY <1>1, <1>2 DEF OpenChunks
      <4> QED
        BY <1>1, <4>1, <4>2
    <3>2. n \notin OpenChunks(k)
      BY <1>1, <1>2 DEF OpenChunks
    <3> HIDE DEF n
    <3>4. Cardinality(OpenChunks(k) \cup {n}) = Cardinality(OpenChunks(k)) + 1
      BY <2>2, <3>2, FS_AddElement
    <3>3. Flagged(k) = 0 /\ Flagged(k)' = 1
      BY <2>4 DEF Flagged
    <3> QED
      BY <2>1, <2>2, <2>3, <3>1, <3>3, <3>4 DEF ChunksOut
  <2>5. CASE k # l
    <3>1. OpenChunks(k)' = OpenChunks(k)
      <4>1. \A i \in 1 .. n : i \in OpenChunks(k)' <=> i \in OpenChunks(k)
        BY <1>1, <1>2, <2>5 DEF OpenChunks
      <4>2. OpenChunks(k)' \subseteq 1 .. n /\ OpenChunks(k) \subseteq 1 .. n
        BY <1>1, <1>2 DEF OpenChunks
      <4> QED
        BY <4>1, <4>2
    <3>2. Flagged(k)' = Flagged(k)
      BY <2>5 DEF Flagged
    <3> QED
      BY <2>1, <2>3, <3>1, <3>2 DEF ChunksOut
  <2> QED
    BY <2>4, <2>5
<1> QED
  BY <1>0, <1>3, <1>4 DEF ComboTypeOK

LEMMA RouteStep ==
  ASSUME CombosAssumption, ComboInv, NEW l \in Leg, RouteExternal(l) PROVE ComboInv'
<1>0. ComboTypeOK /\ BatchShaped /\ TopicsShaped /\ LoadedIsFresh /\ CurrentFits
  BY DEF ComboInv
<1>1. /\ batch.pc = "route" /\ l \in batch.route
      /\ batch' = [batch EXCEPT !.route = @ \ {l}]
      /\ UNCHANGED <<tables, handler, reports, published, executed, cancelling>>
  BY DEF RouteExternal
<1>2. l \in DOMAIN batch.loaded /\ External(l) /\ DOMAIN batch = BatchFields
  BY <1>0, <1>1 DEF BatchShaped
<1>3. /\ DOMAIN batch' = BatchFields /\ batch'.pc = "route" /\ batch'.loaded = batch.loaded
      /\ batch'.route \subseteq batch.route /\ batch'.groups = batch.groups
  BY <1>1, <1>2 DEF BatchFields
<1>4. BatchShaped' /\ LoadedIsFresh' /\ CurrentFits'
  BY <1>0, <1>1, <1>3, LessToDo DEF tables
<1>5. \A k \in Leg : InProgress(k)' = InProgress(k)
  BY <1>1, <1>3 DEF InProgress
<1>6. FaultCounted /\ faults' <= MaxFaults
  BY <1>0, FaultsBounded DEF RouteExternal
<1>7. TopicsShaped' /\ FlagCovers' /\ external_in_flight' \subseteq Leg
  <2>1. CASE UNCHANGED <<external_in_flight, intents>>
    BY <1>1, <1>6, <2>1, SameTopics
  <2>2. CASE /\ MayRoute(l) /\ external_in_flight' = external_in_flight \cup {l}
             /\ intents' = Append(intents, [leg |-> l, qty |-> FeasibleCap(Loaded(l)), open |-> TRUE])
             /\ UNCHANGED faults
    <3> DEFINE q == FeasibleCap(Loaded(l))
    <3>1. Loaded(l) \in SolverLeg /\ Loaded(l).rate = Def[l].rate
      BY <1>0, <1>2, LoadedLeg DEF Loaded
    <3>2. q \in Nat /\ q <= Def[l].rate
      BY <3>1, FeasibleCapFits
    <3>3. l \notin external_in_flight
      BY <2>2 DEF MayRoute
    <3>4. intents' = Append(intents, [leg |-> l, qty |-> q, open |-> TRUE])
      BY <2>2
    <3> HIDE DEF q
    <3> QED
      BY <1>1, <1>2, <2>2, <3>2, <3>3, <3>4, NewChunk
  <2> QED
    BY <2>1, <2>2 DEF RouteExternal
<1> QED
  BY <1>1, <1>4, <1>5, <1>6, <1>7, TimerStep

LEMMA SkipStep ==
  ASSUME CombosAssumption, ComboInv, NEW c \in Combo, SkipGroup(c) PROVE ComboInv'
<1>0. ComboTypeOK /\ BatchShaped /\ LoadedIsFresh /\ CurrentFits
  BY DEF ComboInv
<1>1. /\ batch.pc = "route" /\ batch' = [batch EXCEPT !.groups = @ \ {c}]
      /\ UNCHANGED <<tables, external_in_flight, handler, topics, cancelling, faults>>
  BY DEF SkipGroup
<1>2. DOMAIN batch = BatchFields
  BY <1>0 DEF BatchShaped
<1>3. /\ DOMAIN batch' = BatchFields /\ batch'.pc = "route" /\ batch'.loaded = batch.loaded
      /\ batch'.route = batch.route /\ batch'.groups \subseteq batch.groups
  BY <1>1, <1>2 DEF BatchFields
<1>4. BatchShaped' /\ LoadedIsFresh' /\ CurrentFits'
  BY <1>0, <1>1, <1>3, LessToDo DEF tables
<1>5. \A k \in Leg : InProgress(k)' = InProgress(k)
  BY <1>1, <1>3 DEF InProgress
<1>6. FaultCounted /\ faults' <= MaxFaults
  BY <1>0, <1>1 DEF FaultCounted, ComboTypeOK
<1>7. TopicsShaped' /\ FlagCovers' /\ external_in_flight' \subseteq Leg
  BY <1>1, <1>6, SameTopics DEF topics
<1> QED
  BY <1>1, <1>4, <1>5, <1>6, <1>7, TimerStep DEF topics

LEMMA EndBatchStep ==
  ASSUME CombosAssumption, ComboInv, EndGroupedBatch PROVE ComboInv'
<1>0. ComboTypeOK /\ BatchShaped /\ LoadedIsFresh /\ CurrentFits
  BY DEF ComboInv
<1>1. /\ batch.pc = "route" /\ batch' = [IdleBatch EXCEPT !.n = batch.n]
      /\ UNCHANGED <<tables, external_in_flight, handler, topics, cancelling, faults>>
  BY DEF EndGroupedBatch
<1>3. /\ DOMAIN batch' = BatchFields /\ batch'.pc = "idle" /\ batch'.loaded = <<>>
      /\ batch'.route = {} /\ batch'.groups = {}
  BY <1>1 DEF BatchFields, IdleBatch
<1>4. BatchShaped' /\ LoadedIsFresh' /\ CurrentFits'
  BY <1>3 DEF BatchShaped, LoadedIsFresh, CurrentFits, BatchStages
<1>5. \A k \in Leg : InProgress(k)' = InProgress(k)
  BY <1>1, <1>3 DEF InProgress
<1>6. FaultCounted /\ faults' <= MaxFaults
  BY <1>0, <1>1 DEF FaultCounted, ComboTypeOK
<1>7. TopicsShaped' /\ FlagCovers' /\ external_in_flight' \subseteq Leg
  BY <1>1, <1>6, SameTopics DEF topics
<1> QED
  BY <1>1, <1>4, <1>5, <1>6, <1>7, TimerStep DEF topics

LEMMA SolveDomain ==
  ASSUME NEW group, NEW policy, NEW minScale, NEW i \in DOMAIN Solve(group, policy, minScale)
  PROVE  \E leg \in group : leg.id = i
<1> DEFINE ids == {l.id : l \in Sized(group)}
<1>1. DOMAIN Solve(group, policy, minScale) \in {DOMAIN <<>>, ids}
  BY DEF Solve
<1>2. i \in ids
  BY <1>1
<1> QED
  BY <1>2 DEF Sized

(* What the solver gives the legs of a group fits their rows.              *)
LEMMA GroupFits ==
  ASSUME CombosAssumption, ComboInv, NEW c \in batch.groups, NEW l \in DOMAIN GroupExec(c)
  PROVE  /\ l \in Leg /\ Def[l].combo = c /\ ~External(l) /\ GroupExec(c)[l] \in Nat
         /\ OwnSymbol(l) => /\ GroupExec(c)[l] <= Def[l].rate
                            /\ legs[l].filled + GroupExec(c)[l] <= legs[l].qmax
<1> DEFINE G == GroupLegs(c)
           S == {k \in DOMAIN batch.loaded : Def[k].combo = c /\ ~External(k)}
<1>0. BatchShaped /\ LoadedIsFresh /\ ComboTypeOK
  BY DEF ComboInv
<1>1. G = {Loaded(k) : k \in S} /\ \A k : Loaded(k).id = k /\ Loaded(k).symbol = Def[k].symbol
  BY DEF GroupLegs, Loaded
<1>2. G \in SUBSET SolverLeg /\ S \subseteq Leg
  BY <1>0, <1>1, LoadedLeg
<1>3. IsFiniteSet(Leg) /\ \A k \in G : k.id \in Leg
  BY <1>1, <1>2 DEF CombosAssumption
<1>4. \A j, k \in G : j.id = k.id => j = k
  BY <1>1
<1>5. GroupExec(c) = Solve(G, Policy[c], MinScale)
  BY DEF GroupExec
<1>6. PICK leg \in G : leg.id = l
  BY <1>5, SolveDomain
<1>7. leg = Loaded(l) /\ l \in S
  BY <1>1, <1>6
<1> HIDE DEF G
<1>8. /\ GroupExec(c)[l] \in Nat
      /\ (\A k \in G : k.symbol = leg.symbol => k = leg) => GroupExec(c)[l] <= FeasibleCap(leg)
  BY <1>2, <1>3, <1>4, <1>5, <1>6, SolveFits
<1>9. OwnSymbol(l) => \A k \in G : k.symbol = leg.symbol => k = leg
  <2> SUFFICES ASSUME OwnSymbol(l), NEW j \in S, Loaded(j).symbol = Loaded(l).symbol PROVE j = l
    BY <1>1, <1>7
  <2>1. j \in LegsOf(Def[l].combo) /\ ~External(j) /\ Def[j].symbol = Def[l].symbol
    BY <1>1, <1>2, <1>7 DEF LegsOf
  <2> QED
    BY <2>1 DEF OwnSymbol
<1>10. /\ FeasibleCap(leg) \in Nat /\ FeasibleCap(leg) <= leg.rate
       /\ leg.filled <= leg.qmax => leg.filled + FeasibleCap(leg) <= leg.qmax
       /\ leg.filled \in Nat /\ leg.qmax \in Nat /\ leg.rate \in Nat
  BY <1>2, FeasibleCapFits DEF SolverLeg
<1>11. leg.filled = legs[l].filled /\ leg.qmax = legs[l].qmax /\ leg.rate = Def[l].rate
  BY <1>0, <1>7 DEF Loaded, LoadedIsFresh
<1>12. legs[l].filled <= legs[l].qmax
  BY <1>0, <1>2, <1>7 DEF ComboTypeOK
<1>13. OwnSymbol(l) => /\ GroupExec(c)[l] <= Def[l].rate
                       /\ legs[l].filled + GroupExec(c)[l] <= legs[l].qmax
  BY <1>8, <1>9, <1>10, <1>11, <1>12
<1> QED
  BY <1>2, <1>7, <1>8, <1>13

LEMMA PublishStep ==
  ASSUME CombosAssumption, ComboInv, NEW c \in Combo, PublishGroup(c) PROVE ComboInv'
<1> DEFINE E == GroupExec(c)
           Got(l) == IF l \in DOMAIN E THEN E[l] ELSE 0
<1>0. ComboTypeOK /\ BatchShaped /\ TopicsShaped /\ LoadedIsFresh /\ CurrentFits
  BY DEF ComboInv
<1>1. /\ batch.pc = "route" /\ c \in batch.groups
      /\ batch' = [batch EXCEPT !.pc = "persist", !.groups = @ \ {c}, !.cur = c, !.exec = E]
      /\ UNCHANGED <<tables, external_in_flight, handler, intents, reports, executed, cancelling>>
      /\ \/ /\ published' = [l \in Leg |-> IF l \in DOMAIN E THEN published[l] + E[l] ELSE published[l]]
            /\ UNCHANGED faults
         \/ Fault /\ UNCHANGED published
  BY DEF PublishGroup
<1>2. DOMAIN batch = BatchFields
  BY <1>0 DEF BatchShaped
<1>3. /\ DOMAIN batch' = BatchFields /\ batch'.pc = "persist" /\ batch'.loaded = batch.loaded
      /\ batch'.route = batch.route /\ batch'.groups = batch.groups \ {c}
      /\ batch'.cur = c /\ batch'.exec = E
  BY <1>1, <1>2 DEF BatchFields
<1>4. \A l \in DOMAIN E : /\ l \in Leg /\ Def[l].combo = c /\ ~External(l) /\ E[l] \in Nat
                          /\ OwnSymbol(l) => E[l] <= Def[l].rate /\ legs[l].filled + E[l] <= legs[l].qmax
  BY <1>1, GroupFits
<1> HIDE DEF E
<1>5. BatchShaped' /\ LoadedIsFresh'
  BY <1>0, <1>1, <1>3 DEF BatchShaped, LoadedIsFresh, BatchStages, tables
<1>6. CurrentFits'
  <2>1. \A l, q : l \in DOMAIN E /\ q = E[l] => FitsRow(l, q)'
    BY <1>1, <1>3, <1>4 DEF FitsRow, tables, OwnSymbol
  <2>2. c \in Combo \ batch'.groups
    BY <1>3
  <2> QED
    BY <1>3, <2>1, <2>2 DEF CurrentFits
<1>7. FaultCounted /\ faults' <= MaxFaults /\ faults \in Nat
  BY <1>0, <1>1, FaultsBounded
<1>8. TopicsShaped' /\ FlagCovers' /\ external_in_flight' \subseteq Leg
  BY <1>1, <1>7, SameTopics
<1>9. published' \in [Leg -> Nat]
  BY <1>0, <1>1, <1>4 DEF ComboTypeOK
<1>10. ComboTypeOK'
  BY <1>0, <1>1, <1>7, <1>8, <1>9 DEF ComboTypeOK, tables, FaultCounted
<1>11. OwedIsReal'
  <2>1. \A l \in Leg : Owed(l)' = Owed(l) /\ Owed(l) \in Nat
    BY <1>0, <1>1, SetsFinite DEF Owed, Unmarked, Qty
  <2>2. legs' = legs /\ legs' \in [Leg -> LegRow]
    BY <1>0, <1>1 DEF ComboTypeOK, LegRow, tables
  <2> QED
    BY <1>1, <1>7, <2>1, <2>2, OwedKept
<1>12. BookMatchesTopic'
  <2> SUFFICES ASSUME NEW l \in Leg, ~External(l), OwnSymbol(l)
               PROVE  /\ published'[l] <= legs'[l].filled + InProgress(l)' + Slack(l)'
                      /\ legs'[l].filled + InProgress(l)' <= published'[l] + Slack(l)'
    BY DEF BookMatchesTopic, OwnSymbol, Slack
  <2>1. InProgress(l) = 0 /\ InProgress(l)' = Got(l) /\ Got(l) \in Nat
    BY <1>1, <1>3, <1>4 DEF InProgress
  <2>2. /\ published[l] <= legs[l].filled + 0 + Slack(l)
        /\ legs[l].filled + 0 <= published[l] + Slack(l)
    BY <2>1 DEF BookMatchesTopic, ComboInv, Slack
  <2>3. legs[l].filled \in Nat /\ published[l] \in Nat /\ legs' = legs
    BY <1>0, <1>1 DEF ComboTypeOK, tables
  <2>4. Def[l].rate \in Nat /\ Got(l) <= Def[l].rate
    BY <1>4, LegDef
  <2>5. /\ Slack(l) \in Nat /\ Slack(l)' \in Nat
        /\ faults' = faults => Slack(l)' = Slack(l)
        /\ faults' = faults + 1 => Slack(l)' = Slack(l) + Def[l].rate
    BY <1>7, SlackGrows DEF FaultCounted
  <2>6. \/ published'[l] = published[l] + Got(l) /\ faults' = faults
        \/ published'[l] = published[l] /\ faults' = faults + 1
    BY <1>0, <1>1 DEF Fault, ComboTypeOK
  <2> HIDE DEF Got
  <2> QED
    BY <2>1, <2>2, <2>3, <2>4, <2>5, <2>6
<1> QED
  BY <1>5, <1>6, <1>8, <1>10, <1>11, <1>12 DEF ComboInv

(* PersistExecutionGroup.  The LEAST of the query never bites for a leg    *)
(* that is alone with its symbol.                                          *)
LEMMA PersistStep ==
  ASSUME CombosAssumption, ComboInv, PersistExecutionGroup PROVE ComboInv'
<1> DEFINE ComboStatus == {"none", "active", "partially_filled", "filled", "cancelled"}
           c == batch.cur
<1>0. ComboTypeOK /\ BatchShaped /\ TopicsShaped /\ LoadedIsFresh /\ CurrentFits
  BY DEF ComboInv
<1>1. /\ batch.pc = "persist" /\ batch' = [batch EXCEPT !.pc = "graph"]
      /\ UNCHANGED <<compensations, external_in_flight, handler, topics, cancelling>>
      /\ \/ /\ combo_orders' = [combo_orders EXCEPT ![c] = StatusAfter(c)]
            /\ legs' = [l \in Leg |->
                 [legs[l] EXCEPT
                    !.filled = Booked(l),
                    !.status = IF l \in LegsOf(c) /\ @ = "active" /\ StatusAfter(c) = "filled"
                               THEN "filled" ELSE @]]
            /\ UNCHANGED faults
         \/ Fault /\ UNCHANGED <<combo_orders, legs>>
  BY DEF PersistExecutionGroup
<1>1a. UNCHANGED <<compensations, external_in_flight, handler, cancelling>>
       /\ UNCHANGED <<intents, reports, published, executed>> /\ batch.pc = "persist"
  BY <1>1 DEF topics
<1>2. DOMAIN batch = BatchFields /\ legs \in [Leg -> LegRow] /\ combo_orders \in [Combo -> ComboStatus]
  BY <1>0 DEF BatchShaped, ComboTypeOK, LegRow
<1>3. /\ DOMAIN batch' = BatchFields /\ batch'.pc = "graph" /\ batch'.loaded = batch.loaded
      /\ batch'.route = batch.route /\ batch'.groups = batch.groups /\ batch'.cur = c
  BY <1>1, <1>2 DEF BatchFields
<1>4. c \in Combo \ batch.groups /\ \A l \in DOMAIN batch.exec : FitsRow(l, batch.exec[l])
  BY <1>0, <1>1 DEF CurrentFits
<1>5. \A l \in Leg : /\ Booked(l) \in Nat /\ Booked(l) <= legs[l].qmax
                     /\ l \notin DOMAIN batch.exec => Booked(l) = legs[l].filled
                     /\ l \in DOMAIN batch.exec /\ OwnSymbol(l) =>
                          Booked(l) = legs[l].filled + batch.exec[l]
  <2> SUFFICES ASSUME NEW l \in Leg
               PROVE  /\ Booked(l) \in Nat /\ Booked(l) <= legs[l].qmax
                      /\ l \notin DOMAIN batch.exec => Booked(l) = legs[l].filled
                      /\ l \in DOMAIN batch.exec /\ OwnSymbol(l) =>
                           Booked(l) = legs[l].filled + batch.exec[l]
    OBVIOUS
  <2>1. legs[l].filled \in Nat /\ legs[l].qmax \in Nat /\ legs[l].filled <= legs[l].qmax
    BY <1>0, <1>2 DEF LegRow, ComboTypeOK
  <2>2. l \in DOMAIN batch.exec => /\ batch.exec[l] \in Nat
                                   /\ OwnSymbol(l) => legs[l].filled + batch.exec[l] <= legs[l].qmax
    BY <1>4 DEF FitsRow
  <2> QED
    BY <2>1, <2>2 DEF Booked, Lesser
<1>6. FaultCounted /\ faults' <= MaxFaults /\ faults \in Nat
  BY <1>0, <1>1, FaultsBounded
<1>7. TopicsShaped' /\ FlagCovers' /\ external_in_flight' \subseteq Leg
  BY <1>1, <1>6, SameTopics DEF topics
<1>8. combo_orders' \in [Combo -> ComboStatus]
  <2>1. StatusAfter(c) \in ComboStatus
    BY <1>2, <1>4 DEF StatusAfter
  <2> QED
    BY <1>1, <1>2, <2>1
<1>9. /\ legs' \in [Leg -> LegRow]
      /\ \A l \in Leg : legs'[l].qmax = legs[l].qmax
      /\ \/ faults' = faults /\ \A l \in Leg : legs'[l].filled = Booked(l)
         \/ faults' = faults + 1 /\ \A l \in Leg : legs'[l].filled = legs[l].filled
  <2>1. CASE Fault /\ UNCHANGED <<combo_orders, legs>>
    BY <1>2, <2>1 DEF Fault
  <2>2. CASE /\ legs' = [l \in Leg |->
                  [legs[l] EXCEPT
                     !.filled = Booked(l),
                     !.status = IF l \in LegsOf(c) /\ @ = "active" /\ StatusAfter(c) = "filled"
                                THEN "filled" ELSE @]]
             /\ UNCHANGED faults
    <3> DEFINE st(l) == IF l \in LegsOf(c) /\ legs[l].status = "active" /\ StatusAfter(c) = "filled"
                        THEN "filled" ELSE legs[l].status
    <3>1. \A l \in Leg : /\ legs'[l] = [legs[l] EXCEPT !.filled = Booked(l), !.status = st(l)]
                         /\ legs[l] \in LegRow /\ st(l) \in LegStatus
      BY <1>2, <2>2 DEF LegRow, LegStatus
    <3>2. DOMAIN legs' = Leg /\ legs' = [l \in Leg |-> legs'[l]]
      BY <2>2
    <3> HIDE DEF st
    <3>3. \A l \in Leg : /\ legs'[l].qmax = legs[l].qmax /\ legs'[l].filled = Booked(l)
                         /\ legs'[l] \in LegRow
      BY <1>5, <3>1 DEF LegRow
    <3> QED
      BY <2>2, <3>2, <3>3
  <2> QED
    BY <1>1, <2>1, <2>2
<1>10. ComboTypeOK'
  <2>1. \A l \in Leg : legs'[l].filled <= legs'[l].qmax
    BY <1>0, <1>5, <1>9 DEF ComboTypeOK
  <2> QED
    BY <1>0, <1>1a, <1>6, <1>7, <1>8, <1>9, <2>1 DEF ComboTypeOK, LegRow, FaultCounted
<1>11. \A l \in Leg : Def[l].combo # c \/ External(l) => legs'[l].filled = legs[l].filled
  <2>1. \A l \in Leg : Def[l].combo # c \/ External(l) => l \notin DOMAIN batch.exec
    BY <1>4 DEF FitsRow
  <2> QED
    BY <1>5, <1>9, <2>1
<1>12. BatchShaped' /\ LoadedIsFresh' /\ CurrentFits'
  <2>1. BatchShaped'
    BY <1>0, <1>3 DEF BatchShaped, BatchStages
  <2>2. LoadedIsFresh'
    <3>1. \A l \in DOMAIN batch.loaded : l \in Leg
      BY <1>0 DEF BatchShaped
    <3> QED
      BY <1>0, <1>3, <1>4, <1>9, <1>11, <3>1 DEF LoadedIsFresh
  <2>3. CurrentFits'
    BY <1>3, <1>4 DEF CurrentFits
  <2> QED
    BY <2>1, <2>2, <2>3
<1>13. OwedIsReal'
  <2>1. \A l \in Leg : Owed(l)' = Owed(l) /\ Owed(l)' \in Nat /\ Owed(l)' <= Owed(l)
    <3>1. \A l \in Leg : Owed(l)' = Owed(l) /\ Owed(l) \in Nat
      BY <1>0, <1>1a, SetsFinite DEF Owed, Unmarked, Qty
    <3> QED
      BY <3>1
  <2> QED
    BY <1>1a, <1>6, <1>9, <1>11, <2>1, OwedKept
<1>14. BookMatchesTopic'
  <2> SUFFICES ASSUME NEW l \in Leg, ~External(l), OwnSymbol(l)
               PROVE  /\ published'[l] <= legs'[l].filled + InProgress(l)' + Slack(l)'
                      /\ legs'[l].filled + InProgress(l)' <= published'[l] + Slack(l)'
    BY DEF BookMatchesTopic, OwnSymbol, Slack
  <2>1. InProgress(l)' = 0 /\ InProgress(l) \in Nat
    BY <1>0, <1>3, InProgressType DEF InProgress
  <2>2. /\ published[l] <= legs[l].filled + InProgress(l) + Slack(l)
        /\ legs[l].filled + InProgress(l) <= published[l] + Slack(l)
    BY DEF BookMatchesTopic, ComboInv, Slack
  <2>3. legs[l].filled \in Nat /\ published[l] \in Nat /\ published' = published
    BY <1>0, <1>1 DEF ComboTypeOK, topics
  <2>4. Def[l].rate \in Nat /\ InProgress(l) <= Def[l].rate
    BY <1>4, LegDef DEF InProgress, FitsRow
  <2>5. /\ Slack(l) \in Nat /\ Slack(l)' \in Nat
        /\ faults' = faults => Slack(l)' = Slack(l)
        /\ faults' = faults + 1 => Slack(l)' = Slack(l) + Def[l].rate
    BY <1>6, SlackGrows DEF FaultCounted
  <2>6. Booked(l) = legs[l].filled + InProgress(l)
    BY <1>1a, <1>5, <2>3 DEF InProgress
  <2>7. \/ legs'[l].filled = legs[l].filled + InProgress(l) /\ faults' = faults
        \/ legs'[l].filled = legs[l].filled /\ faults' = faults + 1
    BY <1>9, <2>6
  <2> QED
    BY <2>1, <2>2, <2>3, <2>4, <2>5, <2>7
<1> QED
  BY <1>7, <1>10, <1>12, <1>13, <1>14 DEF ComboInv

LEMMA GraphStep == ASSUME CombosAssumption, ComboInv, LoadGraph PROVE ComboInv'
<1> DEFINE c == batch.cur
           R == ToResize(c)
           source(x) == (CHOOSE e \in R : e[2] = x)[1]
           resize == [x \in {e[2] : e \in R} |-> legs[source(x)].filled]
           graph  == [cancel |-> ToCancel(c), resize |-> resize]
<1>0. ComboTypeOK /\ BatchShaped /\ LoadedIsFresh /\ CurrentFits
  BY DEF ComboInv
<1>1. /\ batch.pc = "graph"
      /\ \/ batch' = [batch EXCEPT !.pc = "route"]
         \/ batch' = [batch EXCEPT !.pc = "transit", !.graph = graph]
      /\ UNCHANGED <<tables, external_in_flight, handler, topics, cancelling, faults>>
  BY DEF LoadGraph
<1>2. DOMAIN batch = BatchFields /\ legs \in [Leg -> LegRow] /\ c \in Combo \ batch.groups
  BY <1>0, <1>1 DEF BatchShaped, ComboTypeOK, LegRow, CurrentFits
<1>3. \A x \in DOMAIN resize : x \in Leg /\ Def[x].combo = c /\ resize[x] \in Nat
  <2> SUFFICES ASSUME NEW x \in {e[2] : e \in R} PROVE x \in Leg /\ Def[x].combo = c /\ legs[source(x)].filled \in Nat
    OBVIOUS
  <2>1. \A e \in R : /\ e[1] \in Leg /\ e[2] \in Leg /\ Def[e[1]].combo = c
                     /\ Def[e[2]].combo = c
    BY DEF ToResize, CombosAssumption
  <2>2. \E e \in R : e[2] = x /\ source(x) = e[1]
    OBVIOUS
  <2> HIDE DEF source, R
  <2> QED
    BY <1>2, <2>1, <2>2 DEF LegRow
<1> HIDE DEF resize
<1>4. /\ DOMAIN batch' = BatchFields /\ batch'.loaded = batch.loaded
      /\ batch'.route = batch.route /\ batch'.groups = batch.groups /\ batch'.cur = c
      /\ \/ batch'.pc = "route"
         \/ batch'.pc = "transit" /\ batch'.graph.resize = resize
  <2>1. CASE batch' = [batch EXCEPT !.pc = "route"]
    BY <1>2, <2>1 DEF BatchFields
  <2>2. CASE batch' = [batch EXCEPT !.pc = "transit", !.graph = graph]
    <3>1. graph.resize = resize
      OBVIOUS
    <3> HIDE DEF graph
    <3> QED
      BY <1>2, <2>2, <3>1 DEF BatchFields
  <2> QED
    BY <1>1, <2>1, <2>2
<1>5. BatchShaped' /\ LoadedIsFresh'
  BY <1>0, <1>1, <1>4 DEF BatchShaped, BatchStages, LoadedIsFresh, tables
<1>6. CurrentFits'
  BY <1>2, <1>3, <1>4 DEF CurrentFits
<1>7. \A k \in Leg : InProgress(k)' = InProgress(k)
  BY <1>1, <1>4 DEF InProgress
<1>8. FaultCounted /\ faults' <= MaxFaults
  BY <1>0, <1>1, FaultsBounded
<1>9. TopicsShaped' /\ FlagCovers' /\ external_in_flight' \subseteq Leg
  BY <1>1, <1>8, SameTopics DEF topics
<1> QED
  BY <1>1, <1>5, <1>6, <1>7, <1>8, <1>9, TimerStep DEF topics

LEMMA TransitStep == ASSUME CombosAssumption, ComboInv, PersistTransitions PROVE ComboInv'
<1> DEFINE c == batch.cur
           resized == DOMAIN batch.graph.resize
<1>0. ComboTypeOK /\ BatchShaped /\ TopicsShaped /\ LoadedIsFresh /\ CurrentFits
  BY DEF ComboInv
<1>1. /\ batch.pc = "transit" /\ batch' = [batch EXCEPT !.pc = "route", !.graph = <<>>]
      /\ UNCHANGED <<combo_orders, compensations, external_in_flight, handler, topics, cancelling>>
      /\ UNCHANGED faults \/ Fault
      /\ legs' = legs \/ legs' = [l \in Leg |-> IF \A k \in Leg : Checked(k) THEN Transit(l) ELSE legs[l]]
  BY DEF PersistTransitions
<1>2. DOMAIN batch = BatchFields /\ legs \in [Leg -> LegRow]
  BY <1>0 DEF BatchShaped, ComboTypeOK, LegRow
<1>3. /\ DOMAIN batch' = BatchFields /\ batch'.pc = "route" /\ batch'.loaded = batch.loaded
      /\ batch'.route = batch.route /\ batch'.groups = batch.groups
  BY <1>1, <1>2 DEF BatchFields
<1>4. c \in Combo \ batch.groups /\ \A l \in resized : /\ l \in Leg /\ Def[l].combo = c
                                                       /\ batch.graph.resize[l] \in Nat
  BY <1>0, <1>1 DEF CurrentFits
<1>5. \A l \in Leg : /\ Transit(l) \in LegRow /\ Transit(l).filled = legs[l].filled
                     /\ l \notin resized => Transit(l).qmax = legs[l].qmax
  BY <1>2, <1>4 DEF Transit, LegRow, LegStatus
<1>6. /\ legs' \in [Leg -> LegRow]
      /\ \A l \in Leg : /\ legs'[l].filled = legs[l].filled /\ legs'[l].filled <= legs'[l].qmax
                        /\ l \notin resized => legs'[l].qmax = legs[l].qmax
  <2>1. CASE legs' = legs
    BY <1>0, <1>2, <2>1 DEF ComboTypeOK
  <2>2. CASE /\ \A k \in Leg : Checked(k)
             /\ legs' = [l \in Leg |-> IF \A k \in Leg : Checked(k) THEN Transit(l) ELSE legs[l]]
    <3>1. \A l \in Leg : legs'[l] = Transit(l) /\ legs[l].filled <= Transit(l).qmax
      BY <2>2 DEF Checked
    <3> QED
      BY <1>5, <2>2, <3>1
  <2>3. CASE /\ ~\A k \in Leg : Checked(k)
             /\ legs' = [l \in Leg |-> IF \A k \in Leg : Checked(k) THEN Transit(l) ELSE legs[l]]
    <3>1. legs' = legs
      BY <1>2, <2>3
    <3> QED
      BY <2>1, <3>1
  <2> QED
    BY <1>1, <2>1, <2>2, <2>3
<1>7. FaultCounted /\ faults' <= MaxFaults /\ faults \in Nat
  BY <1>0, <1>1, FaultsBounded
<1>8. UNCHANGED <<combo_orders, external_in_flight, handler, cancelling>>
      /\ UNCHANGED <<intents, reports, published, executed>> /\ batch.pc = "transit"
  BY <1>1 DEF topics
<1>9. TopicsShaped' /\ FlagCovers' /\ external_in_flight' \subseteq Leg
  BY <1>7, <1>8, SameTopics
<1>10. ComboTypeOK'
  BY <1>0, <1>6, <1>7, <1>8, <1>9 DEF ComboTypeOK, LegRow, FaultCounted
<1>11. BatchShaped' /\ LoadedIsFresh' /\ CurrentFits'
  <2>1. BatchShaped'
    BY <1>0, <1>3 DEF BatchShaped, BatchStages
  <2>2. LoadedIsFresh'
    <3>1. \A l \in DOMAIN batch.loaded : l \in Leg
      BY <1>0 DEF BatchShaped
    <3> QED
      BY <1>0, <1>3, <1>4, <1>6, <3>1 DEF LoadedIsFresh
  <2>3. CurrentFits'
    BY <1>3 DEF CurrentFits
  <2> QED
    BY <2>1, <2>2, <2>3
<1>12. OwedIsReal'
  <2>1. \A l \in Leg : Owed(l)' = Owed(l) /\ Owed(l) \in Nat
    BY <1>0, <1>8, SetsFinite DEF Owed, Unmarked, Qty
  <2>2. \A l \in Leg : Owed(l)' \in Nat /\ Owed(l)' <= Owed(l)
    BY <2>1
  <2> QED
    BY <1>6, <1>7, <1>8, <2>2, OwedKept
<1>13. BookMatchesTopic'
  <2>1. \A l \in Leg : InProgress(l) = 0 /\ InProgress(l)' = 0
    BY <1>3, <1>8 DEF InProgress
  <2> QED
    BY <1>6, <1>7, <1>8, <2>1, BookKept
<1> QED
  BY <1>9, <1>10, <1>11, <1>12, <1>13 DEF ComboInv

-----------------------------------------------------------------------------
(* The venues and the consumer thread.  None of their steps touches the    *)
(* batch or an internal leg.                                               *)
LEMMA ConsumerSteps ==
  ASSUME CombosAssumption, ComboInv, FaultCounted, faults' <= MaxFaults,
         UNCHANGED <<combo_orders, batch, published, cancelling>>, legs' \in [Leg -> LegRow],
         SameFills({l \in Leg : ~External(l)}), \A l \in Leg : legs'[l].filled <= legs'[l].qmax,
         executed' \in [Leg -> Nat], external_in_flight' \subseteq Leg,
         TopicsShaped', FlagCovers', OwedIsReal'
  PROVE  ComboInv'
<1>0. ComboTypeOK /\ BatchShaped /\ LoadedIsFresh /\ CurrentFits
  BY DEF ComboInv
<1>1. ComboTypeOK'
  BY <1>0 DEF ComboTypeOK, LegRow, FaultCounted
<1>2. BatchShaped' /\ LoadedIsFresh' /\ CurrentFits'
  BY <1>0, BatchPartKept
<1>3. \A l \in Leg : InProgress(l) \in Nat /\ InProgress(l)' = InProgress(l)
  BY <1>0, InProgressType DEF InProgress
<1>4. BookMatchesTopic'
  BY <1>3, BookKept DEF SameFills
<1> QED
  BY <1>1, <1>2, <1>4 DEF ComboInv

LEMMA VenueStep ==
  ASSUME CombosAssumption, ComboInv, NEW i \in DOMAIN intents, NEW s \in Statuses, VenueAnswer(i, s)
  PROVE  ComboInv'
<1> DEFINE lg == intents[i].leg
           q  == intents[i].qty
           n  == Len(reports) + 1
           rep == [leg |-> lg, qty |-> q, status |-> s]
<1>0. ComboTypeOK /\ TopicsShaped /\ FlagCovers /\ OwedIsReal
  BY DEF ComboInv
<1>1. /\ intents[i].open /\ intents' = [intents EXCEPT ![i].open = FALSE]
      /\ reports' = Append(reports, rep)
      /\ executed' = [executed EXCEPT ![lg] = IF s = "FILLED" THEN @ + q ELSE @]
      /\ UNCHANGED <<combo_orders, legs, external_in_flight, batch, handler, published, cancelling, faults>>
  BY DEF VenueAnswer, tables, memory
<1>2. /\ intents \in Seq(Chunk) /\ reports \in Seq(VenueReport) /\ intents[i] \in Chunk
      /\ DOMAIN intents = 1 .. Len(intents) /\ DOMAIN reports = 1 .. Len(reports)
      /\ Len(reports) \in Nat /\ n \in Nat /\ q <= Def[lg].rate
  BY <1>0 DEF TopicsShaped
<1>3. lg \in Leg /\ External(lg) /\ q \in Nat /\ rep \in VenueReport
  BY <1>2 DEF Chunk, VenueReport
<1>4. /\ intents' \in Seq(Chunk) /\ DOMAIN intents' = DOMAIN intents
      /\ \A j \in DOMAIN intents : /\ intents'[j].leg = intents[j].leg /\ intents'[j].qty = intents[j].qty
                                   /\ intents'[j].open <=> intents[j].open /\ j # i
  <2> DEFINE closed == [intents[i] EXCEPT !.open = FALSE]
  <2>1. /\ closed \in Chunk /\ closed.leg = lg /\ closed.qty = q /\ ~closed.open
    BY <1>2 DEF Chunk
  <2>2. intents' = [intents EXCEPT ![i] = closed]
    BY <1>1
  <2> HIDE DEF closed
  <2>3. intents' \in Seq(Chunk) /\ Len(intents') = Len(intents)
        /\ \A j \in 1 .. Len(intents) : intents'[j] = IF j = i THEN closed ELSE intents[j]
    BY <1>2, <2>1, <2>2, ExceptSeq
  <2> QED
    BY <1>2, <2>1, <2>3
<1>5. /\ reports' \in Seq(VenueReport) /\ Len(reports') = n /\ DOMAIN reports' = 1 .. n
      /\ \A r \in 1 .. Len(reports) : reports'[r] = reports[r]
      /\ reports'[n] = rep
  BY <1>1, <1>2, <1>3, AppendProperties
<1>6. TopicsShaped'
  <2>1. \A j \in DOMAIN intents' : intents'[j].qty <= Def[intents'[j].leg].rate
    BY <1>0, <1>4 DEF TopicsShaped
  <2>2. \A r \in DOMAIN reports' : reports'[r].qty <= Def[reports'[r].leg].rate
    <3> SUFFICES ASSUME NEW r \in 1 .. n PROVE reports'[r].qty <= Def[reports'[r].leg].rate
      BY <1>5
    <3>1. CASE r = n
      BY <1>2, <1>5, <3>1
    <3>2. CASE r # n
      <4>1. r \in DOMAIN reports /\ reports'[r] = reports[r]
        BY <1>2, <1>5, <3>2
      <4> QED
        BY <1>0, <4>1 DEF TopicsShaped
    <3> QED
      BY <3>1, <3>2
  <2>3. /\ handler' \in [pc : HandlerStage, next : Nat \ {0}]
        /\ handler'.next <= Len(reports') + 1
        /\ handler'.pc # "idle" => handler'.next <= Len(reports')
    BY <1>0, <1>1, <1>2, <1>5 DEF TopicsShaped
  <2>4. handler'.pc = "mark" => reports'[handler'.next].status # "OTHER"
    <3> SUFFICES ASSUME handler.pc = "mark" PROVE reports'[handler.next].status # "OTHER"
      BY <1>1
    <3>1. handler.next \in 1 .. Len(reports) /\ reports[handler.next].status # "OTHER"
      BY <1>0, <1>2 DEF TopicsShaped
    <3> QED
      BY <1>5, <3>1
  <2> QED
    BY <1>4, <1>5, <2>1, <2>2, <2>3, <2>4 DEF TopicsShaped
<1>7. handler.next \in Nat \ {0} /\ (handler.next = n => handler.pc = "idle") /\ handler.next <= n
  BY <1>0, <1>2 DEF TopicsShaped
<1>8. FlagCovers'
  <2> SUFFICES ASSUME NEW k \in Leg PROVE ChunksOut(k)' <= Flagged(k)' + 2 * faults'
    BY DEF FlagCovers
  <2>1. ChunksOut(k) <= Flagged(k) + 2 * faults /\ faults \in Nat
    BY <1>0 DEF FlagCovers, ComboTypeOK
  <2>2. /\ IsFiniteSet(OpenChunks(k)) /\ Cardinality(OpenChunks(k)) \in Nat
        /\ IsFiniteSet(Untaken(k)) /\ Cardinality(Untaken(k)) \in Nat
    BY <1>0, SetsFinite
  <2>3. Flagged(k)' = Flagged(k) /\ Flagged(k) \in {0, 1}
    BY <1>1 DEF Flagged
  <2>4. OpenChunks(k)' = OpenChunks(k) \ {i}
    BY <1>4 DEF OpenChunks
  <2>5. i \in OpenChunks(k) <=> k = lg
    BY <1>1 DEF OpenChunks
  <2>6. Untaken(k)' \subseteq Untaken(k) \cup (IF k = lg THEN {n} ELSE {})
    <3>1. \A r \in 1 .. n : r \in Untaken(k)' => r \in Untaken(k) \/ (r = n /\ k = lg)
      BY <1>1, <1>2, <1>5, <1>7 DEF Untaken
    <3>2. Untaken(k)' \subseteq 1 .. n
      BY <1>1, <1>2, <1>5, <1>7 DEF Untaken
    <3> QED
      BY <3>1, <3>2
  <2>7. CASE k = lg
    <3> HIDE DEF n, lg
    <3>1. i \in OpenChunks(k) /\ Cardinality(OpenChunks(k)') = Cardinality(OpenChunks(k)) - 1
      BY <2>2, <2>4, <2>5, <2>7, FS_RemoveElement
    <3>2. /\ IsFiniteSet(Untaken(k) \cup {n})
          /\ Cardinality(Untaken(k) \cup {n}) <= Cardinality(Untaken(k)) + 1
          /\ Cardinality(Untaken(k) \cup {n}) \in Nat
      <4>1. /\ IsFiniteSet(Untaken(k) \cup {n})
            /\ Cardinality(Untaken(k) \cup {n}) = IF n \in Untaken(k) THEN Cardinality(Untaken(k))
                                                  ELSE Cardinality(Untaken(k)) + 1
        BY <2>2, FS_AddElement
      <4> QED
        BY <2>2, <4>1
    <3>3. Cardinality(Untaken(k)') <= Cardinality(Untaken(k) \cup {n}) /\ Cardinality(Untaken(k)') \in Nat
      <4>1. Untaken(k)' \subseteq Untaken(k) \cup {n}
        BY <2>6, <2>7
      <4> QED
        BY <3>2, <4>1, FS_Subset, FS_CardinalityType
    <3> QED
      BY <1>1, <2>1, <2>2, <2>3, <3>1, <3>2, <3>3 DEF ChunksOut
  <2>8. CASE k # lg
    <3>1. OpenChunks(k)' = OpenChunks(k)
      BY <2>4, <2>5, <2>8
    <3>2. Untaken(k)' \subseteq Untaken(k)
      BY <2>6, <2>8
    <3>3. Cardinality(Untaken(k)') <= Cardinality(Untaken(k)) /\ Cardinality(Untaken(k)') \in Nat
      BY <2>2, <3>2, FS_Subset, FS_CardinalityType
    <3> QED
      BY <1>1, <2>1, <2>2, <2>3, <3>1, <3>3 DEF ChunksOut, Flagged
  <2> QED
    BY <2>7, <2>8
<1>9. OwedIsReal'
  <2> SUFFICES ASSUME NEW k \in Leg, External(k)
               PROVE  legs'[k].filled + Owed(k)' <= executed'[k] + Slack(k)'
    BY DEF OwedIsReal
  <2> DEFINE T == IF k = lg /\ s = "FILLED" THEN {n} ELSE {}
  <2>1. legs[k].filled + Owed(k) <= executed[k] + Slack(k)
    BY <1>0 DEF OwedIsReal
  <2>2. IsFiniteSet(Unmarked(k)) /\ (\A r \in Unmarked(k) : Qty[r] \in Nat) /\ Owed(k) \in Nat
    BY <1>0, SetsFinite
  <2>3. Unmarked(k)' = Unmarked(k) \cup T /\ n \notin Unmarked(k)
    <3>1. \A r \in 1 .. n : r \in Unmarked(k)' <=> r \in Unmarked(k) \cup T
      BY <1>1, <1>2, <1>5, <1>7 DEF Unmarked
    <3>2. Unmarked(k)' \subseteq 1 .. n /\ Unmarked(k) \subseteq 1 .. Len(reports) /\ T \subseteq 1 .. n
      BY <1>1, <1>2, <1>5, <1>7 DEF Unmarked
    <3> QED
      BY <1>2, <3>1, <3>2
  <2>4. /\ \A r \in Unmarked(k) : Qty'[r] = Qty[r]
        /\ Qty'[n] = q
    <3>1. Unmarked(k) \subseteq 1 .. Len(reports)
      BY <1>7 DEF Unmarked
    <3> QED
      BY <1>2, <1>5, <3>1 DEF Qty
  <2>5. SumFunctionOnSet(Qty', Unmarked(k)) = Owed(k)
    <3>1. \A r \in Unmarked(k) : Qty[r] \in Int /\ Qty[r] = Qty'[r]
      BY <2>2, <2>4
    <3>2. SumFunctionOnSet(Qty, Unmarked(k)) = SumFunctionOnSet(Qty', Unmarked(k))
      BY <2>2, <3>1, SumSame
    <3> QED
      BY <3>2 DEF Owed
  <2>6. Owed(k)' = SumFunctionOnSet(Qty', Unmarked(k)')
    BY DEF Owed
  <2>7. executed[k] \in Nat /\ legs[k].filled \in Nat /\ faults \in Nat /\ Slack(k) \in Nat
        /\ Slack(k)' = Slack(k)
    BY <1>0, <1>1, SlackGrows DEF ComboTypeOK, Slack
  <2>8. CASE k = lg /\ s = "FILLED"
    <3> DEFINE U == Unmarked(k) \cup {n}
    <3>1. IsFiniteSet(U) /\ n \in U /\ U \ {n} = Unmarked(k) /\ \A r \in U : Qty'[r] \in Int
      BY <1>3, <2>2, <2>3, <2>4, FS_AddElement
    <3> DEFINE g == Qty'
    <3> HIDE DEF n, U, g
    <3>2. SumFunctionOnSet(g, U) = g[n] + SumFunctionOnSet(g, U \ {n})
      BY <3>1, SumSplit DEF g
    <3>3. Owed(k)' = q + Owed(k)
      BY <2>3, <2>4, <2>5, <2>6, <2>8, <3>1, <3>2 DEF g, U
    <3>4. executed'[k] = executed[k] + q
      BY <1>0, <1>1, <2>8 DEF ComboTypeOK
    <3> HIDE DEF lg, q
    <3> QED
      BY <1>1, <1>3, <2>1, <2>2, <2>7, <2>8, <3>3, <3>4
  <2>9. CASE ~(k = lg /\ s = "FILLED")
    <3>1. Owed(k)' = Owed(k)
      BY <2>3, <2>5, <2>6, <2>9
    <3>2. executed'[k] = executed[k]
      BY <1>0, <1>1, <2>9 DEF ComboTypeOK
    <3> QED
      BY <1>1, <2>1, <2>7, <3>1, <3>2
  <2> QED
    BY <2>8, <2>9
<1>10. /\ legs' \in [Leg -> LegRow] /\ SameFills({l \in Leg : ~External(l)})
       /\ \A l \in Leg : legs'[l].filled <= legs'[l].qmax
  BY <1>0, <1>1 DEF ComboTypeOK, LegRow, SameFills
<1>11. executed' \in [Leg -> Nat] /\ external_in_flight' \subseteq Leg
  BY <1>0, <1>1, <1>3 DEF ComboTypeOK
<1>12. FaultCounted /\ faults' <= MaxFaults
  BY <1>0, <1>1, FaultsBounded
<1> QED
  BY <1>1, <1>6, <1>8, <1>9, <1>10, <1>11, <1>12, ConsumerSteps

(* The handler turns to or away from the report it is at.                  *)
LEMMA OwedLess ==
  ASSUME TopicsShaped, UNCHANGED reports, NEW l \in Leg, NEW x,
         Unmarked(l)' \in {Unmarked(l), Unmarked(l) \ {x}}
  PROVE  /\ Owed(l) \in Nat /\ Owed(l)' \in Nat /\ Owed(l)' <= Owed(l)
         /\ x \in Unmarked(l) /\ Unmarked(l)' = Unmarked(l) \ {x} => Owed(l) = Qty[x] + Owed(l)'
<1> DEFINE S == Unmarked(l)
<1>1. IsFiniteSet(S) /\ (\A r \in S : Qty[r] \in Nat) /\ Owed(l) \in Nat
  BY SetsFinite
<1>2. Qty' = Qty /\ Owed(l) = SumFunctionOnSet(Qty, S) /\ Owed(l)' = SumFunctionOnSet(Qty, Unmarked(l)')
  BY DEF Qty, Owed
<1>3. CASE x \in S /\ Unmarked(l)' = S \ {x}
  <2>1. IsFiniteSet(S \ {x}) /\ (\A r \in S \ {x} : Qty[r] \in Nat) /\ \A r \in S : Qty[r] \in Int
    BY <1>1, FS_Subset
  <2>2. SumFunctionOnSet(Qty, S \ {x}) \in Nat
    BY <2>1, SumNat
  <2>3. SumFunctionOnSet(Qty, S) = Qty[x] + SumFunctionOnSet(Qty, S \ {x})
    BY <1>1, <1>3, <2>1, SumSplit
  <2> QED
    BY <1>1, <1>2, <1>3, <2>2, <2>3
<1>4. CASE ~(x \in S /\ Unmarked(l)' = S \ {x})
  <2>1. Unmarked(l)' = S
    BY <1>4
  <2> QED
    BY <1>1, <1>2, <1>4, <2>1
<1> QED
  BY <1>3, <1>4

LEMMA HandlerShaped ==
  ASSUME TopicsShaped, UNCHANGED <<intents, reports>>,
         handler' \in [pc : HandlerStage, next : Nat \ {0}], handler'.next <= Len(reports) + 1,
         handler'.pc # "idle" => handler'.next <= Len(reports),
         handler'.pc = "mark" => reports[handler'.next].status # "OTHER"
  PROVE  TopicsShaped'
  BY DEF TopicsShaped

LEMMA HandlerMoves ==
  ASSUME TopicsShaped, UNCHANGED <<intents, reports>>, NEW l \in Leg
  PROVE  /\ OpenChunks(l)' = OpenChunks(l)
         /\ handler.pc = "idle" /\ handler'.pc \in {"mark", "commit"} /\ handler'.next = handler.next
              => /\ Untaken(l)' = Untaken(l) \ {handler.next}
                 /\ Unmarked(l)' = IF handler'.pc = "mark" THEN Unmarked(l) ELSE Unmarked(l) \ {handler.next}
         /\ handler.pc # "idle" /\ handler'.pc \in {"record", "commit"} /\ handler'.next = handler.next
              => /\ Untaken(l)' = Untaken(l)
                 /\ Unmarked(l)' = Unmarked(l) \ {handler.next}
         /\ handler.pc = "commit" /\ handler'.pc = "idle" /\ handler'.next = handler.next + 1
              => Untaken(l)' = Untaken(l) /\ Unmarked(l)' = Unmarked(l)
<1>0. handler.next \in Nat /\ Len(reports) \in Nat
  BY DEF TopicsShaped
<1>1. OpenChunks(l)' = OpenChunks(l)
  BY DEF OpenChunks
<1>2. ASSUME handler.pc = "idle", handler'.pc \in {"mark", "commit"}, handler'.next = handler.next
      PROVE  /\ Untaken(l)' = Untaken(l) \ {handler.next}
             /\ Unmarked(l)' = IF handler'.pc = "mark" THEN Unmarked(l) ELSE Unmarked(l) \ {handler.next}
  BY <1>0, <1>2 DEF Untaken, Unmarked
<1>3. ASSUME handler.pc # "idle", handler'.pc \in {"record", "commit"}, handler'.next = handler.next
      PROVE  Untaken(l)' = Untaken(l) /\ Unmarked(l)' = Unmarked(l) \ {handler.next}
  BY <1>0, <1>3 DEF Untaken, Unmarked
<1>4. ASSUME handler.pc = "commit", handler'.pc = "idle", handler'.next = handler.next + 1
      PROVE  Untaken(l)' = Untaken(l) /\ Unmarked(l)' = Unmarked(l)
  <2>1. \A r \in Int : r \in handler'.next .. Len(reports) <=> r \in handler.next .. Len(reports) /\ r # handler.next
    BY <1>0, <1>4
  <2>2. Untaken(l)' = Untaken(l)
    BY <1>0, <1>4, <2>1 DEF Untaken
  <2>3. Unmarked(l)' = Unmarked(l)
    BY <1>0, <1>4, <2>1 DEF Unmarked
  <2> QED
    BY <2>2, <2>3
<1> QED
  BY <1>1, <1>2, <1>3, <1>4

(* Fewer answers to take under the same flags.                             *)
LEMMA FlagsShrink ==
  ASSUME ComboInv, FaultCounted,
         \A l \in Leg : /\ OpenChunks(l)' = OpenChunks(l) /\ Untaken(l)' \subseteq Untaken(l)
                        /\ Flagged(l)' = Flagged(l)
  PROVE  FlagCovers'
<1> SUFFICES ASSUME NEW l \in Leg PROVE ChunksOut(l)' <= Flagged(l)' + 2 * faults'
  BY DEF FlagCovers
<1>1. faults \in Nat /\ faults' \in Nat /\ faults <= faults'
  BY DEF FaultCounted, ComboInv, ComboTypeOK
<1>2. /\ Cardinality(OpenChunks(l)) \in Nat /\ IsFiniteSet(Untaken(l))
      /\ Cardinality(Untaken(l)) \in Nat
  BY SetsFinite DEF ComboInv
<1>3. ChunksOut(l) <= Flagged(l) + 2 * faults /\ Flagged(l) \in {0, 1}
  BY DEF ComboInv, FlagCovers, Flagged
<1>4. Cardinality(Untaken(l)') <= Cardinality(Untaken(l)) /\ Cardinality(Untaken(l)') \in Nat
  BY <1>2, FS_Subset, FS_CardinalityType
<1> QED
  BY <1>1, <1>2, <1>3, <1>4 DEF ChunksOut

LEMMA TakeStep == ASSUME CombosAssumption, ComboInv, TakeReport PROVE ComboInv'
<1> DEFINE n == handler.next
<1>0. ComboTypeOK /\ TopicsShaped /\ FlagCovers
  BY DEF ComboInv
<1>1. /\ handler.pc = "idle" /\ n <= Len(reports)
      /\ UNCHANGED <<combo_orders, legs, batch, cancelling>>
      /\ UNCHANGED <<intents, reports, published, executed>>
  BY DEF TakeReport, tables, topics
<1>2. handler \in [pc : HandlerStage, next : Nat \ {0}] /\ n \in 1 .. Len(reports)
  BY <1>0, <1>1 DEF TopicsShaped
<1>3. /\ handler' \in [pc : HandlerStage, next : Nat \ {0}] /\ handler'.next = n
      /\ handler'.pc \in {"mark", "commit"}
      /\ handler'.pc = "mark" => reports[n].status # "OTHER"
  BY <1>2 DEF TakeReport, Report, HandlerStage
<1>4. TopicsShaped'
  BY <1>0, <1>1, <1>2, <1>3, HandlerShaped
<1>5. \A l \in Leg : /\ OpenChunks(l)' = OpenChunks(l) /\ Untaken(l)' = Untaken(l) \ {n}
                     /\ Unmarked(l)' \in {Unmarked(l), Unmarked(l) \ {n}}
  BY <1>0, <1>1, <1>3, HandlerMoves
<1>6. FaultCounted /\ faults' <= MaxFaults /\ faults \in Nat
  BY <1>0, FaultsBounded DEF TakeReport
<1>7. legs' \in [Leg -> LegRow] /\ SameFills(Leg) /\ \A l \in Leg : legs'[l].filled <= legs'[l].qmax
  BY <1>0, <1>1 DEF ComboTypeOK, LegRow, SameFills
<1>8. OwedIsReal'
  <2>1. \A l \in Leg : Owed(l)' \in Nat /\ Owed(l)' <= Owed(l)
    BY <1>0, <1>1, <1>5, OwedLess
  <2> QED
    BY <1>1, <1>6, <1>7, <2>1, OwedKept DEF SameFills
<1>9. FlagCovers'
  <2>1. CASE UNCHANGED external_in_flight
    <3>1. \A l \in Leg : Flagged(l)' = Flagged(l) /\ Untaken(l)' \subseteq Untaken(l)
      BY <1>5, <2>1 DEF Flagged
    <3> QED
      BY <1>5, <1>6, <3>1, FlagsShrink
  <2>2. CASE /\ Report.status # "OTHER" /\ external_in_flight' = Freed(Report)
             /\ UNCHANGED faults
    <3> SUFFICES ASSUME NEW l \in Leg PROVE ChunksOut(l)' <= Flagged(l)' + 2 * faults'
      BY DEF FlagCovers
    <3>1. /\ Cardinality(OpenChunks(l)) \in Nat /\ IsFiniteSet(Untaken(l))
          /\ Cardinality(Untaken(l)) \in Nat
      BY <1>0, SetsFinite
    <3>2. ChunksOut(l) <= Flagged(l) + 2 * faults /\ Flagged(l) \in {0, 1} /\ Flagged(l)' \in {0, 1}
      BY <1>0 DEF FlagCovers, Flagged
    <3>3. CASE l = reports[n].leg
      <4>1. n \in Untaken(l)
        BY <1>1, <1>2, <2>2, <3>3 DEF Untaken, Report
      <4>2. Cardinality(Untaken(l)') = Cardinality(Untaken(l)) - 1
        BY <1>5, <3>1, <4>1, FS_RemoveElement
      <4> QED
        BY <1>5, <1>6, <2>2, <3>1, <3>2, <4>2 DEF ChunksOut
    <3>4. CASE l # reports[n].leg
      <4>1. Untaken(l)' = Untaken(l)
        BY <1>5, <3>4 DEF Untaken
      <4>2. Flagged(l)' = Flagged(l)
        BY <2>2, <3>4 DEF Flagged, Freed, Report
      <4> QED
        BY <1>5, <2>2, <3>2, <4>1, <4>2 DEF ChunksOut
    <3> QED
      BY <3>3, <3>4
  <2> QED
    BY <2>1, <2>2 DEF TakeReport
<1>10. external_in_flight' \subseteq Leg /\ executed' \in [Leg -> Nat]
  BY <1>0, <1>1 DEF TakeReport, Freed, ComboTypeOK
<1>11. SameFills({l \in Leg : ~External(l)})
  BY <1>7 DEF SameFills
<1> QED
  BY <1>1, <1>4, <1>6, <1>7, <1>8, <1>9, <1>10, <1>11, ConsumerSteps

LEMMA BusySteps ==
  ASSUME ComboInv, FaultCounted, handler.pc # "idle",
         handler' \in [pc : {"record", "commit"}, next : {handler.next}],
         UNCHANGED <<intents, reports, external_in_flight>>
  PROVE  /\ TopicsShaped' /\ FlagCovers' /\ external_in_flight' \subseteq Leg
         /\ \A l \in Leg : Unmarked(l)' = Unmarked(l) \ {handler.next}
         /\ \A l \in Leg : Owed(l)' \in Nat /\ Owed(l)' <= Owed(l)
<1>0. ComboTypeOK /\ TopicsShaped
  BY DEF ComboInv
<1>1. handler.next \in Nat \ {0} /\ handler.next <= Len(reports)
  BY <1>0 DEF TopicsShaped
<1>2. TopicsShaped'
  BY <1>0, <1>1, HandlerShaped DEF HandlerStage
<1>3. \A l \in Leg : /\ OpenChunks(l)' = OpenChunks(l) /\ Untaken(l)' = Untaken(l)
                     /\ Unmarked(l)' = Unmarked(l) \ {handler.next} /\ Flagged(l)' = Flagged(l)
  BY <1>0, HandlerMoves DEF Flagged
<1>4. \A l \in Leg : Owed(l)' \in Nat /\ Owed(l)' <= Owed(l)
  BY <1>0, <1>3, OwedLess
<1>5. FlagCovers'
  BY <1>3, FlagsShrink
<1> QED
  BY <1>0, <1>2, <1>3, <1>4, <1>5 DEF ComboTypeOK

LEMMA LoggedSteps ==
  ASSUME CombosAssumption, ComboInv, MarkFailedCall \/ RecordPending PROVE ComboInv'
<1>0. ComboTypeOK /\ TopicsShaped
  BY DEF ComboInv
<1>1. /\ handler.pc # "idle" /\ handler' = [handler EXCEPT !.pc = "commit"]
      /\ UNCHANGED <<combo_orders, legs, batch, cancelling, external_in_flight>>
      /\ UNCHANGED <<intents, reports, published, executed>>
      /\ UNCHANGED faults \/ Fault
  BY DEF MarkFailedCall, RecordPending, tables, topics
<1>2. handler' \in [pc : {"record", "commit"}, next : {handler.next}]
  BY <1>0, <1>1 DEF TopicsShaped
<1>3. FaultCounted /\ faults' <= MaxFaults
  BY <1>0, <1>1, FaultsBounded
<1>4. /\ TopicsShaped' /\ FlagCovers' /\ external_in_flight' \subseteq Leg
      /\ \A l \in Leg : Owed(l)' \in Nat /\ Owed(l)' <= Owed(l)
  BY <1>1, <1>2, <1>3, BusySteps
<1>5. /\ legs' \in [Leg -> LegRow] /\ SameFills(Leg) /\ SameFills({l \in Leg : ~External(l)})
      /\ (\A l \in Leg : legs'[l].filled <= legs'[l].qmax) /\ executed' \in [Leg -> Nat]
  BY <1>0, <1>1 DEF ComboTypeOK, LegRow, SameFills
<1>6. OwedIsReal'
  BY <1>1, <1>3, <1>4, <1>5, OwedKept DEF SameFills
<1> QED
  BY <1>1, <1>3, <1>4, <1>5, <1>6, ConsumerSteps

LEMMA MarkFailedStep ==
  ASSUME CombosAssumption, ComboInv, MarkExternalLegFailed PROVE ComboInv'
<1> DEFINE lg == Report.leg
<1>0. ComboTypeOK /\ TopicsShaped
  BY DEF ComboInv
<1>1. /\ handler.pc = "mark"
      /\ handler' = [handler EXCEPT !.pc = "commit"] \/ handler' = [handler EXCEPT !.pc = "record"]
      /\ legs' = legs \/ legs' = [legs EXCEPT ![lg].status = "failed_external"]
      /\ UNCHANGED <<combo_orders, batch, cancelling, external_in_flight, faults>>
      /\ UNCHANGED <<intents, reports, published, executed>>
  BY DEF MarkExternalLegFailed, topics
<1>2. handler' \in [pc : {"record", "commit"}, next : {handler.next}]
  BY <1>0, <1>1 DEF TopicsShaped
<1>3. FaultCounted /\ faults' <= MaxFaults
  BY <1>0, <1>1, FaultsBounded
<1>4. /\ TopicsShaped' /\ FlagCovers' /\ external_in_flight' \subseteq Leg
      /\ \A l \in Leg : Owed(l)' \in Nat /\ Owed(l)' <= Owed(l)
  BY <1>1, <1>2, <1>3, BusySteps
<1>5. legs \in [Leg -> LegRow] /\ \A l \in Leg : legs[l].filled <= legs[l].qmax
  BY <1>0 DEF ComboTypeOK, LegRow
<1>6. legs' \in [Leg -> LegRow] /\ SameFills(Leg)
  <2>1. CASE legs' = legs
    BY <1>5, <2>1 DEF SameFills
  <2>2. CASE legs' = [legs EXCEPT ![lg].status = "failed_external"]
    <3>1. lg \in Leg
      <4>1. handler.next \in 1 .. Len(reports)
        BY <1>0, <1>1 DEF TopicsShaped
      <4> QED
        BY <1>0, <4>1, ReportAt DEF Report
    <3> HIDE DEF lg
    <3> QED
      BY <1>5, <2>2, <3>1 DEF LegRow, LegStatus, SameFills
  <2> QED
    BY <1>1, <2>1, <2>2
<1>7. /\ SameFills({l \in Leg : ~External(l)}) /\ executed' \in [Leg -> Nat]
      /\ \A l \in Leg : legs'[l].filled <= legs'[l].qmax
  BY <1>0, <1>1, <1>5, <1>6 DEF ComboTypeOK, SameFills
<1>8. OwedIsReal'
  BY <1>1, <1>3, <1>4, <1>6, OwedKept DEF SameFills
<1> QED
  BY <1>1, <1>3, <1>4, <1>6, <1>7, <1>8, ConsumerSteps

LEMMA MarkFilledStep ==
  ASSUME CombosAssumption, ComboInv, MarkExternalLegFilled PROVE ComboInv'
<1> DEFINE n  == handler.next
           lg == reports[n].leg
           q  == reports[n].qty
           f  == Lesser(legs[lg].filled + q, legs[lg].qmax)
           st == IF f >= legs[lg].qmax THEN "filled" ELSE "partially_filled"
<1>0. ComboTypeOK /\ TopicsShaped /\ OwedIsReal
  BY DEF ComboInv
<1>1. /\ handler.pc = "mark" /\ reports[n].status = "FILLED"
      /\ handler' = [handler EXCEPT !.pc = "commit"]
      /\ legs' = legs \/ legs' = [legs EXCEPT ![lg].filled = f, ![lg].status = st]
      /\ UNCHANGED <<combo_orders, batch, cancelling, external_in_flight, faults>>
      /\ UNCHANGED <<intents, reports, published, executed>>
  BY DEF MarkExternalLegFilled, topics, Report, FilledCum
<1>2. handler' \in [pc : {"record", "commit"}, next : {handler.next}]
  BY <1>0, <1>1 DEF TopicsShaped
<1>3. FaultCounted /\ faults' <= MaxFaults /\ faults \in Nat
  BY <1>0, <1>1, FaultsBounded
<1>4. /\ TopicsShaped' /\ FlagCovers' /\ external_in_flight' \subseteq Leg
      /\ \A l \in Leg : Owed(l)' \in Nat /\ Owed(l)' <= Owed(l)
      /\ \A l \in Leg : Unmarked(l)' = Unmarked(l) \ {n}
  BY <1>1, <1>2, <1>3, BusySteps
<1>5. n \in 1 .. Len(reports) /\ lg \in Leg /\ External(lg) /\ q \in Nat /\ Qty[n] = q
  <2>1. n \in 1 .. Len(reports)
    BY <1>0, <1>1 DEF TopicsShaped
  <2> QED
    BY <1>0, <2>1, ReportAt DEF Qty
<1>6. n \in Unmarked(lg)
  BY <1>1, <1>5 DEF Unmarked
<1>7. ASSUME NEW l \in Leg, l = lg PROVE Owed(l) = q + Owed(l)'
  BY <1>0, <1>1, <1>4, <1>5, <1>6, <1>7, OwedLess
<1>8. legs \in [Leg -> LegRow] /\ \A l \in Leg : legs[l].filled <= legs[l].qmax
  BY <1>0 DEF ComboTypeOK, LegRow
<1>9. legs[lg].filled \in Nat /\ legs[lg].qmax \in Nat /\ legs[lg] \in LegRow
  BY <1>5, <1>8 DEF LegRow
<1>10. f \in Nat /\ f <= legs[lg].qmax /\ f <= legs[lg].filled + q /\ st \in LegStatus
  BY <1>5, <1>9 DEF Lesser, LegStatus
<1> HIDE DEF f, st, lg, q, n
<1>11. /\ legs' \in [Leg -> LegRow]
       /\ \A l \in Leg : /\ legs'[l].qmax = legs[l].qmax
                         /\ l # lg => legs'[l].filled = legs[l].filled
       /\ legs'[lg].filled \in {legs[lg].filled, f}
  <2>1. CASE legs' = legs
    BY <1>8, <2>1
  <2>2. CASE legs' = [legs EXCEPT ![lg].filled = f, ![lg].status = st]
    <3>1. legs' = [legs EXCEPT ![lg] = [legs[lg] EXCEPT !.filled = f, !.status = st]]
      BY <1>5, <1>8, <2>2
    <3>2. [legs[lg] EXCEPT !.filled = f, !.status = st] \in LegRow
      BY <1>9, <1>10 DEF LegRow
    <3>3. /\ [legs[lg] EXCEPT !.filled = f, !.status = st].filled = f
          /\ [legs[lg] EXCEPT !.filled = f, !.status = st].qmax = legs[lg].qmax
      BY <1>9 DEF LegRow
    <3> QED
      BY <1>5, <1>8, <3>1, <3>2, <3>3
  <2> QED
    BY <1>1, <2>1, <2>2
<1>12. /\ SameFills({l \in Leg : ~External(l)}) /\ executed' \in [Leg -> Nat]
       /\ \A l \in Leg : legs'[l].filled <= legs'[l].qmax
  <2>1. \A l \in Leg : legs'[l].filled <= legs'[l].qmax
    BY <1>5, <1>8, <1>10, <1>11
  <2> QED
    BY <1>0, <1>1, <1>5, <1>11, <2>1 DEF ComboTypeOK, SameFills
<1>13. OwedIsReal'
  <2> SUFFICES ASSUME NEW l \in Leg, External(l)
               PROVE  legs'[l].filled + Owed(l)' <= executed'[l] + Slack(l)'
    BY DEF OwedIsReal
  <2>1. legs[l].filled + Owed(l) <= executed[l] + Slack(l)
    BY <1>0 DEF OwedIsReal
  <2>2. legs[l].filled \in Nat /\ executed[l] \in Nat /\ Slack(l) \in Nat /\ Slack(l)' = Slack(l)
    BY <1>0, <1>1, <1>3, SlackGrows DEF ComboTypeOK, FaultCounted
  <2>3. Owed(l) \in Nat /\ Owed(l)' \in Nat /\ Owed(l)' <= Owed(l)
    BY <1>0, <1>4, SetsFinite
  <2>6. executed' = executed
    BY <1>1
  <2>4. CASE l = lg
    <3>1. legs'[l].filled \in Nat /\ legs'[l].filled <= legs[l].filled + q
      <4>1. legs'[lg].filled \in Nat /\ legs'[lg].filled <= legs[lg].filled + q
        BY <1>5, <1>9, <1>10, <1>11
      <4> QED
        BY <2>4, <4>1
    <3>2. Owed(l) = q + Owed(l)'
      BY <1>7, <2>4
    <3> QED
      <4>1. q \in Nat
        BY <1>5
      <4>2. \A a, b, c, d, e \in Nat : a <= b + c /\ d = c + e => a + e <= b + d
        OBVIOUS
      <4>3. legs'[l].filled + Owed(l)' <= legs[l].filled + Owed(l)
        BY <2>2, <2>3, <3>1, <3>2, <4>1, <4>2
      <4> QED
        BY <2>1, <2>2, <2>3, <2>6, <3>1, <4>3
  <2>5. CASE l # lg
    <3>1. legs'[l].filled = legs[l].filled
      BY <1>11, <2>5
    <3> QED
      BY <2>1, <2>2, <2>3, <2>6, <3>1
  <2> QED
    BY <2>4, <2>5
<1> QED
  BY <1>1, <1>3, <1>4, <1>11, <1>12, <1>13, ConsumerSteps

LEMMA CommitReportStep == ASSUME CombosAssumption, ComboInv, CommitReport PROVE ComboInv'
<1>0. ComboTypeOK /\ TopicsShaped
  BY DEF ComboInv
<1>1. /\ handler.pc = "commit" /\ handler' = [pc |-> "idle", next |-> handler.next + 1]
      /\ UNCHANGED <<combo_orders, legs, batch, cancelling, external_in_flight, faults>>
      /\ UNCHANGED <<intents, reports, published, executed>>
  BY DEF CommitReport, tables, topics
<1>2. handler.next \in Nat \ {0} /\ handler.next <= Len(reports) /\ Len(reports) \in Nat
  BY <1>0, <1>1 DEF TopicsShaped
<1>3. TopicsShaped'
  BY <1>0, <1>1, <1>2, HandlerShaped DEF HandlerStage
<1>4. \A l \in Leg : /\ OpenChunks(l)' = OpenChunks(l) /\ Untaken(l)' = Untaken(l)
                     /\ Unmarked(l)' = Unmarked(l) /\ Flagged(l)' = Flagged(l)
  BY <1>0, <1>1, HandlerMoves DEF Flagged
<1>5. FaultCounted /\ faults' <= MaxFaults
  BY <1>0, <1>1, FaultsBounded
<1>6. FlagCovers'
  BY <1>4, <1>5, FlagsShrink
<1>7. \A l \in Leg : Owed(l)' \in Nat /\ Owed(l)' <= Owed(l)
  BY <1>0, <1>1, <1>4, OwedLess
<1>8. /\ legs' \in [Leg -> LegRow] /\ SameFills(Leg) /\ SameFills({l \in Leg : ~External(l)})
      /\ (\A l \in Leg : legs'[l].filled <= legs'[l].qmax) /\ executed' \in [Leg -> Nat]
      /\ external_in_flight' \subseteq Leg
  BY <1>0, <1>1 DEF ComboTypeOK, LegRow, SameFills
<1>9. OwedIsReal'
  BY <1>1, <1>5, <1>7, <1>8, OwedKept DEF SameFills
<1> QED
  BY <1>1, <1>3, <1>5, <1>6, <1>8, <1>9, ConsumerSteps

(* A restart forgets the flags, may hand out one report again and leaves   *)
(* the group in progress unwritten.                                        *)
LEMMA RestartMatchingStep == ASSUME CombosAssumption, ComboInv, RestartMatching PROVE ComboInv'
<1> DEFINE n == handler.next
<1>0. ComboTypeOK /\ BatchShaped /\ TopicsShaped /\ CurrentFits /\ FlagCovers /\ OwedIsReal
  BY DEF ComboInv
<1>1. /\ Fault /\ external_in_flight' = {} /\ batch' = [IdleBatch EXCEPT !.n = batch.n]
      /\ handler' = [handler EXCEPT !.pc = "idle"]
      /\ UNCHANGED <<combo_orders, legs, cancelling>>
      /\ UNCHANGED <<intents, reports, published, executed>>
  BY DEF RestartMatching, tables, topics
<1>2. /\ DOMAIN batch' = BatchFields /\ batch'.pc = "idle" /\ batch'.loaded = <<>>
      /\ batch'.route = {} /\ batch'.groups = {}
  BY <1>1 DEF BatchFields, IdleBatch
<1>3. BatchShaped' /\ LoadedIsFresh' /\ CurrentFits'
  BY <1>2 DEF BatchShaped, LoadedIsFresh, CurrentFits, BatchStages
<1>4. FaultCounted /\ faults' <= MaxFaults /\ faults \in Nat /\ faults' = faults + 1
  BY <1>0, <1>1, FaultsBounded DEF Fault
<1>5. /\ handler' \in [pc : HandlerStage, next : Nat \ {0}] /\ handler'.next = n /\ handler'.pc = "idle"
      /\ n \in Nat \ {0} /\ n <= Len(reports) + 1 /\ Len(reports) \in Nat
  BY <1>0, <1>1 DEF TopicsShaped, HandlerStage
<1>6. TopicsShaped'
  BY <1>0, <1>1, <1>5, HandlerShaped
<1>7. ComboTypeOK'
  BY <1>0, <1>1, <1>4 DEF ComboTypeOK
<1>8. FlagCovers'
  <2> SUFFICES ASSUME NEW l \in Leg PROVE ChunksOut(l)' <= Flagged(l)' + 2 * faults'
    BY DEF FlagCovers
  <2>1. /\ Cardinality(OpenChunks(l)) \in Nat /\ IsFiniteSet(Untaken(l))
        /\ Cardinality(Untaken(l)) \in Nat
    BY <1>0, SetsFinite
  <2>2. ChunksOut(l) <= Flagged(l) + 2 * faults /\ Flagged(l) \in {0, 1} /\ Flagged(l)' = 0
    BY <1>0, <1>1 DEF FlagCovers, Flagged
  <2>3. OpenChunks(l)' = OpenChunks(l) /\ Untaken(l)' \subseteq Untaken(l) \cup {n}
    BY <1>1, <1>5 DEF OpenChunks, Untaken
  <2> HIDE DEF n
  <2>4. /\ IsFiniteSet(Untaken(l) \cup {n})
        /\ Cardinality(Untaken(l) \cup {n}) = IF n \in Untaken(l) THEN Cardinality(Untaken(l))
                                              ELSE Cardinality(Untaken(l)) + 1
    BY <2>1, FS_AddElement
  <2>5. Cardinality(Untaken(l)') <= Cardinality(Untaken(l) \cup {n}) /\ Cardinality(Untaken(l)') \in Nat
    BY <2>3, <2>4, FS_Subset, FS_CardinalityType
  <2> QED
    BY <1>4, <2>1, <2>2, <2>3, <2>4, <2>5 DEF ChunksOut
<1>9. OwedIsReal'
  <2> SUFFICES ASSUME NEW l \in Leg, External(l)
               PROVE  legs'[l].filled + Owed(l)' <= executed'[l] + Slack(l)'
    BY DEF OwedIsReal
  <2> DEFINE S == Unmarked(l)
             U == S \cup {n}
  <2>1. legs[l].filled + Owed(l) <= executed[l] + Slack(l)
    BY <1>0 DEF OwedIsReal
  <2>2. /\ legs[l].filled \in Nat /\ executed[l] \in Nat /\ Def[l].rate \in Nat
        /\ Slack(l) \in Nat /\ Slack(l)' = Slack(l) + Def[l].rate
    BY <1>0, <1>4, SlackGrows, LegDef DEF ComboTypeOK, FaultCounted
  <2>3. IsFiniteSet(S) /\ (\A r \in S : Qty[r] \in Nat) /\ Owed(l) \in Nat
    BY <1>0, SetsFinite
  <2>4. /\ Qty' = Qty /\ Owed(l) = SumFunctionOnSet(Qty, S)
        /\ Owed(l)' = SumFunctionOnSet(Qty, Unmarked(l)')
    BY <1>1 DEF Qty, Owed
  <2>5. \/ Unmarked(l)' = S
        \/ Unmarked(l)' = U /\ n \notin S /\ n \in 1 .. Len(reports) /\ reports[n].leg = l
    BY <1>1, <1>5 DEF Unmarked
  <2>6. Owed(l)' \in Nat /\ Owed(l)' <= Owed(l) + Def[l].rate
    <3>1. CASE Unmarked(l)' = S
      BY <2>2, <2>3, <2>4, <3>1
    <3>2. CASE Unmarked(l)' = U /\ n \notin S /\ n \in 1 .. Len(reports) /\ reports[n].leg = l
      <4>1. Qty[n] \in Nat /\ Qty[n] <= Def[l].rate
        BY <1>0, <3>2, ReportAt DEF Qty
      <4> HIDE DEF S, n
      <4>2. IsFiniteSet(U) /\ n \in U /\ U \ {n} = S /\ \A r \in U : Qty[r] \in Int
        BY <2>3, <3>2, <4>1, FS_AddElement
      <4> HIDE DEF U
      <4>3. SumFunctionOnSet(Qty, U) = Qty[n] + SumFunctionOnSet(Qty, U \ {n})
        BY <4>2, SumSplit
      <4>4. Owed(l)' = Qty[n] + Owed(l)
        BY <2>4, <3>2, <4>2, <4>3
      <4> QED
        BY <2>2, <2>3, <4>1, <4>4
    <3> QED
      BY <2>5, <3>1, <3>2
  <2> QED
    BY <1>1, <2>1, <2>2, <2>3, <2>6
<1>10. BookMatchesTopic'
  <2> SUFFICES ASSUME NEW l \in Leg, ~External(l), OwnSymbol(l)
               PROVE  /\ published'[l] <= legs'[l].filled + InProgress(l)' + Slack(l)'
                      /\ legs'[l].filled + InProgress(l)' <= published'[l] + Slack(l)'
    BY DEF BookMatchesTopic, OwnSymbol, Slack
  <2>1. InProgress(l)' = 0 /\ InProgress(l) \in Nat
    BY <1>0, <1>2, InProgressType DEF InProgress
  <2>2. /\ published[l] <= legs[l].filled + InProgress(l) + Slack(l)
        /\ legs[l].filled + InProgress(l) <= published[l] + Slack(l)
    BY DEF BookMatchesTopic, ComboInv, Slack
  <2>3. legs[l].filled \in Nat /\ published[l] \in Nat
    BY <1>0 DEF ComboTypeOK
  <2>4. Def[l].rate \in Nat /\ InProgress(l) <= Def[l].rate
    BY <1>0, LegDef DEF InProgress, FitsRow, CurrentFits
  <2>5. Slack(l) \in Nat /\ Slack(l)' = Slack(l) + Def[l].rate
    BY <1>4, SlackGrows DEF FaultCounted
  <2> QED
    BY <1>1, <2>1, <2>2, <2>3, <2>4, <2>5
<1> QED
  BY <1>3, <1>6, <1>7, <1>8, <1>9, <1>10 DEF ComboInv

(* Whatever fails, restarts or interleaves: rows, memory and topics stay   *)
(* well formed and no row exceeds its q_max; what execution.groups told    *)
(* the ledger of an internal leg is what PersistExecutionGroup wrote, and  *)
(* the venues never executed less than MarkExternalLegFilled wrote, each   *)
(* up to one volume per failure; and a leg has one chunk out, up to two    *)
(* per failure (external_in_flight_).  For any combos and links.           *)
THEOREM CombosAreSafe == ASSUME CombosAssumption PROVE ComboSpec => []ComboSafety
<1>1. ComboInit => ComboInv
  BY ComboInitInv
<1>2. ComboInv /\ [ComboNext]_comboVars => ComboInv'
  <2> SUFFICES ASSUME ComboInv, [ComboNext]_comboVars PROVE ComboInv'
    OBVIOUS
  <2>1. CASE GroupedBatch
    BY <2>1, LoadStep, RouteStep, SkipStep, PublishStep, PersistStep, GraphStep, TransitStep,
       EndBatchStep DEF GroupedBatch
  <2>2. CASE VenuesAnswer
    BY <2>2, VenueStep DEF VenuesAnswer
  <2>3. CASE HandleReport
    BY <2>3, TakeStep, LoggedSteps, MarkFilledStep, MarkFailedStep, CommitReportStep DEF HandleReport
  <2>4. CASE UNCHANGED comboVars
    <3>1. /\ UNCHANGED <<combo_orders, legs, cancelling, batch, external_in_flight, handler>>
          /\ UNCHANGED <<intents, reports, published, executed, faults>>
      BY <2>4 DEF comboVars, tables, memory, topics
    <3>2. ComboTypeOK' /\ BatchShaped' /\ TopicsShaped'
      BY <3>1 DEF ComboInv, ComboTypeOK, BatchShaped, TopicsShaped
    <3>3. LoadedIsFresh' /\ BookMatchesTopic'
      BY <3>1 DEF ComboInv, LoadedIsFresh, BookMatchesTopic, InProgress, OwnSymbol
    <3>4. CurrentFits'
      <4>1. \A l, q : FitsRow(l, q) => FitsRow(l, q)'
        BY <3>1 DEF FitsRow, OwnSymbol
      <4> QED
        BY <3>1, <4>1 DEF ComboInv, CurrentFits
    <3>5. FlagCovers' /\ OwedIsReal'
      BY <3>1 DEF ComboInv, FlagCovers, OwedIsReal, ChunksOut, OpenChunks, Untaken, Flagged, Owed,
                  Unmarked, Qty, Slack
    <3> QED
      BY <3>2, <3>3, <3>4, <3>5 DEF ComboInv
  <2> QED
    BY <2>1, <2>2, <2>3, <2>4, OrderFlowSteps, RestartMatchingStep DEF ComboNext
<1>3. ComboInv => ComboSafety
  BY ComboInvSafe
<1> QED
  BY <1>1, <1>2, <1>3, PTL DEF ComboSpec
=============================================================================

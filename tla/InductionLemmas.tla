-------------------------- MODULE InductionLemmas --------------------------
(***************************************************************************)
(* Induction over data without an operator parameter: a property of all    *)
(* numbers, or of all subsets of a finite set, is proved from the least    *)
(* counterexample.  With it, what the sum of a function over a finite set  *)
(* is.                                                                     *)
(***************************************************************************)
EXTENDS Integers, FiniteSets, Functions, FiniteSetTheorems, WellFoundedInduction, TLAPS

(* A set of naturals has a least element.                                  *)
LEMMA LeastNumber == ASSUME NEW T \in SUBSET Nat, T # {} PROVE \E n \in T : \A m \in T : n <= m
<1> DEFINE R == OpToRel(<, Nat)
<1>1. IsWellFoundedOn(R, Nat)
  BY NatLessThanWellFounded
<1>2. \A x, y \in Nat : x < y => <<x, y>> \in R
  BY DEF OpToRel
<1> HIDE DEF R
<1>3. PICK n \in T : \A m \in T : ~(<<m, n>> \in R)
  BY <1>1, WFMin
<1>4. ASSUME NEW m \in T PROVE n <= m
  <2>1. n \in Nat /\ m \in Nat
    OBVIOUS
  <2>2. ~(m < n)
    BY <1>2, <1>3, <2>1
  <2> QED
    BY <2>1, <2>2
<1> QED
  BY <1>3, <1>4

(* Removing an element of a subset of a finite set.                       *)
LEMMA OneLess ==
  ASSUME NEW S, IsFiniteSet(S), NEW s \in SUBSET S, NEW x \in s
  PROVE  /\ IsFiniteSet(s) /\ s \ {x} \in SUBSET S
         /\ Cardinality(s) \in Nat /\ Cardinality(s \ {x}) = Cardinality(s) - 1
  BY FS_Subset, FS_RemoveElement, FS_CardinalityType

(* A set of subsets of a finite set has a member that loses its membership *)
(* with any of its elements: induction on finite sets.                     *)
LEMMA LeastSet ==
  ASSUME NEW S, IsFiniteSet(S), NEW B \in SUBSET (SUBSET S), B # {}
  PROVE  \E s \in B : \A x \in s : s \ {x} \notin B
<1> DEFINE N == {Cardinality(s) : s \in B}
<1>1. \A s \in B : Cardinality(s) \in Nat
  BY FS_Subset, FS_CardinalityType
<1>2. PICK n \in N : \A m \in N : n <= m
  <2>1. N \in SUBSET Nat /\ N # {}
    BY <1>1
  <2> HIDE DEF N
  <2> QED
    BY <2>1, LeastNumber
<1>3. PICK s \in B : n = Cardinality(s)
  OBVIOUS
<1>4. ASSUME NEW x \in s, s \ {x} \in B PROVE FALSE
  <2>1. Cardinality(s \ {x}) = Cardinality(s) - 1 /\ Cardinality(s) \in Nat
    BY <1>4, OneLess
  <2>2. Cardinality(s) <= Cardinality(s \ {x})
    BY <1>2, <1>3, <1>4
  <2> QED
    BY <2>1, <2>2
<1> QED
  BY <1>4

-----------------------------------------------------------------------------
(* SumFunctionOnSet is defined by a recursive function over the subsets;   *)
(* SumBody is its equation.                                                *)
Pick(s) == CHOOSE x \in s : TRUE
SumBody(f, g, s) == IF s = {} THEN 0 ELSE f[Pick(s)] + g[s \ {Pick(s)}]

(* There is such a function: from the sets of up to n elements to those of *)
(* one more.                                                               *)
LEMMA SumExists ==
  ASSUME NEW S, IsFiniteSet(S), NEW f, \A x \in S : f[x] \in Int
  PROVE  \E g \in [SUBSET S -> Int] : \A s \in SUBSET S : g[s] = SumBody(f, g, s)
<1> DEFINE Upto(g, n) == \A s \in SUBSET S : Cardinality(s) <= n => g[s] = SumBody(f, g, s)
           Bad == {n \in Nat : ~\E g \in [SUBSET S -> Int] : Upto(g, n)}
<1>0. \A s \in SUBSET S : IsFiniteSet(s) /\ Cardinality(s) \in Nat /\ Cardinality(s) <= Cardinality(S)
  BY FS_Subset, FS_CardinalityType
<1>1. Bad = {}
  <2> SUFFICES ASSUME Bad # {} PROVE FALSE
    OBVIOUS
  <2>1. PICK n \in Bad : \A m \in Bad : n <= m
    <3>1. Bad \in SUBSET Nat
      OBVIOUS
    <3> HIDE DEF Bad
    <3> QED
      BY <3>1, LeastNumber
  <2>2. n # 0
    <3> DEFINE g == [s \in SUBSET S |-> 0]
    <3>1. \A s \in SUBSET S : Cardinality(s) <= 0 => s = {}
      BY <1>0, FS_EmptySet
    <3>2. g \in [SUBSET S -> Int] /\ Upto(g, 0)
      BY <3>1 DEF SumBody
    <3> HIDE DEF g, Upto
    <3> QED
      BY <2>1, <3>2
  <2>3. n \in Nat /\ n - 1 \in Nat /\ n - 1 \notin Bad
    <3>1. n \in Nat
      OBVIOUS
    <3> HIDE DEF Bad
    <3> QED
      BY <2>1, <2>2, <3>1
  <2>4. PICK g \in [SUBSET S -> Int] : Upto(g, n - 1)
    BY <2>3
  <2> DEFINE h == [s \in SUBSET S |-> IF Cardinality(s) = n THEN SumBody(f, g, s) ELSE g[s]]
  <2>5. ASSUME NEW s \in SUBSET S PROVE SumBody(f, g, s) \in Int
    <3>1. s # {} => Pick(s) \in s
      BY DEF Pick
    <3>2. s # {} => f[Pick(s)] \in Int /\ g[s \ {Pick(s)}] \in Int
      BY <3>1
    <3> QED
      BY <3>2 DEF SumBody
  <2>6. h \in [SUBSET S -> Int]
    BY <2>5
  <2>7. ASSUME NEW s \in SUBSET S, Cardinality(s) <= n PROVE h[s] = SumBody(f, h, s)
    <3>1. SumBody(f, h, s) = SumBody(f, g, s)
      <4>1. CASE s = {}
        BY <4>1 DEF SumBody
      <4>2. CASE s # {}
        <5> DEFINE t == s \ {Pick(s)}
        <5>1. Pick(s) \in s
          BY <4>2 DEF Pick
        <5>2. t \in SUBSET S /\ Cardinality(t) = Cardinality(s) - 1 /\ Cardinality(s) \in Nat
          BY <5>1, OneLess
        <5>3. h[t] = g[t]
          <6> HIDE DEF t
          <6> QED
            BY <2>3, <2>7, <5>2
        <5> QED
          BY <5>3 DEF SumBody
      <4> QED
        BY <4>1, <4>2
    <3>2. CASE Cardinality(s) = n
      BY <3>1, <3>2
    <3>3. CASE Cardinality(s) # n
      <4>1. Cardinality(s) <= n - 1
        BY <1>0, <2>3, <2>7, <3>3
      <4>2. g[s] = SumBody(f, g, s)
        BY <2>4, <4>1
      <4> QED
        BY <3>1, <3>3, <4>2
    <3> QED
      BY <3>2, <3>3
  <2>8. Upto(h, n)
    BY <2>7
  <2> HIDE DEF h, Upto
  <2> QED
    BY <2>1, <2>6, <2>8
<1>2. Cardinality(S) \in Nat
  BY FS_CardinalityType
<1>3. PICK g \in [SUBSET S -> Int] : Upto(g, Cardinality(S))
  <2> HIDE DEF Upto
  <2> QED
    BY <1>1, <1>2
<1> QED
  BY <1>0, <1>3

LEMMA SumIs ==
  ASSUME NEW S, IsFiniteSet(S), NEW f, \A x \in S : f[x] \in Int
  PROVE  \E g \in [SUBSET S -> Int] :
           /\ \A s \in SUBSET S : g[s] = SumBody(f, g, s)
           /\ SumFunctionOnSet(f, S) = g[S]
<1> DEFINE Is(g) == g = [s \in SUBSET S |-> IF s = {} THEN 0
                                           ELSE f[CHOOSE x \in s : TRUE] + g[s \ {CHOOSE x \in s : TRUE}]]
           g == CHOOSE g : Is(g)
<1>1. \E h : Is(h)
  <2>1. PICK h \in [SUBSET S -> Int] : \A s \in SUBSET S : h[s] = SumBody(f, h, s)
    BY SumExists
  <2>2. h = [s \in SUBSET S |-> SumBody(f, h, s)]
    BY <2>1
  <2>3. Is(h)
    BY <2>2 DEF SumBody, Pick
  <2> QED
    BY <2>3
<1>2. Is(g)
  <2> HIDE DEF Is
  <2> QED
    BY <1>1
<1>3. SumFunctionOnSet(f, S) = g[S]
  BY DEF SumFunctionOnSet, FoldFunctionOnSet, MapThenFoldSet
<1> HIDE DEF g
<1>4. \A s \in SUBSET S : g[s] = SumBody(f, g, s)
  BY <1>2 DEF SumBody, Pick
<1>5. DOMAIN g = SUBSET S /\ g = [s \in SUBSET S |-> g[s]]
  BY <1>2
<1>6. \A s \in SUBSET S : g[s] \in Int
  <2> DEFINE B == {s \in SUBSET S : g[s] \notin Int}
  <2> SUFFICES ASSUME B # {} PROVE FALSE
    OBVIOUS
  <2>1. PICK s \in B : \A x \in s : s \ {x} \notin B
    <3>1. B \in SUBSET (SUBSET S)
      OBVIOUS
    <3> HIDE DEF B
    <3> QED
      BY <3>1, LeastSet
  <2>2. s # {} => Pick(s) \in s
    BY DEF Pick
  <2>3. s # {} => f[Pick(s)] \in Int /\ g[s \ {Pick(s)}] \in Int
    BY <2>1, <2>2
  <2>4. g[s] \in Int
    BY <1>4, <2>3 DEF SumBody
  <2> QED
    BY <2>4
<1>7. g \in [SUBSET S -> Int]
  BY <1>5, <1>6
<1> QED
  BY <1>3, <1>4, <1>7

(* Two functions that agree on a finite set have the same sum over it.     *)
LEMMA SumUnique ==
  ASSUME NEW S, IsFiniteSet(S), NEW f, NEW e, \A x \in S : f[x] = e[x],
         NEW g, NEW h, \A s \in SUBSET S : g[s] = SumBody(f, g, s) /\ h[s] = SumBody(e, h, s)
  PROVE  g[S] = h[S]
<1> DEFINE B == {s \in SUBSET S : g[s] # h[s]}
<1> SUFFICES ASSUME B # {} PROVE FALSE
  OBVIOUS
<1>1. PICK s \in B : \A x \in s : s \ {x} \notin B
  <2>1. B \in SUBSET (SUBSET S)
    OBVIOUS
  <2> HIDE DEF B
  <2> QED
    BY <2>1, LeastSet
<1>2. s # {} => Pick(s) \in s
  BY DEF Pick
<1>3. s # {} => f[Pick(s)] = e[Pick(s)] /\ g[s \ {Pick(s)}] = h[s \ {Pick(s)}]
  BY <1>1, <1>2
<1>4. g[s] = h[s]
  BY <1>3 DEF SumBody
<1> QED
  BY <1>4

LEMMA SumSame ==
  ASSUME NEW S, IsFiniteSet(S), NEW f, NEW e, \A x \in S : f[x] \in Int /\ f[x] = e[x]
  PROVE  SumFunctionOnSet(f, S) = SumFunctionOnSet(e, S)
<1>1. PICK g \in [SUBSET S -> Int] :
           /\ \A s \in SUBSET S : g[s] = SumBody(f, g, s)
           /\ SumFunctionOnSet(f, S) = g[S]
  BY SumIs
<1>2. PICK h \in [SUBSET S -> Int] :
           /\ \A s \in SUBSET S : h[s] = SumBody(e, h, s)
           /\ SumFunctionOnSet(e, S) = h[S]
  BY SumIs
<1> QED
  BY <1>1, <1>2, SumUnique

LEMMA SumEmpty == ASSUME NEW f PROVE SumFunctionOnSet(f, {}) = 0
<1>1. PICK g \in [SUBSET {} -> Int] :
           /\ \A s \in SUBSET {} : g[s] = SumBody(f, g, s)
           /\ SumFunctionOnSet(f, {}) = g[{}]
  BY SumIs, FS_EmptySet
<1> QED
  BY <1>1 DEF SumBody

(* Any element can be the one that is taken out first.                     *)
LEMMA SumSplit ==
  ASSUME NEW S, IsFiniteSet(S), NEW f, \A x \in S : f[x] \in Int, NEW x \in S
  PROVE  /\ SumFunctionOnSet(f, S) \in Int /\ SumFunctionOnSet(f, S \ {x}) \in Int
         /\ SumFunctionOnSet(f, S) = f[x] + SumFunctionOnSet(f, S \ {x})
<1>1. PICK g \in [SUBSET S -> Int] :
           /\ \A s \in SUBSET S : g[s] = SumBody(f, g, s)
           /\ SumFunctionOnSet(f, S) = g[S]
  BY SumIs
<1>2. ASSUME NEW s \in SUBSET S, NEW y \in s PROVE g[s] = f[y] + g[s \ {y}]
  <2> DEFINE B == {t \in SUBSET S : \E z \in t : g[t] # f[z] + g[t \ {z}]}
  <2> SUFFICES ASSUME B # {} PROVE FALSE
    BY <1>2
  <2>1. PICK t \in B : \A z \in t : t \ {z} \notin B
    <3>1. B \in SUBSET (SUBSET S)
      OBVIOUS
    <3> HIDE DEF B
    <3> QED
      BY <3>1, LeastSet
  <2>2. PICK z \in t : g[t] # f[z] + g[t \ {z}]
    OBVIOUS
  <2> DEFINE c == Pick(t)
  <2>3. c \in t
    BY <2>2 DEF Pick
  <2>4. g[t] = f[c] + g[t \ {c}]
    BY <1>1, <2>2 DEF SumBody
  <2> HIDE DEF c
  <2>5. c # z
    BY <2>2, <2>4
  <2>6. g[t \ {c}] = f[z] + g[(t \ {c}) \ {z}]
    BY <2>1, <2>2, <2>3, <2>5
  <2>7. g[t \ {z}] = f[c] + g[(t \ {z}) \ {c}]
    BY <2>1, <2>2, <2>3, <2>5
  <2>8. (t \ {z}) \ {c} = (t \ {c}) \ {z}
    OBVIOUS
  <2>9. f[c] \in Int /\ f[z] \in Int /\ g[(t \ {c}) \ {z}] \in Int
    BY <1>1, <2>2, <2>3
  <2>10. \A i, j, k \in Int : i + (j + k) = j + (i + k)
    OBVIOUS
  <2>11. f[c] + (f[z] + g[(t \ {c}) \ {z}]) = f[z] + (f[c] + g[(t \ {c}) \ {z}])
    BY <2>9, <2>10
  <2> HIDE DEF B
  <2> QED
    BY <2>2, <2>4, <2>6, <2>7, <2>8, <2>11
<1>3. SumFunctionOnSet(f, S \ {x}) = g[S \ {x}]
  <2>1. IsFiniteSet(S \ {x})
    BY FS_Subset
  <2>2. PICK h \in [SUBSET (S \ {x}) -> Int] :
           /\ \A s \in SUBSET (S \ {x}) : h[s] = SumBody(f, h, s)
           /\ SumFunctionOnSet(f, S \ {x}) = h[S \ {x}]
    BY <2>1, SumIs
  <2>3. \A s \in SUBSET (S \ {x}) : g[s] = SumBody(f, g, s)
    BY <1>1
  <2>4. g[S \ {x}] = h[S \ {x}]
    <3> DEFINE T == S \ {x}
               e == f
    <3>1. /\ IsFiniteSet(T) /\ \A y \in T : f[y] = e[y]
          /\ \A s \in SUBSET T : g[s] = SumBody(f, g, s) /\ h[s] = SumBody(e, h, s)
      BY <2>1, <2>2, <2>3
    <3> HIDE DEF T, e
    <3>2. g[T] = h[T]
      BY <3>1, SumUnique
    <3> QED
      BY <3>2 DEF T
  <2> QED
    BY <2>2, <2>4
<1>4. g[S] \in Int /\ g[S \ {x}] \in Int
  BY <1>1
<1> QED
  BY <1>1, <1>2, <1>3, <1>4

LEMMA SumType ==
  ASSUME NEW S, IsFiniteSet(S), NEW f, \A x \in S : f[x] \in Int
  PROVE  SumFunctionOnSet(f, S) \in Int
<1>1. PICK g \in [SUBSET S -> Int] :
           /\ \A s \in SUBSET S : g[s] = SumBody(f, g, s)
           /\ SumFunctionOnSet(f, S) = g[S]
  BY SumIs
<1> QED
  BY <1>1

(* Without elements that are not positive a sum is not less.               *)
LEMMA SumOfPart ==
  ASSUME NEW S, IsFiniteSet(S), NEW f, \A x \in S : f[x] \in Int,
         NEW T \in SUBSET S, \A x \in S \ T : f[x] <= 0
  PROVE  SumFunctionOnSet(f, S) <= SumFunctionOnSet(f, T)
<1> DEFINE W == S \ T
           B == {s \in SUBSET W : ~(SumFunctionOnSet(f, T \cup s) <= SumFunctionOnSet(f, T))}
<1>1. IsFiniteSet(T) /\ IsFiniteSet(W)
  BY FS_Subset
<1>2. SumFunctionOnSet(f, T) \in Int
  BY <1>1, SumType
<1>3. B = {}
  <2> SUFFICES ASSUME B # {} PROVE FALSE
    OBVIOUS
  <2>1. PICK s \in B : \A x \in s : s \ {x} \notin B
    <3>1. B \in SUBSET (SUBSET W)
      OBVIOUS
    <3> HIDE DEF B, W
    <3> QED
      BY <1>1, <3>1, LeastSet
  <2>2. s # {}
    <3>1. T \cup {} = T
      OBVIOUS
    <3> QED
      BY <1>2, <2>1, <3>1
  <2>3. PICK x \in s : TRUE
    BY <2>2
  <2> DEFINE U == T \cup s
  <2>4. IsFiniteSet(U) /\ x \in U /\ U \in SUBSET S /\ U \ {x} = T \cup (s \ {x})
    BY FS_Subset
  <2>5. \A y \in U : f[y] \in Int
    BY <2>4
  <2>6. SumFunctionOnSet(f, T \cup (s \ {x})) <= SumFunctionOnSet(f, T)
    BY <2>1, <2>3
  <2>7. ~(SumFunctionOnSet(f, U) <= SumFunctionOnSet(f, T))
    BY <2>1
  <2>8. f[x] \in Int /\ f[x] <= 0
    BY <2>3
  <2> HIDE DEF U, B
  <2>9. /\ SumFunctionOnSet(f, U) \in Int /\ SumFunctionOnSet(f, U \ {x}) \in Int
        /\ SumFunctionOnSet(f, U) = f[x] + SumFunctionOnSet(f, U \ {x})
    BY <2>4, <2>5, SumSplit
  <2> QED
    BY <1>2, <2>4, <2>6, <2>7, <2>8, <2>9
<1>4. W \notin B /\ T \cup W = S
  BY <1>3
<1> QED
  BY <1>4

(* Numbers that are not negative have such a sum, and more of them do not  *)
(* have a smaller one.                                                     *)
LEMMA SumNat ==
  ASSUME NEW S, IsFiniteSet(S), NEW f, \A x \in S : f[x] \in Nat
  PROVE  SumFunctionOnSet(f, S) \in Nat
<1> DEFINE B == {s \in SUBSET S : SumFunctionOnSet(f, s) \notin Nat}
<1> SUFFICES ASSUME B # {} PROVE FALSE
  OBVIOUS
<1>1. PICK s \in B : \A x \in s : s \ {x} \notin B
  <2>1. B \in SUBSET (SUBSET S)
    OBVIOUS
  <2> HIDE DEF B
  <2> QED
    BY <2>1, LeastSet
<1>2. s # {}
  BY <1>1, SumEmpty
<1>3. PICK x \in s : TRUE
  BY <1>2
<1>4. IsFiniteSet(s) /\ \A y \in s : f[y] \in Int
  BY FS_Subset
<1>5. SumFunctionOnSet(f, s) = f[x] + SumFunctionOnSet(f, s \ {x})
  BY <1>3, <1>4, SumSplit
<1>6. SumFunctionOnSet(f, s \ {x}) \in Nat /\ f[x] \in Nat
  BY <1>1, <1>3
<1> QED
  BY <1>1, <1>5, <1>6

LEMMA SumGrows ==
  ASSUME NEW S, IsFiniteSet(S), NEW f, \A x \in S : f[x] \in Nat, NEW T \in SUBSET S
  PROVE  SumFunctionOnSet(f, T) <= SumFunctionOnSet(f, S)
<1> DEFINE W == S \ T
           B == {s \in SUBSET W : ~(SumFunctionOnSet(f, T) <= SumFunctionOnSet(f, T \cup s))}
<1>1. IsFiniteSet(T) /\ IsFiniteSet(W)
  BY FS_Subset
<1>2. SumFunctionOnSet(f, T) \in Nat
  BY <1>1, SumNat
<1>3. B = {}
  <2> SUFFICES ASSUME B # {} PROVE FALSE
    OBVIOUS
  <2>1. PICK s \in B : \A x \in s : s \ {x} \notin B
    <3>1. B \in SUBSET (SUBSET W)
      OBVIOUS
    <3> HIDE DEF B, W
    <3> QED
      BY <1>1, <3>1, LeastSet
  <2>2. s # {}
    <3>1. T \cup {} = T
      OBVIOUS
    <3> QED
      BY <1>2, <2>1, <3>1
  <2>3. PICK x \in s : TRUE
    BY <2>2
  <2> DEFINE U == T \cup s
  <2>4. IsFiniteSet(U) /\ x \in U /\ U \in SUBSET S /\ U \ {x} = T \cup (s \ {x})
    BY FS_Subset
  <2>5. \A y \in U : f[y] \in Int
    BY <2>4
  <2>6. SumFunctionOnSet(f, T) <= SumFunctionOnSet(f, T \cup (s \ {x}))
    BY <2>1, <2>3
  <2>7. ~(SumFunctionOnSet(f, T) <= SumFunctionOnSet(f, U))
    BY <2>1
  <2>8. f[x] \in Nat
    BY <2>3
  <2> HIDE DEF U, B
  <2>9. /\ SumFunctionOnSet(f, U) \in Int /\ SumFunctionOnSet(f, U \ {x}) \in Int
        /\ SumFunctionOnSet(f, U) = f[x] + SumFunctionOnSet(f, U \ {x})
    BY <2>4, <2>5, SumSplit
  <2> QED
    BY <1>2, <2>4, <2>6, <2>7, <2>8, <2>9
<1>4. W \notin B /\ T \cup W = S
  BY <1>3
<1> QED
  BY <1>4

(* Facts about products that the solver does not find on its own.          *)
LEMMA ProductType == \A a, b \in Nat : a * b \in Nat
  OBVIOUS

LEMMA OneMoreTimes == \A f, r \in Nat : (f + 1) * r = f * r + r
  OBVIOUS

LEMMA ProductGrows == \A m, a, b \in Nat : a <= b => m * a <= m * b
<1> SUFFICES ASSUME NEW m \in Nat, NEW a \in Nat, NEW b \in Nat, a <= b PROVE m * a <= m * b
  OBVIOUS
<1>1. b - a \in Nat /\ m * b = m * a + m * (b - a)
  OBVIOUS
<1>2. m * (b - a) \in Nat /\ m * a \in Nat
  BY <1>1, ProductType
<1> QED
  BY <1>1, <1>2

(* Numbers of at most m have a sum of at most m times their number.        *)
LEMMA SumBound ==
  ASSUME NEW S, IsFiniteSet(S), NEW f, NEW m \in Nat, \A x \in S : f[x] \in 0 .. m
  PROVE  SumFunctionOnSet(f, S) <= m * Cardinality(S)
<1> DEFINE B == {s \in SUBSET S : ~(SumFunctionOnSet(f, s) <= m * Cardinality(s))}
<1> SUFFICES ASSUME B # {} PROVE FALSE
  OBVIOUS
<1>1. PICK s \in B : \A x \in s : s \ {x} \notin B
  <2>1. B \in SUBSET (SUBSET S)
    OBVIOUS
  <2> HIDE DEF B
  <2> QED
    BY <2>1, LeastSet
<1>2. s # {}
  <2>1. SumFunctionOnSet(f, {}) = 0 /\ Cardinality({}) = 0 /\ m * 0 = 0
    BY SumEmpty, FS_EmptySet
  <2> QED
    BY <1>1, <2>1
<1>3. PICK x \in s : TRUE
  BY <1>2
<1>4. IsFiniteSet(s) /\ \A y \in s : f[y] \in Int
  BY FS_Subset
<1>5. /\ SumFunctionOnSet(f, s) = f[x] + SumFunctionOnSet(f, s \ {x})
      /\ SumFunctionOnSet(f, s \ {x}) \in Int
  BY <1>3, <1>4, SumSplit
<1>6. Cardinality(s \ {x}) \in Nat /\ Cardinality(s) = Cardinality(s \ {x}) + 1
  <2>1. Cardinality(s) \in Nat /\ Cardinality(s \ {x}) = Cardinality(s) - 1
    BY OneLess
  <2>2. IsFiniteSet(s \ {x})
    BY <1>4, FS_Subset
  <2> QED
    BY <2>1, <2>2, FS_CardinalityType
<1> DEFINE k == Cardinality(s \ {x})
<1>7. SumFunctionOnSet(f, s \ {x}) <= m * k /\ f[x] \in 0 .. m
  BY <1>1, <1>3
<1>8. m * Cardinality(s) = m * k + m /\ m * k \in Nat
  <2> HIDE DEF k
  <2>1. k \in Nat /\ Cardinality(s) = k + 1
    BY <1>6 DEF k
  <2>2. m * (k + 1) = m * k + m
    BY <2>1
  <2> QED
    BY <2>1, <2>2, ProductType
<1>9. ~(SumFunctionOnSet(f, s) <= m * Cardinality(s))
  BY <1>1
<1> HIDE DEF B, k
<1> QED
  BY <1>5, <1>7, <1>8, <1>9

(* A finite set of numbers has a greatest one: induction on finite sets.   *)
LEMMA GreatestNumber ==
  ASSUME NEW S \in SUBSET Nat, IsFiniteSet(S), S # {}
  PROVE  \E n \in S : \A m \in S : m <= n
<1> DEFINE Has(s) == \E n \in s : \A m \in s : m <= n
           B == {s \in SUBSET S : s # {} /\ ~Has(s)}
<1> SUFFICES ASSUME ~Has(S) PROVE FALSE
  OBVIOUS
<1>1. B # {} /\ B \in SUBSET (SUBSET S)
  OBVIOUS
<1>2. PICK s \in B : \A x \in s : s \ {x} \notin B
  <2> HIDE DEF B
  <2> QED
    BY <1>1, LeastSet
<1>3. PICK x \in s : TRUE
  OBVIOUS
<1>4. CASE s \ {x} = {}
  <2>1. \A m \in s : m = x
    BY <1>4
  <2>2. x \in Nat
    OBVIOUS
  <2> QED
    BY <2>1, <2>2, <1>2
<1>5. CASE s \ {x} # {}
  <2>1. PICK n \in s \ {x} : \A m \in s \ {x} : m <= n
    BY <1>2, <1>5
  <2>2. x \in Nat /\ n \in Nat /\ s \subseteq Nat
    OBVIOUS
  <2>3. CASE x <= n
    <3>1. \A m \in s : m <= n
      BY <2>1, <2>3
    <3> QED
      BY <1>2, <3>1
  <2>4. CASE n <= x
    <3>1. \A m \in s : m <= x
      BY <2>1, <2>2, <2>4
    <3> QED
      BY <1>2, <3>1
  <2> QED
    BY <2>2, <2>3, <2>4
<1> QED
  BY <1>4, <1>5
=============================================================================

----------------------------- MODULE Induction -----------------------------
(***************************************************************************)
(* Induction over an interval of numbers, stated with sets in the place of *)
(* predicates, and functions defined by recursion over an interval: the    *)
(* walks along a path of Tree and Mount are such functions.                *)
(***************************************************************************)
EXTENDS Integers, FiniteSetTheorems, WellFoundedInduction, TLAPS

\* A set of numbers up to N has a least element: of the intervals that end in
\* its elements, the smallest ends in it.
LEMMA LeastBelow ==
    ASSUME NEW N \in Nat, NEW S \in SUBSET (0 .. N), S # {}
    PROVE  \E m \in S : \A n \in S : m <= n
<1> DEFINE T == {0 .. n : n \in S}
<1>1. IsFiniteSet(0 .. N)
  BY FS_Interval
<1>2. IsWellFoundedOn(StrictSubsetOrdering(0 .. N), SUBSET (0 .. N))
  BY <1>1, FS_StrictSubsetOrderingWellFounded, FS_FiniteSubsetsOfFinite
<1>3. T \subseteq SUBSET (0 .. N) /\ T # {}
  <2>1. \A n \in S : 0 .. n \in SUBSET (0 .. N)
    OBVIOUS
  <2>2. QED
    BY <2>1
<1>4. PICK x \in T : \A y \in T : <<y, x>> \notin StrictSubsetOrdering(0 .. N)
  <2> HIDE DEF T
  <2>1. QED
    BY <1>2, <1>3, WFMin
<1>5. PICK m \in S : x = 0 .. m
  BY <1>4
<1>6. ASSUME NEW n \in S, n < m
      PROVE  FALSE
  <2>1. 0 .. n \in T /\ 0 .. n \in SUBSET (0 .. N) /\ 0 .. m \in SUBSET (0 .. N)
    OBVIOUS
  <2>2. 0 .. n \subseteq 0 .. m /\ m \in 0 .. m /\ m \notin 0 .. n
    BY <1>6
  <2>3. <<0 .. n, 0 .. m>> \in StrictSubsetOrdering(0 .. N)
    BY <2>1, <2>2 DEF StrictSubsetOrdering
  <2>4. QED
    BY <1>4, <1>5, <2>1, <2>3
<1>7. QED
  BY <1>6

\* Every set of natural numbers that is not empty has a least element.
THEOREM LeastElement ==
    ASSUME NEW S \in SUBSET Nat, S # {}
    PROVE  \E m \in S : \A n \in S : m <= n
<1>1. PICK N \in S : TRUE
  OBVIOUS
<1> DEFINE B == S \cap (0 .. N)
<1>2. N \in Nat /\ B \in SUBSET (0 .. N) /\ B # {}
  BY <1>1
<1>3. PICK m \in B : \A n \in B : m <= n
  <2> HIDE DEF B
  <2>1. QED
    BY <1>2, LeastBelow
<1>4. \A n \in S : m <= n
  BY <1>2, <1>3
<1>5. QED
  BY <1>3, <1>4

\* Induction over 0 .. N.
THEOREM IntervalInduction ==
    ASSUME NEW N \in Nat, NEW S, 0 \in S,
           \A n \in 0 .. N : n < N /\ n \in S => n + 1 \in S
    PROVE  \A n \in 0 .. N : n \in S
<1> DEFINE Bad == {n \in 0 .. N : n \notin S}
<1> SUFFICES ASSUME Bad # {}
             PROVE  FALSE
  OBVIOUS
<1>1. PICK m \in Bad : \A n \in Bad : m <= n
  <2>1. Bad \in SUBSET (0 .. N)
    OBVIOUS
  <2> HIDE DEF Bad
  <2>2. QED
    BY <2>1, LeastBelow
<1>2. m # 0 /\ m - 1 \in 0 .. N /\ m - 1 < N
  BY <1>1
<1>3. m - 1 \in S
  BY <1>1, <1>2
<1>4. m - 1 + 1 \in S
  BY <1>2, <1>3
<1>5. QED
  BY <1>1, <1>4

\* The values of a function that begins with first and goes on with step.
Recursive(f, N, first, step) ==
    f[0] = first /\ \A n \in 1 .. N : f[n] = step[n][f[n - 1]]

\* Recursion over 0 .. N: for a first value and a step there is the function
\* of all values.
THEOREM IntervalRecursion ==
    ASSUME NEW N \in Nat, NEW V, NEW first \in V, NEW step \in [1 .. N -> [V -> V]]
    PROVE  \E f \in [0 .. N -> V] : Recursive(f, N, first, step)
<1> DEFINE Upto(m, f) == Recursive(f, m, first, step)
<1> DEFINE S == {m \in 0 .. N : \E f \in [0 .. m -> V] : Upto(m, f)}
<1>1. 0 \in S
  <2>1. [n \in 0 .. 0 |-> first] \in [0 .. 0 -> V]
    OBVIOUS
  <2>2. Upto(0, [n \in 0 .. 0 |-> first])
    BY DEF Recursive
  <2> HIDE DEF Upto
  <2>3. \E f \in [0 .. 0 -> V] : Upto(0, f)
    BY <2>1, <2>2
  <2>4. QED
    BY <2>3
<1>2. ASSUME NEW m \in 0 .. N, m < N, m \in S
      PROVE  m + 1 \in S
  <2>1. PICK f \in [0 .. m -> V] : Upto(m, f)
    BY <1>2
  <2> DEFINE g == [n \in 0 .. m + 1 |-> IF n = m + 1 THEN step[m + 1][f[m]] ELSE f[n]]
  <2>2. m + 1 \in 1 .. N /\ f[m] \in V
    BY <1>2
  <2>3. step[m + 1][f[m]] \in V
    BY <2>2
  <2>4. g \in [0 .. m + 1 -> V]
    BY <2>3
  <2>5. g[0] = first
    BY <2>1 DEF Recursive
  <2>6. ASSUME NEW n \in 1 .. m + 1
        PROVE  g[n] = step[n][g[n - 1]]
    <3>1. CASE n = m + 1
      <4>1. n - 1 = m /\ g[m] = f[m]
        BY <3>1
      <4>2. QED
        BY <3>1, <4>1
    <3>2. CASE n # m + 1
      <4>1. n \in 1 .. m /\ n - 1 \in 0 .. m
        BY <3>2
      <4>2. g[n] = f[n] /\ g[n - 1] = f[n - 1]
        BY <4>1
      <4>3. QED
        BY <2>1, <4>1, <4>2 DEF Recursive
    <3>3. QED
      BY <3>1, <3>2
  <2>7. Upto(m + 1, g)
    BY <2>5, <2>6 DEF Recursive
  <2> HIDE DEF Upto, g
  <2>8. \E h \in [0 .. m + 1 -> V] : Upto(m + 1, h)
    BY <2>4, <2>7
  <2>9. m + 1 \in 0 .. N
    BY <2>2
  <2>10. QED
    BY <2>8, <2>9
<1>3. \A m \in 0 .. N : m \in S
  <2> HIDE DEF S
  <2>1. QED
    BY <1>1, <1>2, IntervalInduction
<1>4. \E f \in [0 .. N -> V] : Upto(N, f)
  <2> HIDE DEF Upto
  <2>1. N \in S
    BY <1>3
  <2>2. QED
    BY <2>1
<1>5. QED
  BY <1>4
=============================================================================

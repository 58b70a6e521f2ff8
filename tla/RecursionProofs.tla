-------------------------- MODULE RecursionProofs --------------------------
(***************************************************************************)
(* Functions defined by recursion over a sequence: there is one, and only  *)
(* one, because there is no least place from which on there is none or     *)
(* there are two.  The step is a function, of the place and of the value   *)
(* so far, so that the theorems can be instantiated.                       *)
(***************************************************************************)
EXTENDS Integers, Sequences, FiniteSetTheorems, TLAPS

\* A set of naturals has a least member.
LEMMA LeastNatural ==
    ASSUME NEW S, S \subseteq Nat, S # {}
    PROVE  \E n \in S : \A m \in S : n <= m
<1> DEFINE Below == {0 .. n : n \in S}
           R == StrictSubsetOrdering(Nat)
<1>1. Below \subseteq FiniteSubsetsOf(Nat) /\ Below # {}
  <2>1. \A n \in Nat : IsFiniteSet(0 .. n) /\ 0 .. n \subseteq Nat
    BY FS_Interval
  <2> QED
    BY <2>1 DEF FiniteSubsetsOf
<1>2. IsWellFoundedOn(R, FiniteSubsetsOf(Nat))
  BY FS_StrictSubsetOrderingWellFounded
<1>3. PICK B \in Below : \A D \in Below : <<D, B>> \notin R
  <2> HIDE DEF Below, R
  <2> QED
    BY <1>1, <1>2, WFMin
<1>4. PICK n \in S : B = 0 .. n
  OBVIOUS
<1>5. ASSUME NEW m \in S, ~(n <= m) PROVE FALSE
  <2>1. m \in Nat /\ n \in Nat /\ m < n
    BY <1>5
  <2>2. 0 .. m \subseteq 0 .. n /\ n \in 0 .. n /\ n \notin 0 .. m
    BY <2>1
  <2>3. <<0 .. m, B>> \in R
    BY <1>4, <2>1, <2>2 DEF StrictSubsetOrdering
  <2> QED
    BY <1>3, <2>3
<1> QED
  BY <1>5

\* What holds of 0 and is handed on from each number to the next holds up to n.
LEMMA InductionUpTo ==
    ASSUME NEW n \in Nat, NEW S, 0 \in S, \A i \in 1 .. n : i - 1 \in S => i \in S
    PROVE  \A i \in 0 .. n : i \in S
<1> DEFINE Missing == {i \in 0 .. n : i \notin S}
<1>1. ASSUME Missing # {} PROVE FALSE
  <2>1. PICK k \in Missing : \A j \in Missing : k <= j
    <3>1. Missing \subseteq Nat
      OBVIOUS
    <3> HIDE DEF Missing
    <3> QED
      BY <1>1, <3>1, LeastNatural
  <2>2. k \in 1 .. n /\ k - 1 \in 0 .. n
    OBVIOUS
  <2>3. k - 1 \notin Missing
    <3> HIDE DEF Missing
    <3> QED
      BY <2>1, <2>2
  <2> QED
    BY <2>1, <2>2, <2>3
<1> QED
  BY <1>1

\* f is what the recursion makes of the first n places.
Recursive(f, n, base, step) ==
    f = [i \in 0 .. n |-> IF i = 0 THEN base ELSE step[i][f[i - 1]]]

\* Whatever the step, the recursion has a solution.
LEMMA RecursionExists ==
    ASSUME NEW n \in Nat, NEW V, NEW base \in V, NEW step \in [1 .. n -> [V -> V]]
    PROVE  \E f \in [0 .. n -> V] : Recursive(f, n, base, step)
<1> DEFINE Solves(f, k) == f[0] = base /\ \A i \in 1 .. k : f[i] = step[i][f[i - 1]]
           Open == {k \in 0 .. n : ~ \E f \in [0 .. k -> V] : Solves(f, k)}
<1>1. ASSUME Open # {} PROVE FALSE
  <2>1. PICK k \in Open : \A m \in Open : k <= m
    <3>1. Open \subseteq Nat
      OBVIOUS
    <3> HIDE DEF Open
    <3> QED
      BY <1>1, <3>1, LeastNatural
  <2>2. k \in 0 .. n /\ k \in Nat
    OBVIOUS
  <2>3. k # 0
    <3>1. [i \in 0 .. 0 |-> base] \in [0 .. 0 -> V]
      OBVIOUS
    <3>2. Solves([i \in 0 .. 0 |-> base], 0)
      OBVIOUS
    <3> QED
      BY <3>1, <3>2
  <2>4. k - 1 \in 0 .. n /\ k - 1 \notin Open
    <3> HIDE DEF Open
    <3> QED
      BY <2>1, <2>2, <2>3
  <2>5. PICK f \in [0 .. k - 1 -> V] : Solves(f, k - 1)
    BY <2>4
  <2> DEFINE g == [i \in 0 .. k |-> IF i < k THEN f[i] ELSE step[k][f[k - 1]]]
  <2>6. f[k - 1] \in V /\ step[k] \in [V -> V]
    BY <2>2, <2>3
  <2>7. g \in [0 .. k -> V]
    BY <2>2, <2>3, <2>6
  <2>8. Solves(g, k)
    BY <2>2, <2>3, <2>5
  <2> QED
    BY <2>7, <2>8
<1>2. n \in 0 .. n
  OBVIOUS
<1>3. PICK f \in [0 .. n -> V] : Solves(f, n)
  BY <1>1, <1>2
<1>4. Recursive(f, n, base, step)
  <2>1. f = [i \in 0 .. n |-> f[i]]
    OBVIOUS
  <2>2. \A i \in 0 .. n : f[i] = IF i = 0 THEN base ELSE step[i][f[i - 1]]
    BY <1>3
  <2> QED
    BY <2>1, <2>2 DEF Recursive
<1> QED
  BY <1>4

\* Two solutions agree as far as their steps do.
LEMMA RecursionUnique ==
    ASSUME NEW n \in Nat, NEW m \in Nat, n <= m, NEW base, NEW step, NEW step2,
           NEW f, NEW g, Recursive(f, n, base, step), Recursive(g, m, base, step2),
           \A i \in 1 .. n : step[i] = step2[i]
    PROVE  \A i \in 0 .. n : f[i] = g[i]
<1> DEFINE Differ == {i \in 0 .. n : f[i] # g[i]}
<1>1. ASSUME Differ # {} PROVE FALSE
  <2>1. PICK k \in Differ : \A j \in Differ : k <= j
    <3>1. Differ \subseteq Nat
      OBVIOUS
    <3> HIDE DEF Differ
    <3> QED
      BY <1>1, <3>1, LeastNatural
  <2>2. k \in 0 .. n /\ k \in 0 .. m
    OBVIOUS
  <2>3. k # 0
    BY DEF Recursive
  <2>4. f[k - 1] = g[k - 1]
    <3>1. k - 1 \in 0 .. n /\ k - 1 \notin Differ
      <4> HIDE DEF Differ
      <4> QED
        BY <2>1, <2>2, <2>3
    <3> QED
      BY <3>1
  <2>5. f[k] = step[k][f[k - 1]] /\ g[k] = step2[k][g[k - 1]]
    BY <2>2, <2>3 DEF Recursive
  <2> QED
    BY <2>1, <2>2, <2>3, <2>4, <2>5
<1> QED
  BY <1>1
=============================================================================

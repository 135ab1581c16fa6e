----------------------------- MODULE Recursion -----------------------------
(***************************************************************************)
(* What the proofs about recursive functions rest on: such a function      *)
(* exists, and what holds of its first value and of each after the one     *)
(* before it holds of all.                                                 *)
(***************************************************************************)
EXTENDS Integers, FiniteSetTheorems, TLAPS

-----------------------------------------------------------------------------
(* A set of numbers that is not empty has a least one.                     *)
LEMMA Least ==
    ASSUME NEW S \in SUBSET Nat, S # {}
    PROVE  \E n \in S : \A m \in S : n <= m
  <1> DEFINE R == StrictSubsetOrdering(Nat)
             F == FiniteSubsetsOf(Nat)
             T == {0 .. n : n \in S}
  <1>1. IsWellFoundedOn(R, F)
    BY FS_StrictSubsetOrderingWellFounded
  <1>2. T \subseteq F
    <2>1. \A n \in S : IsFiniteSet(0 .. n) /\ 0 .. n \in SUBSET Nat
      BY FS_Interval
    <2> QED
      BY <2>1 DEF FiniteSubsetsOf
  <1>3. T # {}
    OBVIOUS
  <1>4. PICK U \in T : \A W \in T : ~(<<W, U>> \in R)
    <2> HIDE DEF R, F, T
    <2> QED
      BY <1>1, <1>2, <1>3, WFMin
  <1>5. PICK n \in S : U = 0 .. n
    OBVIOUS
  <1>6. ASSUME NEW m \in S, ~(n <= m)
        PROVE  FALSE
    <2>1. 0 .. m \in T
      OBVIOUS
    <2>2. 0 .. m \subseteq 0 .. n /\ n \in 0 .. n /\ n \notin 0 .. m
      BY <1>6
    <2>3. <<0 .. m, 0 .. n>> \in R
      BY <2>2, 0 .. m \in SUBSET Nat, 0 .. n \in SUBSET Nat DEF StrictSubsetOrdering
    <2> QED
      BY <2>1, <2>3, <1>4, <1>5
  <1> QED
    BY <1>6

(* Induction up to a bound, for a set in place of a predicate.             *)
LEMMA Induct ==
    ASSUME NEW S, NEW N \in Nat, 0 \in S,
           \A n \in 0 .. N : n < N /\ n \in S => n + 1 \in S
    PROVE  \A n \in 0 .. N : n \in S
  <1> DEFINE C == {n \in 0 .. N : n \notin S}
  <1> SUFFICES ASSUME C # {} PROVE FALSE
    OBVIOUS
  <1>1. PICK n \in C : \A m \in C : n <= m
    <2>1. C \in SUBSET Nat
      OBVIOUS
    <2> HIDE DEF C
    <2> QED
      BY <2>1, Least
  <1>2. n # 0 /\ n - 1 \in 0 .. N /\ n - 1 < N /\ n - 1 + 1 = n
    OBVIOUS
  <1>3. n - 1 \in S
    BY <1>1, <1>2
  <1> QED
    BY <1>2, <1>3

(* g starts at base and goes from each value to the next as step says.     *)
Iterates(g, N, base, step) ==
    g[0] = base /\ \A n \in 1 .. N : g[n] = step[n][g[n - 1]]

(* What a definition by recursion over 0 .. N needs: such a g exists.      *)
LEMMA Iteration ==
    ASSUME NEW V, NEW base \in V, NEW N \in Nat, NEW step \in [1 .. N -> [V -> V]]
    PROVE  \E g \in [0 .. N -> V] : Iterates(g, N, base, step)
  <1> DEFINE S == {m \in 0 .. N : \E g \in [0 .. m -> V] : Iterates(g, m, base, step)}
  <1>1. 0 \in S
    <2> DEFINE z == [k \in 0 .. 0 |-> base]
    <2>1. z \in [0 .. 0 -> V] /\ Iterates(z, 0, base, step)
      BY DEF Iterates
    <2>2. \E g \in [0 .. 0 -> V] : Iterates(g, 0, base, step)
      <3> HIDE DEF z
      <3> QED
        BY <2>1
    <2> QED
      BY <2>2
  <1>2. ASSUME NEW m \in 0 .. N, m < N, m \in S
        PROVE  m + 1 \in S
    <2>1. PICK g \in [0 .. m -> V] : Iterates(g, m, base, step)
      BY <1>2
    <2> DEFINE h == [k \in 0 .. m + 1 |-> IF k <= m THEN g[k] ELSE step[m + 1][g[m]]]
    <2>2. h \in [0 .. m + 1 -> V] /\ h[0] = base
      BY <1>2, <2>1 DEF Iterates
    <2>3. \A n \in 1 .. m + 1 : h[n] = step[n][h[n - 1]]
      <3> TAKE n \in 1 .. m + 1
      <3>1. CASE n <= m
        <4>1. n \in 1 .. m /\ n - 1 \in 0 .. m
          BY <1>2, <3>1
        <4>2. h[n] = g[n] /\ h[n - 1] = g[n - 1]
          BY <1>2, <4>1
        <4> QED
          BY <2>1, <4>1, <4>2 DEF Iterates
      <3>2. CASE n = m + 1
        <4>1. n - 1 = m
          BY <3>2
        <4>2. h[n] = step[m + 1][g[m]] /\ h[n - 1] = g[m]
          BY <3>2, <4>1
        <4> QED
          BY <3>2, <4>2
      <3> QED
        BY <3>1, <3>2
    <2>4. Iterates(h, m + 1, base, step)
      <3> HIDE DEF h
      <3> QED
        BY <2>2, <2>3 DEF Iterates
    <2>5. \E f \in [0 .. m + 1 -> V] : Iterates(f, m + 1, base, step)
      <3> HIDE DEF h
      <3> QED
        BY <2>2, <2>4
    <2> QED
      BY <1>2, <2>5
  <1>3. \A m \in 0 .. N : m \in S
    <2> HIDE DEF S
    <2> QED
      BY <1>1, <1>2, Induct
  <1> QED
    BY <1>3

=============================================================================

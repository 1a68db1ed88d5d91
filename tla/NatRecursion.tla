---------------------------- MODULE NatRecursion ----------------------------
(***************************************************************************)
(* Induction and definition by recursion on the natural numbers, for sets, *)
(* from the well-foundedness of <: what the proofs about recursive         *)
(* functions (the chain walks, the doublings and moves of the name table)  *)
(* rest on.                                                                *)
(***************************************************************************)
EXTENDS Integers, WellFoundedInduction, NaturalsInduction, TLAPS

\* A set of natural numbers has a least member.
LEMMA LeastNat ==
  ASSUME NEW T \in SUBSET Nat, T # {}
  PROVE  \E m \in T : \A k \in T : m <= k
  <1> DEFINE R == OpToRel(<, Nat)
  <1>1. IsWellFoundedOn(R, Nat)
    BY NatLessThanWellFounded
  <1>2. \A x, y \in Nat : <<y, x>> \in R <=> y < x
    BY DEF OpToRel
  <1> HIDE DEF R
  <1>3. PICK x \in T : \A y \in T : ~(<<y, x>> \in R)
    BY <1>1, WFMin
  <1>4. ASSUME NEW y \in T PROVE x <= y
    <2>1. x \in Nat /\ y \in Nat
      OBVIOUS
    <2>2. ~(y < x)
      BY <1>2, <1>3, <2>1, Zenon
    <2> QED
      BY <2>1, <2>2
  <1> QED
    BY <1>3, <1>4

\* Induction over the natural numbers, for the members of a set.
LEMMA SetInduction ==
  ASSUME NEW T, 0 \in T, \A k \in Nat : k \in T => k + 1 \in T
  PROVE  Nat \subseteq T
  <1> SUFFICES ASSUME Nat \ T # {} PROVE FALSE
    OBVIOUS
  <1>1. PICK m \in Nat \ T : \A k \in Nat \ T : m <= k
    BY LeastNat
  <1>2. m # 0 /\ m - 1 \in Nat
    BY <1>1
  <1>3. m - 1 \in T
    BY <1>1, <1>2
  <1> QED
    BY <1>1, <1>2, <1>3

\* There is a sequence of iterates of any map of a set to itself.
LEMMA Iterate ==
  ASSUME NEW S, NEW a \in S, NEW g \in [S -> S]
  PROVE  \E f \in [Nat -> S] : f[0] = a /\ \A k \in Nat : f[k + 1] = g[f[k]]
  <1> DEFINE Good(k, w) == w \in [0 .. k -> S] /\ w[0] = a /\ \A i \in 0 .. (k - 1) : w[i + 1] = g[w[i]]
             T == {k \in Nat : \E w \in [0 .. k -> S] : Good(k, w)}
  <1>1. 0 \in T
    <2>1. Good(0, [i \in 0 .. 0 |-> a])
      OBVIOUS
    <2> QED
      BY <2>1
  <1>2. ASSUME NEW k \in Nat, k \in T PROVE k + 1 \in T
    <2>1. PICK w \in [0 .. k -> S] : Good(k, w)
      BY <1>2
    <2> DEFINE v == [i \in 0 .. (k + 1) |-> IF i <= k THEN w[i] ELSE g[w[k]]]
    <2>2. v \in [0 .. (k + 1) -> S]
      BY <2>1
    <2>3. v[0] = a /\ \A i \in 0 .. k : v[i + 1] = g[v[i]]
      BY <2>1
    <2>4. Good(k + 1, v)
      <3> HIDE DEF v
      <3>1. (k + 1) - 1 = k
        OBVIOUS
      <3> QED
        BY <2>2, <2>3, <3>1
    <2> QED
      BY <2>2, <2>4
  <1>3. Nat \subseteq T
    <2> HIDE DEF T
    <2> QED
      BY <1>1, <1>2, SetInduction
  <1>4. ASSUME NEW k \in Nat, NEW l \in Nat, NEW u, NEW w, Good(k, u), Good(l, w), k <= l
        PROVE  \A i \in 0 .. k : u[i] = w[i]
    <2> DEFINE U == {i \in Nat : i <= k => u[i] = w[i]}
    <2>1. 0 \in U
      BY <1>4
    <2>2. ASSUME NEW i \in Nat, i \in U PROVE i + 1 \in U
      <3>1. CASE i + 1 <= k
        BY <1>4, <2>2, <3>1
      <3>2. CASE ~(i + 1 <= k)
        BY <3>2
      <3> QED
        BY <3>1, <3>2
    <2>3. Nat \subseteq U
      <3> HIDE DEF U
      <3> QED
        BY <2>1, <2>2, SetInduction
    <2> QED
      BY <2>3
  <1> DEFINE W(k) == CHOOSE w : Good(k, w)
             f == [k \in Nat |-> W(k)[k]]
  <1>5. \A k \in Nat : Good(k, W(k))
    BY <1>3
  <1> HIDE DEF W
  <1>6. f \in [Nat -> S]
    <2>1. \A k \in Nat : W(k)[k] \in S
      BY <1>5
    <2> QED
      BY <2>1
  <1>7. f[0] = a
    BY <1>5
  <1>8. ASSUME NEW k \in Nat PROVE f[k + 1] = g[f[k]]
    <2>1. Good(k, W(k)) /\ Good(k + 1, W(k + 1))
      BY <1>5
    <2>2. W(k + 1)[k + 1] = g[W(k + 1)[k]]
      BY <2>1
    <2>3. W(k + 1)[k] = W(k)[k]
      BY <1>4, <2>1
    <2> QED
      BY <2>2, <2>3
  <1> QED
    BY <1>6, <1>7, <1>8

\* A sequence of N steps from a, step k by the map g[k].
HasSteps(S, a, N, g) ==
  \E f \in [0 .. N -> S] : f[0] = a /\ \A k \in 0 .. N - 1 : f[k + 1] = g[k][f[k]]

\* There is a sequence of N steps of any maps of a set to itself, one for each step.
LEMMA IterateSteps ==
  ASSUME NEW S, NEW a \in S, NEW N \in Nat, NEW g \in [Nat -> [S -> S]]
  PROVE  HasSteps(S, a, N, g)
  <1> DEFINE Good(k, w) == w \in [0 .. k -> S] /\ w[0] = a /\ \A i \in 0 .. k - 1 : w[i + 1] = g[i][w[i]]
             T == {k \in Nat : \E w \in [0 .. k -> S] : Good(k, w)}
  <1>1. 0 \in T
    <2>1. Good(0, [i \in 0 .. 0 |-> a])
      OBVIOUS
    <2> QED
      BY <2>1
  <1>2. ASSUME NEW k \in Nat, k \in T PROVE k + 1 \in T
    <2>1. PICK w \in [0 .. k -> S] : Good(k, w)
      BY <1>2
    <2> DEFINE v == [i \in 0 .. (k + 1) |-> IF i <= k THEN w[i] ELSE g[k][w[k]]]
    <2>2. v \in [0 .. (k + 1) -> S]
      BY <2>1
    <2>a. \A i \in 0 .. k : v[i] = w[i]
      OBVIOUS
    <2>b. \A i \in 0 .. k - 1 : v[i + 1] = w[i + 1]
      OBVIOUS
    <2>c. v[k + 1] = g[k][w[k]]
      OBVIOUS
    <2>d. w[0] = a /\ \A i \in 0 .. k - 1 : w[i + 1] = g[i][w[i]]
      BY <2>1
    <2>3. v[0] = a /\ \A i \in 0 .. k : v[i + 1] = g[i][v[i]]
      <3> HIDE DEF v
      <3>1. v[0] = a
        BY <2>a, <2>d
      <3>2. ASSUME NEW i \in 0 .. k PROVE v[i + 1] = g[i][v[i]]
        <4>1. CASE i = k
          BY <4>1, <2>a, <2>c
        <4>2. CASE i # k
          <5>1. i \in 0 .. k - 1
            BY <4>2
          <5>2. v[i] = w[i] /\ v[i + 1] = w[i + 1] /\ w[i + 1] = g[i][w[i]]
            BY <5>1, <2>a, <2>b, <2>d
          <5> QED
            BY <5>2
        <4> QED
          BY <4>1, <4>2
      <3> QED
        BY <3>1, <3>2
    <2>4. Good(k + 1, v)
      <3> HIDE DEF v
      <3>1. (k + 1) - 1 = k
        OBVIOUS
      <3> QED
        BY <2>2, <2>3, <3>1
    <2>5. k + 1 \in Nat
      OBVIOUS
    <2> HIDE DEF v, Good
    <2> QED
      BY <2>2, <2>4, <2>5
  <1>3. N \in T
    <2> HIDE DEF T
    <2>1. Nat \subseteq T
      BY <1>1, <1>2, SetInduction
    <2> QED
      BY <2>1
  <1> QED
    BY <1>3 DEF HasSteps
=============================================================================

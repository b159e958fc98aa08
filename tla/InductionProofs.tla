--------------------------- MODULE InductionProofs ---------------------------
(***************************************************************************)
(* Induction for the sets of what something holds of (the induction of the *)
(* library takes an operator, which no prover here can instantiate), and   *)
(* what a loop computes.  No part of the service: the other proofs use it. *)
(***************************************************************************)
EXTENDS Integers, FiniteSets, TLAPS, WellFoundedInduction, FiniteSetTheorems

(* A set of numbers has a least element, and one below a bound a greatest. *)
LEMMA LeastOf ==
  ASSUME NEW S \in SUBSET Nat, S # {}
  PROVE  \E s \in S : \A c \in S : s <= c
<1>1. PICK s \in S : \A x \in S : ~(<<x, s>> \in OpToRel(<, Nat))
  BY NatLessThanWellFounded, WFMin
<1>2. \A x \in S : ~(x < s)
  BY <1>1 DEF OpToRel
<1> QED BY <1>2

LEMMA GreatestBelow ==
  ASSUME NEW n \in Nat, NEW T, T \subseteq 1..n, T # {}
  PROVE  \E i \in T : \A j \in T : j <= i
<1> DEFINE D == {n - i : i \in T}
<1>1. D \subseteq Nat
  OBVIOUS
<1>2. D # {}
  OBVIOUS
<1>3. PICK x \in D : \A y \in D : ~(<<y, x>> \in OpToRel(<, Nat))
  <2> HIDE DEF D
  <2> QED BY <1>1, <1>2, NatLessThanWellFounded, WFMin
<1>4. PICK i \in T : x = n - i
  OBVIOUS
<1>5. ASSUME NEW j \in T PROVE j <= i
  <2>1. n - j \in D
    OBVIOUS
  <2>2. ~(n - j < x)
    BY <1>1, <1>3, <2>1 DEF OpToRel
  <2> QED BY <1>4, <2>2
<1> QED BY <1>5

-----------------------------------------------------------------------------
(* Over the numbers, and over the subsets of a finite set.                 *)
LEMMA NumberInduction ==
  ASSUME NEW G, 0 \in G, \A n \in Nat : n \in G => n + 1 \in G
  PROVE  \A n \in Nat : n \in G
<1> SUFFICES ASSUME NEW k \in Nat, k \notin G
             PROVE  FALSE
  OBVIOUS
<1> DEFINE B == {n \in Nat : n \notin G}
<1>1. PICK n \in B : \A m \in B : ~(<<m, n>> \in OpToRel(<, Nat))
  <2>1. B \subseteq Nat /\ B # {}
    OBVIOUS
  <2> HIDE DEF B
  <2> QED BY <2>1, NatLessThanWellFounded, WFMin
<1>2. \A m \in B : ~(m < n)
  BY <1>1 DEF OpToRel
<1>3. n \in Nat /\ n \notin G /\ n # 0
  OBVIOUS
<1>4. n - 1 \in Nat /\ n - 1 < n /\ (n - 1) + 1 = n
  BY <1>3
<1>5. n - 1 \in G
  BY <1>2, <1>4
<1> QED BY <1>3, <1>4, <1>5

LEMMA SubsetInduction ==
  ASSUME NEW S, IsFiniteSet(S), NEW G,
         \A U \in SUBSET S : (\A x \in U : U \ {x} \in G) => U \in G
  PROVE  \A U \in SUBSET S : U \in G
<1> DEFINE N == {n \in Nat : \A U \in SUBSET S : Cardinality(U) = n => U \in G}
<1>1. \A U \in SUBSET S : IsFiniteSet(U) /\ Cardinality(U) \in Nat
  BY FS_Subset, FS_CardinalityType
<1>2. 0 \in N
  <2>1. ASSUME NEW U \in SUBSET S, Cardinality(U) = 0 PROVE U \in G
    <3>1. U = {}
      BY <1>1, <2>1, FS_EmptySet
    <3> QED BY <3>1
  <2> QED BY <2>1
<1>3. ASSUME NEW n \in Nat, n \in N PROVE n + 1 \in N
  <2>1. ASSUME NEW U \in SUBSET S, Cardinality(U) = n + 1 PROVE U \in G
    <3>1. ASSUME NEW x \in U PROVE U \ {x} \in G
      <4>1. Cardinality(U \ {x}) = (n + 1) - 1
        BY <1>1, <2>1, FS_RemoveElement
      <4>2. Cardinality(U \ {x}) = n /\ U \ {x} \in SUBSET S
        BY <4>1
      <4> QED BY <1>3, <4>2
    <3> QED BY <3>1
  <2> QED BY <2>1
<1>4. \A n \in Nat : n \in N
  <2> HIDE DEF N
  <2> QED BY <1>2, <1>3, NumberInduction
<1> QED BY <1>1, <1>4

-----------------------------------------------------------------------------
(* Loops.  A recursive function is the CHOOSE of what satisfies its        *)
(* equations, so that first something must.                                *)

(* A loop over 1..n that starts from base and turns r into F[<<i, r>>].    *)
Unfolds(g, n, base, F) == g = [i \in 0..n |-> IF i = 0 THEN base ELSE F[<<i, g[i - 1]>>]]

LEMMA UnfoldExists ==
  ASSUME NEW R, NEW base \in R, NEW n \in Nat, NEW F \in [(1..n) \X R -> R]
  PROVE  \E g \in [0..n -> R] : Unfolds(g, n, base, F)
<1> DEFINE G == {m \in Nat : m <= n => \E g \in [0..m -> R] : Unfolds(g, m, base, F)}
<1>1. 0 \in G
  <2> DEFINE g == [i \in 0..0 |-> base]
  <2>1. g \in [0..0 -> R] /\ Unfolds(g, 0, base, F)
    BY DEF Unfolds
  <2> QED BY <2>1
<1>2. ASSUME NEW m \in Nat, m \in G PROVE m + 1 \in G
  <2> SUFFICES ASSUME m + 1 <= n
               PROVE  \E g \in [0..(m + 1) -> R] : Unfolds(g, m + 1, base, F)
    OBVIOUS
  <2>1. PICK g \in [0..m -> R] : Unfolds(g, m, base, F)
    BY <1>2
  <2> DEFINE next == F[<<m + 1, g[m]>>]
             h == [i \in 0..(m + 1) |-> IF i = m + 1 THEN next ELSE g[i]]
  <2>2. next \in R
    <3>1. g[m] \in R /\ m + 1 \in 1..n
      OBVIOUS
    <3>2. <<m + 1, g[m]>> \in (1..n) \X R
      BY <3>1
    <3> QED BY <3>2
  <2>3. h \in [0..(m + 1) -> R]
    <3> HIDE DEF next
    <3> QED BY <2>2
  <2>4. ASSUME NEW i \in 0..(m + 1) PROVE h[i] = IF i = 0 THEN base ELSE F[<<i, h[i - 1]>>]
    <3>1. CASE i = m + 1
      <4>1. h[i] = next /\ h[i - 1] = g[m] /\ i # 0
        <5> HIDE DEF next
        <5> QED BY <3>1
      <4> HIDE DEF h
      <4> QED BY <3>1, <4>1
    <3>2. CASE i # m + 1
      <4>1. i \in 0..m /\ (i # 0 => i - 1 \in 0..m)
        BY <3>2
      <4>2. h[i] = g[i] /\ (i # 0 => h[i - 1] = g[i - 1])
        BY <3>2, <4>1
      <4>3. g[i] = IF i = 0 THEN base ELSE F[<<i, g[i - 1]>>]
        BY <2>1, <4>1 DEF Unfolds
      <4> HIDE DEF h
      <4> QED BY <4>2, <4>3
    <3> QED BY <3>1, <3>2
  <2>5. h = [i \in 0..(m + 1) |-> h[i]]
    OBVIOUS
  <2> HIDE DEF h
  <2>6. Unfolds(h, m + 1, base, F)
    BY <2>4, <2>5 DEF Unfolds
  <2> QED BY <2>3, <2>6
<1>3. \A m \in Nat : m \in G
  <2> HIDE DEF G
  <2> QED BY <1>1, <1>2, NumberInduction
<1> QED BY <1>3
=============================================================================

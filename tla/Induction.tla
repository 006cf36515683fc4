------------------------------ MODULE Induction ------------------------------
(***************************************************************************)
(* Induction over the natural numbers and recursion over an interval,      *)
(* stated with sets and functions in the place of operators, so that a     *)
(* proof can instantiate them: the property is the set of the numbers that *)
(* have it, the rule of the recursion a function.                          *)
(***************************************************************************)
EXTENDS Integers, TLAPS, WellFoundedInduction

(* The order of the natural numbers, as a set of pairs. *)
LessThan == {pair \in Nat \X Nat : pair[1] < pair[2]}

(* There is no endless descent in it. *)
LEMMA LessThanWellFounded == IsWellFoundedOn(LessThan, Nat)
  BY NatLessThanWellFounded DEF OpToRel, LessThan

(* A set of natural numbers that is not empty has a least element. *)
LEMMA LeastElement ==
  ASSUME NEW T, T \subseteq Nat, T # {}
  PROVE  \E x \in T : \A y \in T : x <= y
<1>1. PICK x \in T : \A y \in T : ~ (<<y, x>> \in LessThan)
  BY WFMin, LessThanWellFounded
<1>2. ASSUME NEW y \in T
      PROVE  x <= y
  <2>1. x \in Nat /\ y \in Nat /\ ~ (<<y, x>> \in LessThan)
    BY <1>1
  <2>2. ~ (y < x)
    BY <2>1 DEF LessThan
  <2>3. QED
    BY <2>1, <2>2
<1>3. QED
  BY <1>1, <1>2

(* A property of 0 that goes over from n to n + 1 holds of every number. *)
THEOREM SetInduction ==
  ASSUME NEW S, 0 \in S, \A n \in Nat : n \in S => n + 1 \in S
  PROVE  \A n \in Nat : n \in S
<1>. DEFINE T == {n \in Nat : n \notin S}
<1>1. SUFFICES ASSUME T # {}
               PROVE  FALSE
  OBVIOUS
<1>2. PICK m \in T : \A y \in T : m <= y
  BY <1>1, LeastElement
<1>3. m - 1 \in Nat /\ m - 1 \notin T /\ (m - 1) + 1 = m
  BY <1>2
<1>4. QED
  BY <1>2, <1>3

(* A property that a number has if all smaller ones have it. *)
THEOREM StrongSetInduction ==
  ASSUME NEW S, \A n \in Nat : (\A m \in 0 .. n - 1 : m \in S) => n \in S
  PROVE  \A n \in Nat : n \in S
<1>. DEFINE T == {n \in Nat : n \notin S}
<1>1. SUFFICES ASSUME T # {}
               PROVE  FALSE
  OBVIOUS
<1>2. PICK m \in T : \A y \in T : m <= y
  BY <1>1, LeastElement
<1>3. \A k \in 0 .. m - 1 : k \in S
  BY <1>2
<1>4. QED
  BY <1>2, <1>3

(* Rules for functions on 0 .. N: they give the value at n from the values  *)
(* below n.                                                                *)
Rules(N, V) ==
  {R \in [[0 .. N -> V] \X (0 .. N) -> V] :
     \A f, g \in [0 .. N -> V], n \in 0 .. N :
       (\A i \in 0 .. n - 1 : f[i] = g[i]) => R[<<f, n>>] = R[<<g, n>>]}

FollowsRule(f, R, N) == \A n \in 0 .. N : f[n] = R[<<f, n>>]

(* Every rule has a function that obeys it.                              *)
THEOREM RecursionExists ==
  ASSUME NEW N \in Nat, NEW V, V # {}, NEW R \in Rules(N, V)
  PROVE  \E f \in [0 .. N -> V] : FollowsRule(f, R, N)
<1>. USE DEF Rules, FollowsRule
<1>. DEFINE Obeys(f, k) == \A n \in 0 .. N : n < k => f[n] = R[<<f, n>>]
            S == {k \in Nat : \E f \in [0 .. N -> V] : Obeys(f, k)}
<1>1. 0 \in S
  <2>1. PICK v \in V : TRUE
    OBVIOUS
  <2>2. [n \in 0 .. N |-> v] \in [0 .. N -> V]
    OBVIOUS
  <2>3. \A n \in 0 .. N : ~ (n < 0)
    OBVIOUS
  <2>4. \E f \in [0 .. N -> V] : Obeys(f, 0)
    BY <2>2, <2>3
  <2>5. QED
    BY <2>4
<1>2. ASSUME NEW k \in Nat, k \in S
      PROVE  k + 1 \in S
  <2>1. PICK f \in [0 .. N -> V] : Obeys(f, k)
    BY <1>2
  <2>2. CASE k \in 0 .. N
    <3>. DEFINE g == [f EXCEPT ![k] = R[<<f, k>>]]
    <3>1. R[<<f, k>>] \in V
      BY <2>2
    <3>2. g \in [0 .. N -> V]
      BY <3>1
    <3>3. g[k] = R[<<f, k>>] /\ \A i \in 0 .. N : i < k => g[i] = f[i]
      BY <2>2
    <3>. HIDE DEF g
    <3>4. ASSUME NEW n \in 0 .. N, n < k + 1
          PROVE  g[n] = R[<<g, n>>]
      <4>1. \A i \in 0 .. n - 1 : g[i] = f[i]
        BY <2>2, <3>3, <3>4
      <4>2. R[<<g, n>>] = R[<<f, n>>]
        BY <3>2, <4>1
      <4>3. CASE n = k
        BY <3>3, <4>2, <4>3
      <4>4. CASE n < k
        BY <2>1, <3>3, <4>2, <4>4
      <4>5. QED
        BY <3>4, <4>3, <4>4
    <3>5. QED
      BY <3>2, <3>4
  <2>3. CASE k \notin 0 .. N
    BY <2>1, <2>3
  <2>4. QED
    BY <2>2, <2>3
<1>3. N + 1 \in S
  <2>. HIDE DEF S
  <2>1. \A n \in Nat : n \in S
    BY <1>1, <1>2, SetInduction
  <2>2. QED
    BY <2>1
<1>4. PICK f \in [0 .. N -> V] : Obeys(f, N + 1)
  BY <1>3
<1>5. \A n \in 0 .. N : n < N + 1
  OBVIOUS
<1>6. QED
  BY <1>4, <1>5
=============================================================================

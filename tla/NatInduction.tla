---------------------------- MODULE NatInduction ----------------------------
(***************************************************************************)
(* Induction over the natural numbers for sets, and recursive functions on *)
(* a range of them, which the theorems about the page allocator's list,    *)
(* the strings and printf rest on.  There is no operator to instantiate: a *)
(* proof names the set of numbers or the functions it wants.               *)
(***************************************************************************)
EXTENDS Integers, NaturalsInduction, WellFoundedInduction, TLAPS

(***************************************************************************)
(* Induction on a set of numbers, by the least number outside of it.       *)
(***************************************************************************)
LEMMA LeastNat ==
  ASSUME NEW T, T \subseteq Nat, T # {}
  PROVE  \E m \in T : \A i \in T : m <= i
<1> DEFINE R == OpToRel(<, Nat)
<1>1. IsWellFoundedOn(R, Nat)
  BY NatLessThanWellFounded
<1>2. \A x, y \in Nat : x < y => <<x, y>> \in R
  <2>1. R = {ss \in Nat \X Nat : ss[1] < ss[2]}
    BY DEF OpToRel
  <2> HIDE DEF R
  <2> QED BY <2>1
<1> HIDE DEF R
<1>3. PICK m \in T : \A y \in T : ~ (<<y, m>> \in R)
  BY <1>1, WFMin
<1>4. ASSUME NEW i \in T PROVE m <= i
  <2>1. ~(<<i, m>> \in R)
    BY <1>3
  <2>2. i \in Nat /\ m \in Nat
    OBVIOUS
  <2>3. ~(i < m)
    BY <2>1, <2>2, <1>2
  <2> QED BY <2>2, <2>3
<1> QED BY <1>4

LEMMA NatSetInduction ==
  ASSUME NEW S, 0 \in S, \A n \in Nat : n \in S => n + 1 \in S
  PROVE  Nat \subseteq S
<1> DEFINE T == Nat \ S
<1> SUFFICES ASSUME T # {} PROVE FALSE
  OBVIOUS
<1>1. PICK m \in T : \A i \in T : m <= i
  BY LeastNat
<1>2. m - 1 \in Nat /\ m - 1 \notin T
  BY <1>1
<1> QED BY <1>2

LEMMA NatStrongInduction ==
  ASSUME NEW S, \A n \in Nat : (\A j \in 0..n - 1 : j \in S) => n \in S
  PROVE  Nat \subseteq S
<1> DEFINE T == Nat \ S
<1> SUFFICES ASSUME T # {} PROVE FALSE
  OBVIOUS
<1>1. PICK m \in T : \A i \in T : m <= i
  BY LeastNat
<1>2. \A j \in 0..m - 1 : j \in S
  BY <1>1
<1> QED BY <1>1, <1>2

-----------------------------------------------------------------------------
(***************************************************************************)
(* A function on 0..N whose value at m is G[m] of its value at h[m], an    *)
(* earlier place, exists.                                                  *)
(***************************************************************************)
Recursive(f, N, v0, h, G) ==
  f = [m \in 0..N |-> IF m = 0 THEN v0 ELSE G[m][f[h[m]]]]

LEMMA RecursionExists ==
  ASSUME NEW N \in Nat, NEW V, NEW v0 \in V,
         NEW h \in [1..N -> Nat], \A m \in 1..N : h[m] < m,
         NEW G \in [1..N -> [V -> V]]
  PROVE  \E f \in [0..N -> V] : Recursive(f, N, v0, h, G)
<1> DEFINE Eq(f, m) == f[m] = IF m = 0 THEN v0 ELSE G[m][f[h[m]]]
           D == {k \in Nat : k <= N =>
                   \E f \in [0..N -> V] : \A m \in 0..k : Eq(f, m)}
<1>1. 0 \in D
  <2>1. [m \in 0..N |-> v0] \in [0..N -> V]
    OBVIOUS
  <2>2. \A m \in 0..0 : Eq([i \in 0..N |-> v0], m)
    OBVIOUS
  <2> QED BY <2>1, <2>2
<1>2. ASSUME NEW k \in Nat, k \in D PROVE k + 1 \in D
  <2> SUFFICES ASSUME k + 1 <= N
               PROVE  \E f \in [0..N -> V] : \A m \in 0..k + 1 : Eq(f, m)
    OBVIOUS
  <2>1. PICK f \in [0..N -> V] : \A m \in 0..k : Eq(f, m)
    BY <1>2
  <2>2. k + 1 \in 1..N /\ h[k + 1] \in Nat /\ h[k + 1] < k + 1
    OBVIOUS
  <2>3. PICK e : e = G[k + 1][f[h[k + 1]]]
    OBVIOUS
  <2>4. e \in V
    <3>1. h[k + 1] \in 0..N
      BY <2>2
    <3>2. G[k + 1] \in [V -> V] /\ f[h[k + 1]] \in V
      BY <2>1, <2>2, <3>1
    <3> QED BY <2>3, <3>2
  <2>5. PICK g : g = [f EXCEPT ![k + 1] = e]
    OBVIOUS
  <2>6. g \in [0..N -> V] /\ g[k + 1] = e /\ \A m \in 0..k : g[m] = f[m]
    BY <2>1, <2>2, <2>4, <2>5
  <2>7. ASSUME NEW m \in 0..k + 1 PROVE Eq(g, m)
    <3>1. CASE m = 0
      <4>1. 0 \in 0..k
        OBVIOUS
      <4> QED BY <2>1, <2>6, <3>1, <4>1
    <3>2. CASE m # 0
      <4>1. m \in 1..N /\ h[m] \in 0..k
        <5>1. m \in 1..N
          BY <3>2
        <5>2. h[m] \in Nat /\ h[m] < m
          BY <5>1
        <5> QED BY <5>1, <5>2
      <4>2. g[h[m]] = f[h[m]]
        BY <2>6, <4>1
      <4>3. CASE m = k + 1
        <5>1. h[m] = h[k + 1] /\ G[m] = G[k + 1]
          BY <4>3
        <5> QED BY <2>3, <2>6, <3>2, <4>2, <4>3, <5>1
      <4>4. CASE m # k + 1
        <5>1. m \in 0..k
          BY <4>4
        <5> QED BY <2>1, <2>6, <3>2, <4>2, <5>1
      <4> QED BY <4>3, <4>4
    <3> QED BY <3>1, <3>2
  <2> QED BY <2>6, <2>7
<1>3. N \in D
  <2> HIDE DEF D
  <2> QED BY <1>1, <1>2, NatSetInduction
<1>4. PICK f \in [0..N -> V] : \A m \in 0..N : Eq(f, m)
  BY <1>3
<1>5. f = [m \in 0..N |-> IF m = 0 THEN v0 ELSE G[m][f[h[m]]]]
  BY <1>4
<1> QED BY <1>5 DEF Recursive

(***************************************************************************)
(* A function has all its values in V when each is in V as soon as some    *)
(* earlier one is.                                                         *)
(***************************************************************************)
LEMMA ValuesIn ==
  ASSUME NEW N \in Nat, NEW V, NEW f, f = [m \in 0..N |-> f[m]], f[0] \in V,
         \A m \in 1..N : \E j \in 0..m - 1 : f[j] \in V => f[m] \in V
  PROVE  f \in [0..N -> V]
<1> DEFINE B == {m \in 0..N : f[m] \notin V}
<1>1. ASSUME B # {} PROVE FALSE
  <2>1. PICK b \in B : \A c \in B : b <= c
    <3>1. B \subseteq Nat
      OBVIOUS
    <3> HIDE DEF B
    <3> QED BY <1>1, <3>1, LeastNat
  <2>2. b \in 1..N
    <3>1. b # 0
      OBVIOUS
    <3> QED BY <3>1
  <2>3. PICK j \in 0..b - 1 : f[j] \in V => f[b] \in V
    BY <2>2
  <2>4. j \notin B /\ j \in 0..N
    BY <2>1, <2>2, <2>3
  <2> QED BY <2>3, <2>4
<1>2. \A m \in 0..N : f[m] \in V
  BY <1>1
<1> QED BY <1>2
=============================================================================

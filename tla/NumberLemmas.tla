---------------------------- MODULE NumberLemmas ----------------------------
(***************************************************************************)
(* Facts about numbers that the proofs about several components need.      *)
(* Induction is stated over a set of numbers, and the set is given at each *)
(* use; it follows from NatLessThanWellFounded.                            *)
(***************************************************************************)
EXTENDS Integers, Sequences, WellFoundedInduction, TLAPS

(* A set of numbers that is not empty has a least element. *)
LEMMA LeastNumber ==
    ASSUME NEW T, T \subseteq Nat, T # {}
    PROVE  \E n \in T : \A m \in T : n <= m
PROOF
  <1>. DEFINE R == OpToRel(<, Nat)
  <1>1. IsWellFoundedOn(R, Nat)
    BY NatLessThanWellFounded, Zenon
  <1>2. \A m, n \in Nat : m < n => <<m, n>> \in R
    BY DEF OpToRel
  <1>. HIDE DEF R
  <1>3. \E n \in T : \A m \in T : ~ (<<m, n>> \in R)
    BY <1>1, WFMin
  <1>4. PICK n \in T : \A m \in T : ~ (<<m, n>> \in R)
    BY <1>3
  <1>5. ASSUME NEW m \in T
        PROVE  n <= m
    <2>1. m \in Nat /\ n \in Nat /\ ~ (m < n)
      BY <1>2, <1>4
    <2>. QED  BY <2>1
  <1>. QED  BY <1>5

(* A set that has zero and the successor of each of its numbers has them all. *)
LEMMA NumberInduction ==
    ASSUME NEW S, 0 \in S, \A n \in Nat : n \in S => n + 1 \in S
    PROVE  Nat \subseteq S
PROOF
  <1>. SUFFICES ASSUME Nat \ S # {} PROVE FALSE
    OBVIOUS
  <1>1. PICK n \in Nat \ S : \A m \in Nat \ S : n <= m
    BY LeastNumber
  <1>2. n # 0 /\ n - 1 \in Nat /\ ~ (n <= n - 1)
    OBVIOUS
  <1>. QED  BY <1>1, <1>2

\* f adds up g: at n it adds g[n].
Adds(f, g, k) == \A n \in 1 .. k : f[n] = f[n - 1] + g[n]

(* A running total exists, whatever it starts with. *)
LEMMA TotalExists ==
    ASSUME NEW K \in Nat, NEW c \in Nat, NEW g, \A n \in 1 .. K : g[n] \in Nat
    PROVE  \E f \in [0 .. K -> Nat] :
              f[0] = c /\ Adds(f, g, K)
PROOF
  <1>. DEFINE Total(f, k) == f[0] = c /\ Adds(f, g, k)
              S == {k \in Nat : k <= K => \E f \in [0 .. k -> Nat] : Total(f, k)}
  <1>. HIDE DEF Total, Adds
  <1>1. 0 \in S
    <2>. DEFINE f == [n \in 0 .. 0 |-> c]
    <2>1. f \in [0 .. 0 -> Nat] /\ Total(f, 0)
      BY DEF Total, Adds
    <2>. QED  BY <2>1
  <1>2. ASSUME NEW k \in Nat, k \in S
        PROVE  k + 1 \in S
    <2>. SUFFICES ASSUME k + 1 <= K
                  PROVE  \E h \in [0 .. k + 1 -> Nat] : Total(h, k + 1)
      OBVIOUS
    <2>1. PICK f \in [0 .. k -> Nat] : Total(f, k)
      BY <1>2
    <2>2. g[k + 1] \in Nat /\ f[k] \in Nat
      OBVIOUS
    <2>. DEFINE h == [n \in 0 .. k + 1 |-> IF n = k + 1 THEN f[k] + g[k + 1] ELSE f[n]]
    <2>3. h \in [0 .. k + 1 -> Nat]
      BY <2>1, <2>2
    <2>4. \A n \in 0 .. k : h[n] = f[n]
      OBVIOUS
    <2>5. h[k + 1] = f[k] + g[k + 1]
      OBVIOUS
    <2>. HIDE DEF h
    <2>6. ASSUME NEW n \in 1 .. k + 1
          PROVE  h[n] = h[n - 1] + g[n]
      <3>1. CASE n = k + 1
        BY <2>4, <2>5, <3>1
      <3>2. CASE n # k + 1
        <4>1. n \in 1 .. k /\ n \in 0 .. k /\ n - 1 \in 0 .. k
          BY <3>2
        <4>. QED  BY <2>1, <2>4, <4>1 DEF Total, Adds
      <3>. QED  BY <3>1, <3>2
    <2>7. h[0] = c
      BY <2>1, <2>4 DEF Total, Adds
    <2>. QED  BY <2>3, <2>6, <2>7 DEF Total, Adds
  <1>3. Nat \subseteq S
    <2>. HIDE DEF S
    <2>. QED  BY <1>1, <1>2, NumberInduction
  <1>4. \E f \in [0 .. K -> Nat] : Total(f, K)
    BY <1>3
  <1>. QED  BY <1>4 DEF Total, Adds

(* It is determined by where it starts and what is added. *)
LEMMA TotalUnique ==
    ASSUME NEW K \in Nat, NEW f, NEW h, NEW g,
           f[0] = h[0],
           Adds(f, g, K), Adds(h, g, K)
    PROVE  \A n \in 0 .. K : f[n] = h[n]
PROOF
  <1>. DEFINE S == {k \in Nat : k <= K => f[k] = h[k]}
  <1>1. 0 \in S
    OBVIOUS
  <1>2. ASSUME NEW k \in Nat, k \in S
        PROVE  k + 1 \in S
    <2>. SUFFICES ASSUME k + 1 <= K PROVE f[k + 1] = h[k + 1]
      OBVIOUS
    <2>1. k + 1 \in 1 .. K /\ (k + 1) - 1 = k
      OBVIOUS
    <2>2. f[k + 1] = f[k] + g[k + 1] /\ h[k + 1] = h[k] + g[k + 1]
      BY <2>1 DEF Adds
    <2>3. f[k] = h[k]
      BY <1>2
    <2>. QED  BY <2>2, <2>3
  <1>3. Nat \subseteq S
    <2>. HIDE DEF S
    <2>. QED  BY <1>1, <1>2, NumberInduction
  <1>4. ASSUME NEW n \in 0 .. K
        PROVE  f[n] = h[n]
    <2>1. n \in Nat /\ n <= K
      OBVIOUS
    <2>2. n \in S
      <3>. HIDE DEF S
      <3>. QED  BY <1>3, <2>1
    <2>. QED  BY <2>1, <2>2
  <1>. QED  BY <1>4

(* A multiple of n closer to zero than n is zero. *)
LEMMA SmallMultiple ==
    ASSUME NEW n \in Nat \ {0}, NEW q \in Int, n * q < n, - n < n * q
    PROVE  q = 0
PROOF
  <1>1. CASE q >= 1
    <2>1. n * q = n + n * (q - 1)
      OBVIOUS
    <2>2. n * (q - 1) >= 0
      BY <1>1
    <2>. QED  BY <2>1, <2>2
  <1>2. CASE q <= -1
    <2>1. n * q = - n + n * (q + 1)
      OBVIOUS
    <2>2. n * (q + 1) <= 0
      BY <1>2
    <2>. QED  BY <2>1, <2>2
  <1>. QED  BY <1>1, <1>2

(* Of n numbers in a row no two have the same remainder: instances that lie less
   than a buffer apart never share a slot. *)
LEMMA RemainderInjective ==
    ASSUME NEW n \in Nat \ {0}, NEW c \in Nat, NEW i \in Nat, NEW j \in Nat,
           c <= i, i < c + n,
           c <= j, j < c + n,
           i % n = j % n
    PROVE  i = j
PROOF
  <1>. DEFINE q == (i \div n) - (j \div n)
  <1>1. /\ i \div n \in Int /\ i % n \in Int /\ i = n * (i \div n) + (i % n)
        /\ j \div n \in Int /\ j % n \in Int /\ j = n * (j \div n) + (j % n)
    OBVIOUS
  <1>2. q \in Int /\ i - j = n * q
    BY <1>1
  <1>3. n * q < n /\ - n < n * q
    BY <1>2
  <1>. HIDE DEF q
  <1>4. q = 0
    BY <1>2, <1>3, SmallMultiple
  <1>. QED  BY <1>2, <1>4

=============================================================================

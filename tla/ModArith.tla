------------------------------ MODULE ModArith ------------------------------
(***************************************************************************)
(* Facts about the remainders that index ring buffers and that counters of *)
(* a fixed width are taken to, for any modulus: the proofs about the pipe  *)
(* and about the rings of the disk rest on them.                           *)
(***************************************************************************)
EXTENDS Integers, WellFoundedInduction, TLAPS

LEMMA ModRange ==
  ASSUME NEW m \in Nat \ {0}, NEW x \in Int
  PROVE  x % m \in 0..m-1
  BY Z3

LEMMA ModDiv ==
  ASSUME NEW m \in Nat \ {0}, NEW x \in Int
  PROVE  x \div m \in Int /\ x = m * (x \div m) + (x % m)
  BY Z3

LEMMA ModBelow ==
  ASSUME NEW m \in Nat \ {0}, NEW x \in 0..m-1
  PROVE  x % m = x
  BY Z3

LEMMA ModAbove ==
  ASSUME NEW m \in Nat \ {0}, NEW x \in m..2*m-1
  PROVE  x % m = x - m
  BY Z3

LEMMA ModNegative ==
  ASSUME NEW m \in Nat \ {0}, NEW x \in Int, -m <= x, x < 0
  PROVE  x % m = x + m
  BY Z3

LEMMA Multiples ==
  ASSUME NEW m \in Nat \ {0}, NEW d \in Int, NEW e \in Int, m * d < m * e + m
  PROVE  d <= e
  <1>1. CASE d >= e + 1
    <2>1. m * d >= m * (e + 1)
      BY <1>1, Z3
    <2>2. m * (e + 1) = m * e + m /\ m * d \in Int /\ m * e \in Int
      BY Z3
    <2> QED BY <2>1, <2>2
  <1> QED BY <1>1

\* Numbers less than m apart have different remainders.
LEMMA ModInjective ==
  ASSUME NEW m \in Nat \ {0}, NEW x \in Int, NEW y \in Int, x < y, y < x + m
  PROVE  x % m # y % m
  <1> DEFINE d == x \div m
             e == y \div m
             r == x % m
             s == y % m
  <1>1. d \in Int /\ e \in Int /\ m * d \in Int /\ m * e \in Int
    BY ModDiv, Z3
  <1>2. x = m * d + r /\ y = m * e + s /\ r \in Int /\ s \in Int
    BY ModDiv, ModRange
  <1> HIDE DEF d, e, r, s
  <1>3. CASE r = s
    <2>1. m * d < m * e /\ m * e < m * d + m
      BY <1>1, <1>2, <1>3
    <2>2. e <= d
      BY <2>1, <1>1, Multiples
    <2>3. m * e <= m * d
      BY <2>2, <1>1, Z3
    <2> QED BY <2>3, <2>1, <1>1
  <1> QED BY <1>3 DEF r, s

\* Adding a multiple of m does not change the remainder.
LEMMA ModPeriodic ==
  ASSUME NEW m \in Nat \ {0}, NEW x \in Int, NEW k \in Int
  PROVE  (x + m * k) % m = x % m
  <1> DEFINE y == x + m * k
             d == x \div m
             e == y \div m
             r == x % m
             s == y % m
  <1>1. y \in Int /\ d \in Int /\ e \in Int /\ r \in 0..m-1 /\ s \in 0..m-1
    BY ModDiv, ModRange, Z3
  <1>2. x = m * d + r /\ y = m * e + s
    BY <1>1, ModDiv
  <1> HIDE DEF d, e, r, s
  <1>3. y = m * (d + k) + r
    BY <1>1, <1>2, Z3
  <1> HIDE DEF y
  <1>4. m * (d + k) \in Int /\ m * e \in Int /\ d + k \in Int
    BY <1>1, Z3
  <1>5. m * (d + k) < m * e + m /\ m * e < m * (d + k) + m
    BY <1>1, <1>2, <1>3, <1>4
  <1>6. e <= d + k /\ d + k <= e
    BY <1>5, <1>4, <1>1, Multiples
  <1>7. e = d + k
    BY <1>6, <1>1
  <1>8. r = s
    BY <1>7, <1>2, <1>3, <1>4, <1>1
  <1> QED BY <1>8 DEF r, s, y

\* The search for the smallest member of a set of numbers ends.
LEMMA HasSmallest ==
  ASSUME NEW S, S \subseteq Nat, S # {}
  PROVE  \E i \in S : \A j \in S : i <= j
  <1>1. PICK i \in S : \A j \in S : ~(<<j, i>> \in OpToRel(<, Nat))
    BY NatLessThanWellFounded, WFMin, Zenon
  <1>2. \A j \in S : ~(j < i)
    BY <1>1 DEF OpToRel
  <1> QED BY <1>2
=============================================================================

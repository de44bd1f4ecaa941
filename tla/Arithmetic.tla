----------------------------- MODULE Arithmetic -----------------------------
(***************************************************************************)
(* Lemmas about natural numbers that proofs of several modules use:        *)
(* induction, and quotients and remainders by a divisor that is not known. *)
(***************************************************************************)
EXTENDS Integers, WellFoundedInduction, TLAPS

(* Induction on the natural numbers, for a set of them.                    *)
LEMMA LeastElement ==
  ASSUME NEW S \in SUBSET Nat, S # {}
  PROVE  \E m \in S : \A n \in S : m <= n
  <1> DEFINE R == OpToRel(<, Nat)
  <1>1. IsWellFoundedOn(R, Nat)
    BY NatLessThanWellFounded
  <1>2. PICK m \in S : \A n \in S : <<n, m>> \notin R
    <2> HIDE DEF R
    <2> QED
      BY <1>1, WFMin
  <1>3. \A n \in S : ~ (n < m)
    BY <1>2 DEF OpToRel
  <1> QED
    BY <1>3

LEMMA Induction ==
  ASSUME NEW S \in SUBSET Nat, 0 \in S, \A n \in S : n + 1 \in S
  PROVE  S = Nat
  <1> SUFFICES ASSUME Nat \ S # {} PROVE FALSE
    OBVIOUS
  <1>1. PICK m \in Nat \ S : \A n \in Nat \ S : m <= n
    BY LeastElement
  <1>2. m - 1 \in S
    BY <1>1
  <1> QED
    BY <1>1, <1>2

(* The same up to a bound.                                                 *)
LEMMA InductionUpTo ==
  ASSUME NEW b \in Nat, NEW S, 0 \in S, \A n \in 0 .. b - 1 : n \in S => n + 1 \in S
  PROVE  \A n \in 0 .. b : n \in S
  <1> DEFINE U == {n \in Nat : n <= b => n \in S}
  <1>1. 0 \in U /\ U \in SUBSET Nat
    OBVIOUS
  <1>2. \A n \in U : n + 1 \in U
    OBVIOUS
  <1>3. U = Nat
    <2> HIDE DEF U
    <2> QED
      BY <1>1, <1>2, Induction
  <1> QED
    BY <1>3
-----------------------------------------------------------------------------
(* Quotients and remainders.                                               *)
LEMMA Division ==
  ASSUME NEW c \in Nat \ {0}, NEW a \in Nat
  PROVE  /\ a \div c \in Nat /\ a % c \in 0 .. c - 1
         /\ a = (a \div c) * c + (a % c)
  OBVIOUS

LEMMA SameCycle ==
  ASSUME NEW c \in Nat \ {0}, NEW a \in Nat, NEW b \in Nat, a \div c = b \div c
  PROVE  b - a = (b % c) - (a % c)
  <1> DEFINE p == (a \div c) * c
  <1>1. a % c \in Nat /\ b % c \in Nat /\ p \in Nat
    BY Division
  <1>2. a = p + (a % c) /\ b = p + (b % c)
    BY Division
  <1> HIDE DEF p
  <1> QED
    BY <1>1, <1>2

LEMMA Monotone ==
  ASSUME NEW c \in Nat \ {0}, NEW a \in Nat, NEW b \in Nat, a <= b
  PROVE  a \div c <= b \div c
  <1> DEFINE p == a \div c
             q == b \div c
  <1>1. /\ p \in Nat /\ q \in Nat /\ p * c \in Nat /\ q * c \in Nat
        /\ p * c <= a /\ b < (q * c) + c
    <2>1. p \in Nat /\ q \in Nat /\ a % c \in 0 .. c - 1 /\ b % c \in 0 .. c - 1
      BY Division
    <2>2. a = p * c + (a % c) /\ b = q * c + (b % c)
      BY Division
    <2> HIDE DEF p, q
    <2> QED
      BY <2>1, <2>2
  <1> HIDE DEF p, q
  <1>2. ASSUME q < p PROVE FALSE
    <2>1. (q + 1) * c <= p * c /\ (q + 1) * c = (q * c) + c
      BY <1>1, <1>2
    <2> QED
      BY <1>1, <2>1
  <1> QED
    BY <1>1, <1>2 DEF p, q

LEMMA CycleBetween ==
  ASSUME NEW c \in Nat \ {0}, NEW a \in Nat, NEW b \in Nat, NEW d \in Nat,
         a <= b, b <= d, a \div c = d \div c
  PROVE  b \div c = a \div c /\ b \div c = d \div c
  <1>1. a \div c \in Nat /\ b \div c \in Nat /\ d \div c \in Nat
    BY Division
  <1> QED
    BY <1>1, Monotone

LEMMA Small ==
  ASSUME NEW c \in Nat \ {0}, NEW a \in Nat, a < c
  PROVE  a % c = a
  OBVIOUS

LEMMA OnceAround ==
  ASSUME NEW c \in Nat \ {0}, NEW a \in Nat, a < c
  PROVE  (c + a) % c = a
  OBVIOUS

LEMMA Quotient ==
  ASSUME NEW m \in Nat \ {0}, NEW a \in Int, NEW q \in Int,
         q * m <= a, a < (q + 1) * m
  PROVE  a \div m = q
  OBVIOUS

LEMMA QuotientBounds ==
  ASSUME NEW m \in Nat \ {0}, NEW a \in Int
  PROVE  /\ a \div m \in Int
         /\ (a \div m) * m <= a /\ a < ((a \div m) + 1) * m
  OBVIOUS

LEMMA Shifted ==
  ASSUME NEW m \in Nat \ {0}, NEW a \in Int, NEW k \in Int
  PROVE  (a - m * k) \div m = (a \div m) - k
  <1> DEFINE q == a \div m
  <1>1. q \in Int /\ q * m <= a /\ a < (q + 1) * m
    BY QuotientBounds
  <1> HIDE DEF q
  <1>2. /\ (q - k) * m = q * m - m * k
        /\ ((q - k) + 1) * m = (q + 1) * m - m * k
        /\ m * k \in Int /\ q * m \in Int /\ (q + 1) * m \in Int
    BY <1>1
  <1>3. /\ a - m * k \in Int /\ q - k \in Int
        /\ (q - k) * m <= a - m * k /\ a - m * k < ((q - k) + 1) * m
    BY <1>1, <1>2
  <1>4. (a - m * k) \div m = q - k
    BY <1>3, Quotient
  <1> QED
    BY <1>4 DEF q
=============================================================================

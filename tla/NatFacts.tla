------------------------------ MODULE NatFacts ------------------------------
(***************************************************************************)
(* Induction over the natural numbers, stated about sets of numbers so     *)
(* that it can be cited where a proof needs it: the set of the numbers     *)
(* with some property takes the place of the property.  And what a proof   *)
(* about numbers modulo W needs.                                           *)
(***************************************************************************)
EXTENDS Integers, WellFoundedInduction, TLAPS

(* A set of natural numbers that is not empty has a least element.         *)
LEMMA LeastNumber ==
    ASSUME NEW T, T \subseteq Nat, T # {}
    PROVE  \E x \in T : \A y \in T : x <= y
  <1> DEFINE Less == {ss \in Nat \X Nat : ss[1] < ss[2]}
  <1>1. IsWellFoundedOn(Less, Nat)
    BY NatLessThanWellFounded DEF OpToRel
  <1>2. \E x \in T : \A y \in T : ~(<<y, x>> \in Less)
    <2> HIDE DEF Less
    <2> QED BY <1>1, WFMin
  <1>3. \A x, y \in Nat : y < x => <<y, x>> \in Less
    OBVIOUS
  <1>4. PICK x \in T : \A y \in T : ~(<<y, x>> \in Less)
    BY <1>2
  <1>5. ASSUME NEW y \in T PROVE x <= y
    <2> HIDE DEF Less
    <2>1. x \in Nat /\ y \in Nat
      OBVIOUS
    <2>2. ~(y < x)
      BY <1>3, <1>4, <2>1, Zenon
    <2> QED BY <2>1, <2>2
  <1> QED BY <1>5

(* Course-of-values induction. *)
LEMMA StrongInduction ==
    ASSUME NEW T, \A n \in Nat : (\A m \in 0 .. n - 1 : m \in T) => n \in T
    PROVE  \A n \in Nat : n \in T
  <1> SUFFICES ASSUME NEW k \in Nat, k \notin T PROVE FALSE
    OBVIOUS
  <1> DEFINE U == Nat \ T
  <1>1. PICK x \in U : \A y \in U : x <= y
    <2>1. U \subseteq Nat /\ U # {}
      OBVIOUS
    <2> HIDE DEF U
    <2> QED BY <2>1, LeastNumber
  <1>2. \A m \in 0 .. x - 1 : m \in T
    BY <1>1
  <1> QED BY <1>1, <1>2

(* Induction from 0 up to n. *)
LEMMA InductionTo ==
    ASSUME NEW T, NEW n \in Nat, 0 \in T, \A k \in 0 .. n - 1 : k \in T => k + 1 \in T
    PROVE  \A k \in 0 .. n : k \in T
  <1> DEFINE U == {k \in Nat : k <= n => k \in T}
  <1>1. ASSUME NEW k \in Nat, \A m \in 0 .. k - 1 : m \in U PROVE k \in U
    <2>1. CASE k = 0
      BY <2>1
    <2>2. CASE k # 0
      <3>1. k - 1 \in 0 .. k - 1
        BY <2>2
      <3>2. k - 1 \in U
        BY <3>1, <1>1
      <3> QED BY <3>2, <2>2
    <2> QED BY <2>1, <2>2
  <1>2. \A k \in Nat : k \in U
    <2> HIDE DEF U
    <2> QED BY <1>1, StrongInduction
  <1> QED BY <1>2
-----------------------------------------------------------------------------
(* Quotient and remainder. *)
LEMMA ModuloParts ==
    ASSUME NEW W \in Nat \ {0}, NEW a \in Int
    PROVE  /\ a \div W \in Int /\ a % W \in 0 .. W - 1
           /\ a = W * (a \div W) + (a % W)
  OBVIOUS

LEMMA ModuloUnique ==
    ASSUME NEW W \in Nat \ {0}, NEW p \in Int, NEW q \in Int,
           NEW x \in 0 .. W - 1, NEW y \in 0 .. W - 1, W * p + x = W * q + y
    PROVE  x = y /\ p = q
  <1>1. \A d \in Int : d >= 1 => W * d >= W
    OBVIOUS
  <1>2. W * (p - q) = y - x /\ W * (q - p) = x - y
    OBVIOUS
  <1>3. ~(p - q >= 1)
    BY <1>1, <1>2
  <1>4. ~(q - p >= 1)
    BY <1>1, <1>2
  <1>5. p = q
    BY <1>3, <1>4
  <1> QED BY <1>5

LEMMA ModuloSmall ==
    ASSUME NEW W \in Nat \ {0}, NEW a \in 0 .. W - 1
    PROVE  a % W = a
  <1>1. a % W \in 0 .. W - 1 /\ a \div W \in Int /\ W * 0 + a = W * (a \div W) + (a % W)
    BY ModuloParts
  <1> QED BY <1>1, ModuloUnique

(* What was already taken modulo W may be so again at the end.             *)
LEMMA ModuloAgain ==
    ASSUME NEW W \in Nat \ {0}, NEW a \in Int, NEW d \in Int
    PROVE  ((a % W) + d) % W = (a + d) % W
  <1> DEFINE x == a % W
             b == x + d
             c == a + d
             p == a \div W
             q == b \div W
             k == c \div W
             m == p + q
  <1>1. x \in 0 .. W - 1 /\ p \in Int /\ a = W * p + x
    BY ModuloParts
  <1>2. b \in Int /\ c \in Int /\ m \in Int
    BY <1>1
  <1>3. b % W \in 0 .. W - 1 /\ q \in Int /\ b = W * q + (b % W)
    <2> HIDE DEF b
    <2> QED BY <1>2, ModuloParts
  <1>4. c % W \in 0 .. W - 1 /\ k \in Int /\ c = W * k + (c % W)
    <2> HIDE DEF c
    <2> QED BY <1>2, ModuloParts
  <1>5. W * m + (b % W) = W * k + (c % W)
    <2>1. m = p + q /\ b = x + d /\ c = a + d
      OBVIOUS
    <2> HIDE DEF x, b, c, p, q, k, m
    <2>2. W * m = W * p + W * q
      BY <1>1, <1>3, <2>1
    <2>3. x + d = W * q + (b % W) /\ a + d = W * k + (c % W)
      BY <1>3, <1>4, <2>1
    <2>4. b % W \in Int /\ c % W \in Int /\ x \in Int
      BY <1>1, <1>3, <1>4
    <2> QED BY <1>1, <1>3, <1>4, <2>2, <2>3, <2>4
  <1> HIDE DEF x, b, c, p, q, k, m
  <1>6. b % W = c % W
    BY <1>2, <1>3, <1>4, <1>5, ModuloUnique
  <1> QED BY <1>6 DEF x, b, c
=============================================================================

------------------------------ MODULE FoldFacts ------------------------------
(***************************************************************************)
(* What FoldLeft does, one element after the other.  The operator folded   *)
(* is a parameter of this module: an INSTANCE gives the facts for it.      *)
(***************************************************************************)
EXTENDS NatFacts, SequencesExt

CONSTANTS Op(_, _), Start

Fold(s) == FoldLeft(Op, Start, s)

(* The recursion of FoldLeft over the sets of places of s.                 *)
Iterates(s, K, h) ==
    h = [P \in SUBSET K |-> IF P = {} THEN Start ELSE Op(h[P \ {Max(P)}], s[Max(P)])]

LEMMA FoldUnfolds ==
    ASSUME NEW s
    PROVE Fold(s) = (CHOOSE h : Iterates(s, DOMAIN s, h))[DOMAIN s]
  BY DEF Fold, FoldLeft, MapThenFoldSet, Iterates

(* The last place of a set of places.                                      *)
LEMMA LastPlace ==
    ASSUME NEW k \in Nat, NEW P \in SUBSET (1 .. k + 1), k + 1 \in P
    PROVE  Max(P) = k + 1
  <1> DEFINE Largest(x) == x \in P /\ \A y \in P : x >= y
  <1>1. Largest(k + 1)
    OBVIOUS
  <1>2. \A x : Largest(x) => x = k + 1
    OBVIOUS
  <1>3. Max(P) = CHOOSE x : Largest(x)
    BY DEF Max
  <1> HIDE DEF Largest
  <1> QED BY <1>1, <1>2, <1>3

LEMMA LastIsPlace ==
    ASSUME NEW k \in Nat, NEW P \in SUBSET (1 .. k), P # {}
    PROVE  Max(P) \in P
  <1> DEFINE Gaps == {k - x : x \in P}
  <1>1. PICK g \in Gaps : \A y \in Gaps : g <= y
    <2>1. Gaps # {}
      OBVIOUS
    <2>2. ASSUME NEW x \in P PROVE k - x \in Nat
      OBVIOUS
    <2>3. Gaps \subseteq Nat
      BY <2>2
    <2> HIDE DEF Gaps
    <2> QED BY <2>1, <2>3, LeastNumber
  <1>2. PICK x \in P : g = k - x
    BY <1>1
  <1>3. \A y \in P : x >= y
    <2> TAKE y \in P
    <2>1. k - y \in Gaps
      OBVIOUS
    <2>2. g <= k - y
      BY <1>1, <2>1
    <2> QED BY <2>2, <1>2
  <1> QED BY <1>3 DEF Max

LEMMA IterationExists ==
    ASSUME NEW s, NEW n \in Nat
    PROVE  \E h : Iterates(s, 1 .. n, h)
  <1> DEFINE T == {k \in Nat : \E h : Iterates(s, 1 .. k, h)}
  <1>1. 0 \in T
    <2>1. Iterates(s, 1 .. 0, [P \in {{}} |-> Start])
      BY DEF Iterates
    <2> QED BY <2>1
  <1>2. ASSUME NEW k \in 0 .. n - 1, k \in T PROVE k + 1 \in T
    <2>1. PICK h : Iterates(s, 1 .. k, h)
      BY <1>2
    <2> DEFINE g == [P \in SUBSET (1 .. k + 1) |->
                        IF k + 1 \in P THEN Op(h[P \ {k + 1}], s[k + 1]) ELSE h[P]]
    <2>2. ASSUME NEW P \in SUBSET (1 .. k + 1)
          PROVE  g[P] = IF P = {} THEN Start ELSE Op(g[P \ {Max(P)}], s[Max(P)])
      <3>1. CASE k + 1 \in P
        <4>1. Max(P) = k + 1
          BY <3>1, LastPlace
        <4>2. P \ {k + 1} \in SUBSET (1 .. k + 1) /\ k + 1 \notin P \ {k + 1}
          OBVIOUS
        <4>3. g[P \ {k + 1}] = h[P \ {k + 1}]
          BY <4>2
        <4> QED BY <3>1, <4>1, <4>3
      <3>2. CASE k + 1 \notin P
        <4>1. P \in SUBSET (1 .. k)
          BY <3>2
        <4>2. g[P] = h[P]
          BY <3>2
        <4>3. h[P] = IF P = {} THEN Start ELSE Op(h[P \ {Max(P)}], s[Max(P)])
          BY <2>1, <4>1 DEF Iterates
        <4>4. g[P \ {Max(P)}] = h[P \ {Max(P)}]
          BY <3>2
        <4> QED BY <4>2, <4>3, <4>4
      <3> QED BY <3>1, <3>2
    <2>3. Iterates(s, 1 .. k + 1, g)
      <3> HIDE DEF g
      <3>1. g = [P \in SUBSET (1 .. k + 1) |-> g[P]]
        BY DEF g
      <3>2. \A P \in SUBSET (1 .. k + 1) :
                g[P] = IF P = {} THEN Start ELSE Op(g[P \ {Max(P)}], s[Max(P)])
        BY <2>2
      <3> QED BY <3>1, <3>2 DEF Iterates
    <2> QED BY <2>3
  <1> HIDE DEF T
  <1>3. n \in T
    BY <1>1, <1>2, InductionTo
  <1> QED BY <1>3 DEF T

(* Two sequences that begin alike are iterated over alike.                 *)
LEMMA IterationAgrees ==
    ASSUME NEW s, NEW t, NEW n \in Nat, NEW m \in Nat, n <= m,
           \A i \in 1 .. n : s[i] = t[i],
           NEW g, Iterates(s, 1 .. n, g), NEW h, Iterates(t, 1 .. m, h)
    PROVE  \A P \in SUBSET (1 .. n) : g[P] = h[P]
  <1> DEFINE T == {k \in 0 .. n : \A P \in SUBSET (1 .. k) : g[P] = h[P]}
  <1>1. 0 \in T
    BY DEF Iterates
  <1>2. ASSUME NEW k \in 0 .. n - 1, k \in T PROVE k + 1 \in T
    <2>1. ASSUME NEW P \in SUBSET (1 .. k + 1), k + 1 \in P PROVE g[P] = h[P]
      <3>1. Max(P) = k + 1
        BY <2>1, LastPlace
      <3>2. P \in SUBSET (1 .. n) /\ P \in SUBSET (1 .. m) /\ P # {}
        BY <2>1
      <3>3. g[P] = Op(g[P \ {k + 1}], s[k + 1])
        BY <3>1, <3>2 DEF Iterates
      <3>4. h[P] = Op(h[P \ {k + 1}], t[k + 1])
        BY <3>1, <3>2 DEF Iterates
      <3>5. g[P \ {k + 1}] = h[P \ {k + 1}]
        BY <1>2
      <3>6. s[k + 1] = t[k + 1]
        OBVIOUS
      <3> QED BY <3>3, <3>4, <3>5, <3>6
    <2>2. ASSUME NEW P \in SUBSET (1 .. k + 1), k + 1 \notin P PROVE g[P] = h[P]
      <3>1. P \in SUBSET (1 .. k)
        BY <2>2
      <3> QED BY <3>1, <1>2
    <2>3. k + 1 \in 0 .. n
      OBVIOUS
    <2> QED BY <2>1, <2>2, <2>3
  <1> HIDE DEF T
  <1>3. \A k \in 0 .. n : k \in T
    BY <1>1, <1>2, InductionTo
  <1>4. n \in T
    BY <1>3
  <1> QED BY <1>4 DEF T

(* The fold is the last of the iterates, and every choice of them agrees.  *)
LEMMA FoldIterated ==
    ASSUME NEW s, NEW n \in Nat, DOMAIN s = 1 .. n
    PROVE  \E h : Iterates(s, 1 .. n, h) /\ Fold(s) = h[1 .. n]
  BY IterationExists, FoldUnfolds

THEOREM FoldEmpty == Fold(<<>>) = Start
  <1>1. PICK h : Iterates(<<>>, 1 .. 0, h) /\ Fold(<<>>) = h[1 .. 0]
    <2>1. DOMAIN <<>> = 1 .. 0
      OBVIOUS
    <2> QED BY <2>1, FoldIterated
  <1>2. h = [P \in SUBSET (1 .. 0) |-> 
                IF P = {} THEN Start ELSE Op(h[P \ {Max(P)}], <<>>[Max(P)])]
    BY <1>1 DEF Iterates
  <1>3. 1 .. 0 = {}
    OBVIOUS
  <1>4. h[{}] = Start
    BY <1>2, <1>3
  <1> QED BY <1>1, <1>3, <1>4

(* A sequence one longer: one more application of the operator. *)
THEOREM FoldLonger ==
    ASSUME NEW s, NEW t, NEW n \in Nat, DOMAIN s = 1 .. n, DOMAIN t = 1 .. n + 1,
           \A i \in 1 .. n : s[i] = t[i]
    PROVE  Fold(t) = Op(Fold(s), t[n + 1])
  <1>1. PICK g : Iterates(s, 1 .. n, g) /\ Fold(s) = g[1 .. n]
    BY FoldIterated
  <1>2. PICK h : Iterates(t, 1 .. n + 1, h) /\ Fold(t) = h[1 .. n + 1]
    BY FoldIterated
  <1>3. \A P \in SUBSET (1 .. n) : g[P] = h[P]
    BY <1>1, <1>2, IterationAgrees
  <1>4. g[1 .. n] = h[1 .. n]
    BY <1>3
  <1>5. Max(1 .. n + 1) = n + 1
    BY LastPlace
  <1>6. (1 .. n + 1) \ {n + 1} = 1 .. n
    OBVIOUS
  <1>7. n + 1 \in 1 .. n + 1
    OBVIOUS
  <1>8. h[1 .. n + 1] = Op(h[1 .. n], t[n + 1])
    BY <1>2, <1>5, <1>6, <1>7 DEF Iterates
  <1> QED BY <1>1, <1>2, <1>4, <1>8
=============================================================================

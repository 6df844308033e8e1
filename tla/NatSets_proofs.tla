--------------------------- MODULE NatSets_proofs ---------------------------
(* Least and greatest elements of sets of naturals, and induction over one   *)
(* (the library's induction takes a predicate).                             *)
EXTENDS Integers, WellFoundedInduction, TLAPS

(* A nonempty set of naturals has a minimum and, if bounded, a maximum.       *)
LEMMA MinNat ==
  ASSUME NEW T, T \subseteq Nat, T # {}
  PROVE  \E x \in T : \A y \in T : x <= y
<1>1. IsWellFoundedOn(OpToRel(<, Nat), Nat)
  BY NatLessThanWellFounded
<1>2. \E x \in T : \A y \in T : ~ (<<y, x>> \in OpToRel(<, Nat))
  BY <1>1, WFMin
<1>3. \A x \in Nat, y \in Nat : y < x => <<y, x>> \in OpToRel(<, Nat)
  BY DEF OpToRel
<1>4. PICK x \in T : \A y \in T : ~ (<<y, x>> \in OpToRel(<, Nat))
  BY <1>2
<1>5. ASSUME NEW y \in T PROVE x <= y
  <2>1. ~ (y < x)
    BY <1>3, <1>4, Zenon
  <2> QED
    BY <2>1
<1> QED
  BY <1>5

LEMMA MaxNat ==
  ASSUME NEW T, T \subseteq Nat, T # {}, NEW b \in Nat, \A x \in T : x <= b
  PROVE  \E x \in T : \A y \in T : y <= x
<1> DEFINE D == {b - x : x \in T}
<1>1. D \subseteq Nat /\ D # {}
  <2>1. \A x \in T : b - x \in Nat
    OBVIOUS
  <2> QED
    BY <2>1
<1>2. PICK d \in D : \A e \in D : d <= e
  BY <1>1, MinNat
<1>3. PICK x \in T : d = b - x
  OBVIOUS
<1>4. ASSUME NEW y \in T PROVE y <= x
  <2>1. b - y \in D
    OBVIOUS
  <2>2. b - x <= b - y
    BY <1>2, <1>3, <2>1
  <2>3. x \in Nat /\ y \in Nat /\ x <= b /\ y <= b
    OBVIOUS
  <2> QED
    BY <2>2, <2>3
<1> QED
  BY <1>4

(* Induction on 0..k, as the provers can use it: over a set, not a predicate.  *)
LEMMA StepByStep ==
  ASSUME NEW k \in Nat, NEW S, 0 \in S,
         \A i \in 1..k : i - 1 \in S => i \in S
  PROVE  \A i \in 0..k : i \in S
<1> SUFFICES ASSUME NEW i \in 0..k, i \notin S PROVE FALSE
  OBVIOUS
<1> DEFINE T == {j \in 0..k : j \notin S}
<1>1. T \subseteq Nat /\ T # {}
  OBVIOUS
<1>2. PICK x \in T : \A y \in T : x <= y
  BY <1>1, MinNat
<1>3. x \in 0..k /\ x \notin S /\ x # 0
  BY <1>2
<1>4. x \in 1..k /\ x - 1 \in 0..k
  BY <1>3
<1>5. x - 1 \in S
  <2>1. ~ (x <= x - 1)
    BY <1>3
  <2> QED
    BY <1>2, <1>4, <2>1
<1> QED
  BY <1>3, <1>4, <1>5
=============================================================================

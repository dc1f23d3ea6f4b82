------------------------------ MODULE Counting ------------------------------
(***************************************************************************)
(* Induction over numbers for the proofs.  (NaturalsInduction states it    *)
(* with an operator for the formula; here it is a set of numbers.)         *)
(***************************************************************************)
EXTENDS Integers, SequenceTheorems, WellFoundedInduction, TLAPS

LEMMA Smallest ==
    ASSUME NEW K \in SUBSET Nat, K # {}
    PROVE  \E k \in K : \A l \in K : k <= l
<1>1. K \subseteq Nat
  OBVIOUS
<1>2. PICK k \in K : \A l \in K : ~(<<l, k>> \in OpToRel(<, Nat))
  BY <1>1, NatLessThanWellFounded, WFMin
<1>3. \A l \in K : ~(l < k)
  BY <1>1, <1>2 DEF OpToRel
<1> QED BY <1>1, <1>3

\* A set that has 0 and with each number the next one has them all.
LEMMA CountUp ==
    ASSUME NEW m \in Nat, NEW A, 0 \in A, \A n \in 0 .. m - 1 : n \in A => n + 1 \in A
    PROVE  0 .. m \subseteq A
<1>1. SUFFICES ASSUME (0 .. m) \ A # {} PROVE FALSE
  OBVIOUS
<1>2. PICK k \in (0 .. m) \ A : \A l \in (0 .. m) \ A : k <= l
  <2>1. (0 .. m) \ A \in SUBSET Nat
    OBVIOUS
  <2> QED BY <1>1, <2>1, Smallest
<1>3. k - 1 \in 0 .. m - 1 /\ k - 1 \in A
  BY <1>2
<1> QED BY <1>2, <1>3
=============================================================================

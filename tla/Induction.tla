-------------------------------- MODULE Induction --------------------------------
(***************************************************************************)
(* Induction over the natural numbers for a set instead of a predicate,    *)
(* for the proofs about lists and recursive functions.                     *)
(***************************************************************************)
EXTENDS FiniteSetTheorems, TLAPS

LEMMA NatOrdered == LET R == {p \in Nat \X Nat : p[1] < p[2]} IN IsWellFoundedOn(R, Nat)
  BY NatLessThanWellFounded DEF OpToRel

LEMMA LeastNumber ==
  ASSUME NEW S \in SUBSET Nat, S # {}
  PROVE  \E i \in S : \A j \in S : i <= j
<1> DEFINE R == {p \in Nat \X Nat : p[1] < p[2]}
<1>1. IsWellFoundedOn(R, Nat)
  BY NatOrdered
<1>2. \E i \in S : \A j \in S : ~(<<j, i>> \in R)
  <2> HIDE DEF R
  <2> QED
    BY <1>1, WFMin
<1>3. PICK i \in S : \A j \in S : ~(<<j, i>> \in R)
  BY <1>2
<1>4. \A j \in S : i <= j
  <2> TAKE j \in S
  <2>1. ~(<<j, i>> \in R) /\ i \in Nat /\ j \in Nat
    BY <1>3
  <2> QED
    BY <2>1
<1> QED
  BY <1>4

LEMMA SetInduction ==
  ASSUME NEW S, 0 \in S, \A n \in Nat : n \in S => n + 1 \in S
  PROVE  \A n \in Nat : n \in S
<1> SUFFICES ASSUME Nat \ S # {} PROVE FALSE
  OBVIOUS
<1>1. PICK least \in Nat \ S : \A j \in Nat \ S : least <= j
  BY LeastNumber
<1>2. least # 0 /\ least - 1 \in Nat /\ ~(least <= least - 1) /\ (least - 1) + 1 = least
  BY <1>1
<1>3. least - 1 \in S
  BY <1>1, <1>2
<1> QED
  BY <1>2, <1>3
================================================================================

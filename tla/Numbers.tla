------------------------------- MODULE Numbers -------------------------------
(***************************************************************************)
(* Facts about the natural numbers that the proofs of several components   *)
(* rest on: the loops and the minima of the code end because the naturals  *)
(* are well founded.                                                       *)
(***************************************************************************)
EXTENDS Integers, WellFoundedInduction, TLAPS

Smaller == {p \in Nat \X Nat : p[1] < p[2]}

LEMMA SmallerWellFounded == IsWellFoundedOn(Smaller, Nat)
  BY NatLessThanWellFounded, Zenon DEF Smaller, OpToRel

\* Every nonempty set of naturals has a least element.
LEMMA LeastNatural ==
  ASSUME NEW S \in SUBSET Nat, S # {}
  PROVE  \E n \in S : \A m \in S : n <= m
<1>1. PICK n \in S : \A m \in S : ~(<<m, n>> \in Smaller)
  BY SmallerWellFounded, WFMin
<1>2. ASSUME NEW m \in S PROVE n <= m
  <2>1. m \in Nat /\ n \in Nat /\ ~(<<m, n>> \in Smaller)
    BY <1>1
  <2>2. QED
    BY <2>1 DEF Smaller
<1>3. QED
  BY <1>2

\* A set of naturals that holds 0 and what follows each of its elements is Nat.
LEMMA InductiveSet ==
  ASSUME NEW S \in SUBSET Nat, 0 \in S, \A n \in S : n + 1 \in S
  PROVE  S = Nat
<1>1. SUFFICES ASSUME Nat \ S # {} PROVE FALSE
  OBVIOUS
<1>2. PICK n \in Nat \ S : \A m \in Nat \ S : n <= m
  BY <1>1, LeastNatural
<1>3. n - 1 \in S
  BY <1>2
<1>4. QED
  BY <1>2, <1>3
=============================================================================

---------------------------- MODULE NaturalSets -----------------------------
(***************************************************************************)
(* Induction over the naturals, stated of a set instead of a predicate, so *)
(* that a proof can cite it like any other fact.                           *)
(***************************************************************************)
EXTENDS Integers, WellFoundedInduction, TLAPS

\* The order NatLessThanWellFounded speaks of.
LEMMA NaturalOrder ==
    \A m, n \in Nat : n < m => <<n, m>> \in OpToRel(<, Nat)
<1>1. OpToRel(<, Nat) = {p \in Nat \X Nat : p[1] < p[2]}
    BY Zenon DEF OpToRel
<1>2. \A m, n \in Nat : n < m => <<n, m>> \in {p \in Nat \X Nat : p[1] < p[2]}
    OBVIOUS
<1>. QED
    BY Zenon, <1>1, <1>2

LEMMA LeastNatural ==
    ASSUME NEW T \in SUBSET Nat, T # {}
    PROVE  \E m \in T : \A n \in T : m <= n
<1>1. PICK m \in T : \A n \in T : <<n, m>> \notin OpToRel(<, Nat)
    BY Zenon, NatLessThanWellFounded, WFMin
<1>2. \A n \in T : ~(n < m)
    BY Zenon, <1>1, NaturalOrder
<1>. QED
    BY <1>2

\* A set that holds 0 and the successor of each of its naturals holds them all.
LEMMA Induction ==
    ASSUME NEW T, 0 \in T, \A n \in Nat : n \in T => n + 1 \in T
    PROVE  Nat \subseteq T
<1> SUFFICES ASSUME Nat \ T # {} PROVE FALSE
    OBVIOUS
<1>1. PICK m \in Nat \ T : \A n \in Nat \ T : m <= n
    BY LeastNatural
<1>2. m # 0 /\ m - 1 \in Nat /\ (m - 1) + 1 = m
    OBVIOUS
<1>3. m - 1 \in T
    BY <1>1, <1>2
<1>. QED
    BY <1>1, <1>2, <1>3
=============================================================================

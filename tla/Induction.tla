----------------------------- MODULE Induction -----------------------------
(***************************************************************************)
(* Induction as a fact about sets: a set of numbers that is not empty has  *)
(* a least one.  The proof modules use it where a property of all numbers  *)
(* up to n follows from the ones below, on the set of counterexamples.     *)
(***************************************************************************)
EXTENDS Integers, WellFoundedInduction, TLAPS

LEMMA LeastNumber ==
    ASSUME NEW T, T \subseteq Nat, T # {}
    PROVE  \E n \in T : \A m \in T : n <= m
<1> DEFINE Less == {p \in Nat \X Nat : p[1] < p[2]}
<1>1. IsWellFoundedOn(Less, Nat)
    BY NatLessThanWellFounded DEF OpToRel
<1>2. \A m, n \in Nat : <<m, n>> \in Less \/ n <= m
    OBVIOUS
<1> HIDE DEF Less
<1>3. PICK n \in T : \A m \in T : ~(<<m, n>> \in Less)
    BY <1>1, WFMin
<1>4. \A m \in T : n <= m
    BY <1>2, <1>3
<1> QED
    BY <1>4

=============================================================================

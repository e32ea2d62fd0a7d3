------------------------------ MODULE NatOrder ------------------------------
(***************************************************************************)
(* Least and greatest elements of sets of naturals, which the models       *)
(* choose: the newest page, the head of the ring, the last event sent.     *)
(***************************************************************************)
EXTENDS Integers, WellFoundedInduction, TLAPS

(* Also the form in which an induction over naturals is made: the least    *)
(* number at which a property fails.                                       *)
LEMMA LeastNatural ==
    ASSUME NEW S, S \subseteq Nat, S # {}
    PROVE  \E x \in S : \A y \in S : x <= y
<1> DEFINE R == {ss \in Nat \X Nat : ss[1] < ss[2]}
<1>1. IsWellFoundedOn(R, Nat)
  BY NatLessThanWellFounded DEF OpToRel
<1>2. PICK x \in S : \A y \in S : ~ (<<y, x>> \in R)
  <2> HIDE DEF R
  <2> QED
    BY <1>1, WFMin
<1>3. \A y \in S : ~(y < x)
  BY <1>2
<1> QED
  BY <1>3

LEMMA GreatestNatural ==
    ASSUME NEW n \in Nat, NEW S, S \subseteq 0 .. n, S # {}
    PROVE  \E x \in S : \A y \in S : y <= x
<1> DEFINE D == {d \in Nat : n - d \in S}
<1>1. D # {} /\ D \subseteq Nat
  <2> PICK x \in S : TRUE
    OBVIOUS
  <2>1. n - x \in Nat /\ n - (n - x) = x
    OBVIOUS
  <2> QED
    BY <2>1
<1>2. PICK d \in D : \A e \in D : d <= e
  <2> HIDE DEF D
  <2> QED
    BY <1>1, LeastNatural
<1>3. ASSUME NEW y \in S  PROVE y <= n - d
  <2>1. n - y \in Nat /\ n - (n - y) = y
    OBVIOUS
  <2> QED
    BY <1>2, <2>1
<1> QED
  BY <1>2, <1>3
=============================================================================

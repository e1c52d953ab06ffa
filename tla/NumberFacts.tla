----------------------------- MODULE NumberFacts -----------------------------
(***************************************************************************)
(* Facts about natural numbers that the proofs share: a least element, an  *)
(* induction over the numbers up to a bound, and division with remainder.  *)
(***************************************************************************)
EXTENDS Integers, FiniteSetTheorems, WellFoundedInduction, TLAPS

(* A non-empty set of numbers below a bound has a least one: of the initial
   segments its numbers bound, one is minimal. *)
LEMMA LeastOf ==
    ASSUME NEW n \in Nat, NEW T \in SUBSET (0..n), T # {}
    PROVE  \E t \in T : \A u \in T : t <= u
<1> DEFINE Segment(t) == 0..t - 1
           Segments == {Segment(t) : t \in T}
           All == 0..n
<1>1. IsFiniteSet(All)
  BY FS_Interval
<1>2. IsWellFoundedOn(StrictSubsetOrdering(All), SUBSET All)
  BY <1>1, FS_StrictSubsetOrderingWellFounded, FS_FiniteSubsetsOfFinite
<1>3. Segments \subseteq SUBSET All /\ Segments # {}
  <2>1. \A t \in T : Segment(t) \subseteq All
    OBVIOUS
  <2> HIDE DEF Segment, All
  <2> QED
    BY <2>1
<1>4. PICK s \in Segments : \A r \in Segments :
        <<r, s>> \notin StrictSubsetOrdering(All)
  <2> HIDE DEF Segments, All
  <2> QED
    BY <1>2, <1>3, WFMin
<1>5. PICK t \in T : s = Segment(t)
  BY <1>4
<1>6. ASSUME NEW u \in T, u < t PROVE FALSE
  <2>1. Segment(u) \in Segments /\ Segment(t) \in Segments
    OBVIOUS
  <2>2. u \in Segment(t) /\ u \notin Segment(u) /\ Segment(u) \subseteq Segment(t)
    BY <1>6
  <2>3. <<Segment(u), Segment(t)>> \in StrictSubsetOrdering(All)
    <3> HIDE DEF Segment, Segments, All
    <3> QED
      BY <1>3, <2>1, <2>2 DEF StrictSubsetOrdering
  <2> QED
    BY <1>4, <1>5, <2>1, <2>3
<1> QED
  BY <1>6

(* Induction, for a property given as the set of the numbers that have it. *)
LEMMA UpTo ==
    ASSUME NEW n \in Nat, NEW T, 0 \in T, \A k \in 0..n - 1 : k \in T => k + 1 \in T
    PROVE  \A k \in 0..n : k \in T
<1> DEFINE Rest == {k \in 0..n : k \notin T}
<1> SUFFICES ASSUME Rest # {} PROVE FALSE
  OBVIOUS
<1>1. PICK t \in Rest : \A u \in Rest : t <= u
  <2>1. Rest \in SUBSET (0..n)
    OBVIOUS
  <2> HIDE DEF Rest
  <2> QED
    BY <2>1, LeastOf
<1>2. t # 0 /\ t \in 0..n
  OBVIOUS
<1>3. t - 1 \in 0..n - 1 /\ t - 1 \notin Rest
  BY <1>1, <1>2
<1> QED
  BY <1>2, <1>3

LEMMA DivMod ==
    ASSUME NEW d \in Nat \ {0}, NEW p \in Nat
    PROVE  /\ p \div d \in Nat
           /\ (p \div d) * d <= p
           /\ p < (p \div d) * d + d
           /\ p % d = p - (p \div d) * d
OBVIOUS

LEMMA DivUnique ==
    ASSUME NEW d \in Nat \ {0}, NEW p \in Nat, NEW q \in Nat, q * d <= p, p < q * d + d
    PROVE  p \div d = q
OBVIOUS
=============================================================================

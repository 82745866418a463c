------------------------------ MODULE Induction ------------------------------
(***************************************************************************)
(* Induction in first-order form.  The provers cannot instantiate a        *)
(* theorem that has a predicate for a parameter; these have the set of the *)
(* values that satisfy it.  They follow from the well-foundedness of < on  *)
(* the naturals and of strict inclusion on finite sets.  With them, what a *)
(* finite set of naturals is as an ordered list.                           *)
(***************************************************************************)
EXTENDS Integers, FiniteSets, FiniteSetTheorems, WellFoundedInduction, TLAPS

Smaller == {ss \in Nat \X Nat : ss[1] < ss[2]}

LEMMA SmallerWellFounded == IsWellFoundedOn(Smaller, Nat)
<1>1. OpToRel(<, Nat) = Smaller
    BY Zenon DEF OpToRel, Smaller
<1> QED BY Zenon, <1>1, NatLessThanWellFounded

\* A set of naturals that is not empty has a least element.
LEMMA LeastNat ==
    ASSUME NEW T \in SUBSET Nat, T # {}
    PROVE  \E n \in T : \A m \in T : n <= m
<1>1. PICK n \in T : \A m \in T : ~ (<<m, n>> \in Smaller)
    BY SmallerWellFounded, WFMin
<1>2. \A x, y \in Nat : y < x => <<y, x>> \in Smaller
    BY DEF Smaller
<1>3. ASSUME NEW m \in T PROVE n <= m
  <2>1. m \in Nat /\ n \in Nat
      OBVIOUS
  <2>2. ~ (<<m, n>> \in Smaller)
      BY <1>1
  <2>3. ~ (m < n)
      BY Zenon, <1>2, <2>1, <2>2
  <2> QED BY <2>1, <2>3
<1>4. \A m \in T : n <= m
    BY <1>3
<1> QED BY <1>4

\* Induction: S holds all naturals when it has 0 and, with n, n + 1.
LEMMA NatSetInduction ==
    ASSUME NEW S, 0 \in S, \A n \in Nat : n \in S => n + 1 \in S
    PROVE  \A n \in Nat : n \in S
<1> DEFINE T == Nat \ S
<1> SUFFICES ASSUME T # {} PROVE FALSE
    OBVIOUS
<1>1. PICK n \in T : \A m \in T : n <= m
    BY LeastNat
<1>2. n \in Nat /\ n # 0 /\ n - 1 \in Nat
    OBVIOUS
<1>3. n - 1 \notin T
    BY <1>1, <1>2
<1>4. (n - 1) + 1 \in S
    BY <1>2, <1>3
<1> QED BY <1>2, <1>4

\* Induction over the subsets of a finite set: Q has them all when it has every
\* one whose strict subsets it has.
LEMMA SubsetInduction ==
    ASSUME NEW S, IsFiniteSet(S), NEW Q,
           \A T \in SUBSET S : (\A U \in SUBSET T : U # T => U \in Q) => T \in Q
    PROVE  \A T \in SUBSET S : T \in Q
<1> DEFINE Bad == (SUBSET S) \ Q
<1> SUFFICES ASSUME Bad # {} PROVE FALSE
    OBVIOUS
<1>1. Bad \subseteq FiniteSubsetsOf(S)
    BY FS_Subset DEF FiniteSubsetsOf
<1>2. \E T \in Bad : \A U \in Bad : ~ (<<U, T>> \in StrictSubsetOrdering(S))
  <2> HIDE DEF Bad
  <2> QED BY <1>1, FS_StrictSubsetOrderingWellFounded, WFMin
<1>3. PICK T \in Bad : \A U \in Bad : ~ (<<U, T>> \in StrictSubsetOrdering(S))
    BY <1>2
<1>4. ASSUME NEW U \in SUBSET T, U # T PROVE U \in Q
  <2>1. <<U, T>> \in StrictSubsetOrdering(S)
      BY <1>4 DEF StrictSubsetOrdering
  <2>2. U \notin Bad
      BY Zenon, <1>3, <2>1
  <2> QED BY <2>2
<1> QED BY <1>4

-----------------------------------------------------------------------------
(* The elements of a finite set of naturals, in order. *)

\* A finite set of naturals that is not empty has a greatest element.
LEMMA GreatestNat ==
    ASSUME NEW S \in SUBSET Nat, IsFiniteSet(S)
    PROVE  \A T \in SUBSET S : T # {} => \E x \in T : \A y \in T : y <= x
<1> DEFINE Q == {T \in SUBSET S : T # {} => \E x \in T : \A y \in T : y <= x}
<1>1. ASSUME NEW T \in SUBSET S, \A U \in SUBSET T : U # T => U \in Q
      PROVE  T \in Q
  <2> SUFFICES ASSUME T # {} PROVE \E x \in T : \A y \in T : y <= x
      OBVIOUS
  <2>1. PICK z \in T : TRUE
      OBVIOUS
  <2>2. CASE T \ {z} = {}
    <3>1. z \in Nat /\ \A y \in T : y = z
        BY <2>1, <2>2
    <3> QED BY <2>1, <3>1
  <2>3. CASE T \ {z} # {}
    <3>1. PICK x \in T \ {z} : \A y \in T \ {z} : y <= x
      <4>1. T \ {z} \in Q
          BY <1>1, <2>1
      <4> QED BY <2>3, <4>1
    <3>2. x \in Nat /\ z \in Nat /\ \A y \in T : y \in Nat /\ (y = z \/ y <= x)
        BY <2>1, <3>1
    <3>3. CASE z <= x
        BY <3>1, <3>2, <3>3
    <3>4. CASE ~(z <= x)
      <4>1. \A y \in T : y <= z
          BY <3>2, <3>4
      <4> QED BY <2>1, <4>1
    <3> QED BY <3>3, <3>4
  <2> QED BY <2>2, <2>3
<1> HIDE DEF Q
<1>2. \A T \in SUBSET S : T \in Q
    BY <1>1, SubsetInduction
<1> QED BY <1>2 DEF Q

\* It has a first, a second, ... and a last element.
LEMMA KthExists ==
    ASSUME NEW S \in SUBSET Nat, IsFiniteSet(S)
    PROVE  \A k \in 1..Cardinality(S) : \E i \in S : Cardinality({j \in S : j < i}) = k - 1
<1> DEFINE Q == {T \in SUBSET S : \A k \in 1..Cardinality(T) :
                                    \E i \in T : Cardinality({j \in T : j < i}) = k - 1}
<1>1. ASSUME NEW T \in SUBSET S, \A U \in SUBSET T : U # T => U \in Q
      PROVE  T \in Q
  <2>1. CASE T = {}
      BY <2>1, FS_EmptySet
  <2>2. CASE T # {}
    <3>1. PICK x \in T : \A y \in T : y <= x
        BY <2>2, GreatestNat
    <3> DEFINE U == T \ {x}
    <3>2. Cardinality(T) \in Nat /\ Cardinality(U) = Cardinality(T) - 1
        BY FS_Subset, FS_CardinalityType, FS_RemoveElement
    <3>3. U \in Q
        BY <1>1
    <3>4. ASSUME NEW k \in 1..Cardinality(T)
          PROVE  \E i \in T : Cardinality({j \in T : j < i}) = k - 1
      <4>0. \A j \in T : j \in Nat /\ x \in Nat /\ j <= x
          BY <3>1
      <4>1. CASE k = Cardinality(T)
        <5>0. \A j \in T : j < x <=> j # x
            BY <4>0
        <5>1. {j \in T : j < x} = U
            BY <5>0
        <5> QED BY <3>2, <4>1, <5>1
      <4>2. CASE k # Cardinality(T)
        <5>1. k \in 1..Cardinality(U)
            BY <3>2, <3>4, <4>2
        <5>2. PICK i \in U : Cardinality({j \in U : j < i}) = k - 1
            BY <3>3, <5>1
        <5>3. {j \in T : j < i} = {j \in U : j < i}
            BY <4>0, <5>2
        <5> QED BY <5>2, <5>3
      <4> QED BY <4>1, <4>2
    <3> QED BY <3>4
  <2> QED BY <2>1, <2>2
<1> HIDE DEF Q
<1>2. S \in Q
    BY <1>1, SubsetInduction
<1> QED BY <1>2 DEF Q
=============================================================================

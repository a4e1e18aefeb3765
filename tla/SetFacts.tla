---------------------------- MODULE SetFacts ----------------------------
(***************************************************************************)
(* Smallest and largest elements of sets of numbers, and ranks in them.    *)
(***************************************************************************)
EXTENDS Integers, FiniteSetsExt, FiniteSetTheorems, TLAPS

\* The smallest element of a set of naturals, which the ascending scans of the
\* nodes take: it exists because the sets 0 .. x are finite and well-founded
\* under inclusion.
LEMMA MinOfNats ==
    ASSUME NEW S \in SUBSET Nat, S # {}
    PROVE  Min(S) \in S /\ \A x \in S : Min(S) <= x
<1> DEFINE T == {0 .. x : x \in S}
<1>1. T \subseteq FiniteSubsetsOf(Nat) /\ T # {}
  <2>1. \A x \in S : IsFiniteSet(0 .. x) /\ 0 .. x \subseteq Nat
    BY FS_Interval
  <2>2. \A x \in S : 0 .. x \in FiniteSubsetsOf(Nat)
    BY <2>1 DEF FiniteSubsetsOf
  <2> QED
    BY <2>2
<1>2. IsWellFoundedOn(StrictSubsetOrdering(Nat), FiniteSubsetsOf(Nat))
  BY FS_StrictSubsetOrderingWellFounded
<1> HIDE DEF T
<1>3. PICK X \in T : \A Y \in T : ~ (<<Y, X>> \in StrictSubsetOrdering(Nat))
  BY <1>1, <1>2, WFMin
<1>4. PICK x \in S : X = 0 .. x
  BY DEF T
<1>5. ASSUME NEW y \in S, y < x PROVE FALSE
  <2>1. 0 .. y \in T
    BY DEF T
  <2>2. 0 .. y \subseteq 0 .. x /\ x \notin 0 .. y /\ x \in 0 .. x /\ 0 .. y \subseteq Nat
    BY <1>5
  <2>3. <<0 .. y, X>> \in StrictSubsetOrdering(Nat)
    BY <2>2, <1>4 DEF StrictSubsetOrdering
  <2> QED
    BY <2>1, <2>3, <1>3
<1>6. \E z \in S : \A y \in S : z <= y
  BY <1>5
<1> QED
  BY <1>6 DEF Min

\* The largest element of a bounded set, which the descending scans take.
LEMMA MaxOfNats ==
    ASSUME NEW N \in Nat, NEW S \in SUBSET (0 .. N), S # {}
    PROVE  Max(S) \in S /\ \A x \in S : Max(S) >= x
<1> DEFINE T == {N - x : x \in S}
<1>1. T \in SUBSET Nat /\ T # {}
  <2>1. \A x \in S : N - x \in Nat
    OBVIOUS
  <2> QED
    BY <2>1
<1>2. Min(T) \in T /\ \A x \in T : Min(T) <= x
  BY <1>1, MinOfNats
<1> HIDE DEF T
<1>3. PICK x \in S : Min(T) = N - x
  BY <1>2 DEF T
<1>4. ASSUME NEW y \in S PROVE x >= y
  <2>1. N - y \in T
    BY DEF T
  <2> QED
    BY <2>1, <1>2, <1>3
<1> QED
  BY <1>4 DEF Max

\* The smallest element is the one that is not above another.
LEMMA MinIs ==
    ASSUME NEW S \in SUBSET Int, NEW x \in S, \A y \in S : x <= y
    PROVE  Min(S) = x
<1>1. Min(S) \in S /\ \A y \in S : Min(S) <= y
  BY DEF Min
<1>2. Min(S) \in Int /\ x \in Int
  BY <1>1
<1>3. Min(S) <= x /\ x <= Min(S)
  BY <1>1
<1> QED
  BY <1>2, <1>3

\* The largest element is the one that is not below another.
LEMMA MaxIs ==
    ASSUME NEW S \in SUBSET Int, NEW x \in S, \A y \in S : x >= y
    PROVE  Max(S) = x
<1>1. Max(S) \in S /\ \A y \in S : Max(S) >= y
  BY DEF Max
<1>2. Max(S) \in Int /\ x \in Int
  BY <1>1
<1>3. Max(S) >= x /\ x >= Max(S)
  BY <1>1
<1> QED
  BY <1>2, <1>3

\* The rank of an element in a set of numbers ascends with the element and takes
\* every number below the size of the set once.
LEMMA RankFacts ==
    ASSUME NEW N \in Nat, NEW S \in SUBSET (0 .. N)
    PROVE  LET rank(b) == Cardinality({x \in S : x < b})
           IN  /\ IsFiniteSet(S) /\ Cardinality(S) \in Nat
               /\ \A b \in S : rank(b) \in 0 .. Cardinality(S) - 1
               /\ \A a, b \in S : a < b => rank(a) < rank(b)
               /\ \A i \in 0 .. Cardinality(S) - 1 : \E b \in S : rank(b) = i
<1> DEFINE Below(b) == {x \in S : x < b}
           R == [b \in S |-> Cardinality(Below(b))]
           I == 0 .. Cardinality(S) - 1
<1>1. IsFiniteSet(S) /\ Cardinality(S) \in Nat
  <2>1. IsFiniteSet(0 .. N)
    BY FS_Interval
  <2> QED
    BY <2>1, FS_Subset, FS_CardinalityType
<1>2. ASSUME NEW b \in S
      PROVE  IsFiniteSet(Below(b)) /\ Cardinality(Below(b)) \in 0 .. Cardinality(S) - 1
  <2>1. Below(b) \in SUBSET S /\ b \notin Below(b)
    OBVIOUS
  <2>2. Below(b) # S
    BY <2>1
  <2> QED
    BY <1>1, <2>1, <2>2, FS_Subset, FS_CardinalityType
<1>3. ASSUME NEW a \in S, NEW b \in S, a < b
      PROVE  Cardinality(Below(a)) < Cardinality(Below(b))
  <2>1. Below(a) \subseteq Below(b) /\ a \in Below(b) /\ a \notin Below(a)
    <3>1. a \in Int /\ b \in Int /\ \A x \in S : x \in Int
      OBVIOUS
    <3>2. \A x \in S : x < a => x < b
      BY <1>3, <3>1
    <3>3. Below(a) \subseteq Below(b)
      BY <3>2
    <3>4. a \in Below(b)
      BY <1>3
    <3>5. a \notin Below(a)
      BY <3>1
    <3> QED
      BY <3>3, <3>4, <3>5
  <2>2. Below(a) # Below(b)
    BY <2>1
  <2> HIDE DEF Below
  <2>3. /\ IsFiniteSet(Below(b))
        /\ Cardinality(Below(a)) \in Nat /\ Cardinality(Below(b)) \in Nat
    BY <1>1, <1>2
  <2>4. Cardinality(Below(a)) <= Cardinality(Below(b)) /\ Cardinality(Below(a)) # Cardinality(Below(b))
    BY <2>1, <2>2, <2>3, FS_Subset
  <2> QED
    BY <2>3, <2>4 DEF Below
<1>4. \A b \in S : Cardinality(Below(b)) \in I
  BY <1>2
<1>5. R \in Injection(S, I)
  <2>1. ASSUME NEW a \in S, NEW b \in S, Cardinality(Below(a)) = Cardinality(Below(b)) PROVE a = b
    <3>1. Cardinality(Below(a)) \in Int /\ a \in Int /\ b \in Int
      BY <1>1, <1>4
    <3> QED
      BY <1>3, <2>1, <3>1
  <2> QED
    BY <1>4, <2>1 DEF Injection, IsInjective
<1>6. IsFiniteSet(I) /\ Cardinality(I) = Cardinality(S)
  <2>1. Cardinality(S) - 1 \in Int
    BY <1>1
  <2> QED
    BY <1>1, <2>1, FS_Interval
<1>7. R \in Surjection(S, I)
  BY <1>5, <1>6, FS_Injection
<1>8. \A i \in I : \E b \in S : Cardinality(Below(b)) = i
  BY <1>7 DEF Surjection
<1> QED
  BY <1>1, <1>3, <1>4, <1>8

=============================================================================

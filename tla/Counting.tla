------------------------------ MODULE Counting ------------------------------
(***************************************************************************)
(* Facts about finite sets and natural numbers that the proofs of this     *)
(* project share.                                                          *)
(***************************************************************************)
EXTENDS Integers, FiniteSets, FiniteSetTheorems, WellFoundedInduction, TLAPS

\* A set of naturals that is not empty has a least element.
LEMMA LeastNatural ==
  ASSUME NEW S, S \subseteq Nat, S # {}
  PROVE  \E n \in S : \A m \in S : n <= m
<1> DEFINE R == {x \in Nat \X Nat : x[1] < x[2]}
<1>1. IsWellFoundedOn(R, Nat)
  BY NatLessThanWellFounded DEF OpToRel
<1>2. PICK n \in S : \A m \in S : ~(<<m, n>> \in R)
  <2> HIDE DEF R
  <2> QED
    BY <1>1, WFMin
<1>3. ASSUME NEW m \in S PROVE ~(m < n)
  <2>1. m \in Nat /\ n \in Nat
    OBVIOUS
  <2>2. m < n => <<m, n>> \in R
    BY <2>1
  <2> QED
    BY <1>2, <2>2
<1> QED
  BY <1>3

\* Two finite sets with nothing in common count together.
LEMMA DisjointUnion ==
  ASSUME NEW S, NEW T, IsFiniteSet(S), IsFiniteSet(T), S \cap T = {}
  PROVE  /\ IsFiniteSet(S \cup T)
         /\ Cardinality(S \cup T) = Cardinality(S) + Cardinality(T)
<1>1. Cardinality({}) = 0
  BY FS_EmptySet
<1>2. Cardinality(S \cap T) = 0
  BY <1>1
<1>3. Cardinality(S) \in Nat /\ Cardinality(T) \in Nat
  BY FS_CardinalityType
<1>4. /\ IsFiniteSet(S \cup T)
      /\ Cardinality(S \cup T) = Cardinality(S) + Cardinality(T) - Cardinality(S \cap T)
  BY FS_Union
<1> QED
  BY <1>2, <1>3, <1>4

\* A block of n minor units of one row counts n.
LEMMA BlockOfUnits ==
  ASSUME NEW x, NEW n \in Nat
  PROVE  IsFiniteSet({x} \X (1 .. n)) /\ Cardinality({x} \X (1 .. n)) = n
<1>1. IsFiniteSet(1 .. n) /\ Cardinality(1 .. n) = n
  BY FS_Interval
<1>2. IsFiniteSet({x}) /\ Cardinality({x}) = 1
  BY FS_Singleton
<1> QED
  BY <1>1, <1>2, FS_Product

\* A set and a block of n units outside it.
LEMMA BlockAdded ==
  ASSUME NEW S, IsFiniteSet(S), NEW x, NEW n \in Nat,
         S \cap ({x} \X (1 .. n)) = {}
  PROVE  /\ IsFiniteSet(S \cup {x} \X (1 .. n))
         /\ Cardinality(S \cup {x} \X (1 .. n)) = Cardinality(S) + n
<1> DEFINE B == {x} \X (1 .. n)
<1>1. IsFiniteSet(B) /\ Cardinality(B) = n
  BY BlockOfUnits
<1>2. S \cap B = {}
  OBVIOUS
<1> HIDE DEF B
<1>3. IsFiniteSet(S \cup B) /\ Cardinality(S \cup B) = Cardinality(S) + Cardinality(B)
  BY <1>1, <1>2, DisjointUnion
<1> QED
  BY <1>1, <1>3 DEF B

\* In a finite set no function rises for ever.
LEMMA NoEndlessRise ==
  ASSUME NEW S, IsFiniteSet(S), S # {}, NEW f, \A p \in S : f[p] \in Nat,
         \A p \in S : \E q \in S : f[p] < f[q]
  PROVE  FALSE
<1> DEFINE Above(p) == {q \in S : f[p] < f[q]}
           Sizes == {n \in Nat : \E p \in S : n = Cardinality(Above(p))}
<1>1. \A p \in S : IsFiniteSet(Above(p)) /\ Cardinality(Above(p)) \in Nat
  <2>1. ASSUME NEW p \in S PROVE IsFiniteSet(Above(p))
    BY FS_Subset
  <2> QED
    BY <2>1, FS_CardinalityType
<1>2. Sizes \subseteq Nat /\ Sizes # {}
  BY <1>1
<1>3. PICK n \in Sizes : \A m \in Sizes : n <= m
  <2> HIDE DEF Sizes
  <2> QED
    BY <1>2, LeastNatural
<1>4. PICK p \in S : n = Cardinality(Above(p))
  BY <1>3
<1>5. PICK q \in S : f[p] < f[q]
  OBVIOUS
<1>6. Above(q) \subseteq Above(p) /\ q \in Above(p) /\ q \notin Above(q)
  BY <1>5
<1>7. Cardinality(Above(q)) <= n /\ Cardinality(Above(q)) # n
  <2> HIDE DEF Above
  <2> QED
    BY <1>1, <1>4, <1>6, FS_Subset
<1>8. Cardinality(Above(q)) \in Sizes
  BY <1>1
<1>9. n <= Cardinality(Above(q)) /\ Cardinality(Above(q)) \in Nat /\ n \in Nat
  BY <1>1, <1>3, <1>4, <1>8
<1> HIDE DEF Above
<1> QED
  BY <1>7, <1>9

\* The elements of S with fewer than n others before them in the order R.
BeforeIn(S, R, x) == {y \in S : <<y, x>> \in R}
FirstOf(S, R, n)  == {x \in S : Cardinality(BeforeIn(S, R, x)) < n}

\* Of a finite set in order they are at most n.
LEMMA FirstFew ==
  ASSUME NEW S, IsFiniteSet(S), NEW R, NEW n \in Nat,
         \A x \in S : <<x, x>> \notin R,
         \A x, y \in S : x = y \/ <<x, y>> \in R \/ <<y, x>> \in R,
         \A x, y, z \in S : <<x, y>> \in R /\ <<y, z>> \in R => <<x, z>> \in R
  PROVE  IsFiniteSet(FirstOf(S, R, n)) /\ Cardinality(FirstOf(S, R, n)) <= n
<1> DEFINE Below(x) == {y \in S : <<y, x>> \in R}
           First == {x \in S : Cardinality(Below(x)) < n}
           f == [x \in First |-> Cardinality(Below(x))]
<1>1. \A x \in S : IsFiniteSet(Below(x)) /\ Cardinality(Below(x)) \in Nat
  <2>1. ASSUME NEW x \in S PROVE IsFiniteSet(Below(x))
    BY FS_Subset
  <2> QED
    BY <2>1, FS_CardinalityType
<1>2. IsFiniteSet(First)
  BY FS_Subset
<1>3. ASSUME First # {} PROVE Cardinality(First) <= n
  <2>1. PICK x \in First : \A y \in First : ~(f[x] < f[y])
    <3>1. \A y \in First : f[y] \in Nat
      BY <1>1
    <3> HIDE DEF First, f
    <3> QED
      BY <1>2, <1>3, <3>1, NoEndlessRise
  <2>2. ASSUME NEW y \in First, y # x PROVE y \in Below(x)
    <3>1. SUFFICES ASSUME <<x, y>> \in R PROVE FALSE
      BY <2>2
    <3>2. Below(x) \subseteq Below(y) /\ x \in Below(y) /\ x \notin Below(x)
      BY <3>1
    <3>3. Cardinality(Below(x)) <= Cardinality(Below(y)) /\ Cardinality(Below(x)) # Cardinality(Below(y))
      <4>1. IsFiniteSet(Below(y))
        BY <1>1
      <4> HIDE DEF Below
      <4> QED
        BY <3>2, <4>1, FS_Subset
    <3>4. f[x] = Cardinality(Below(x)) /\ f[y] = Cardinality(Below(y))
      OBVIOUS
    <3>5. Cardinality(Below(x)) \in Nat /\ Cardinality(Below(y)) \in Nat
      BY <1>1
    <3>6. ~(f[x] < f[y])
      BY <2>1
    <3> HIDE DEF f, Below
    <3> QED
      BY <3>3, <3>4, <3>5, <3>6
  <2>3. First \subseteq Below(x) \cup {x}
    BY <2>2
  <2>4. IsFiniteSet(Below(x)) /\ Cardinality(Below(x)) \in Nat /\ Cardinality(Below(x)) < n /\ x \notin Below(x)
    BY <1>1
  <2> HIDE DEF Below, First
  <2>5. IsFiniteSet(Below(x) \cup {x}) /\ Cardinality(Below(x) \cup {x}) = Cardinality(Below(x)) + 1
    BY <2>4, FS_AddElement
  <2>6. Cardinality(First) <= Cardinality(Below(x)) + 1
    BY <2>3, <2>5, FS_Subset
  <2>7. Cardinality(First) \in Nat
    BY <1>2, FS_CardinalityType
  <2> QED
    BY <2>4, <2>6, <2>7
<1>4. Cardinality({}) = 0
  BY FS_EmptySet
<1> HIDE DEF First
<1>5. IsFiniteSet(First) /\ Cardinality(First) <= n
  BY <1>2, <1>3, <1>4
<1> QED
  BY <1>5 DEF First, FirstOf, BeforeIn

\* When fewer than n are first, they are all.
LEMMA FirstAreAll ==
  ASSUME NEW S, IsFiniteSet(S), NEW R, NEW n \in Nat,
         \A x \in S : <<x, x>> \notin R,
         \A x, y, z \in S : <<x, y>> \in R /\ <<y, z>> \in R => <<x, z>> \in R,
         Cardinality(FirstOf(S, R, n)) < n
  PROVE  FirstOf(S, R, n) = S
<1> DEFINE Below(x) == {y \in S : <<y, x>> \in R}
           First == {x \in S : Cardinality(Below(x)) < n}
           Sizes == {k \in Nat : \E x \in S \ First : k = Cardinality(Below(x))}
<1>1. \A x \in S : IsFiniteSet(Below(x)) /\ Cardinality(Below(x)) \in Nat
  <2>1. ASSUME NEW x \in S PROVE IsFiniteSet(Below(x))
    BY FS_Subset
  <2> QED
    BY <2>1, FS_CardinalityType
<1>2. First = FirstOf(S, R, n)
  <2>1. \A x \in S : Below(x) = BeforeIn(S, R, x)
    BY DEF BeforeIn
  <2>2. \A x : x \in First <=> x \in FirstOf(S, R, n)
    <3> HIDE DEF Below
    <3> QED
      BY <2>1, Zenon DEF FirstOf
  <2> HIDE DEF First
  <2> QED
    BY <2>2
<1>3. SUFFICES ASSUME S \ First # {} PROVE FALSE
  BY <1>2
<1>4. Sizes \subseteq Nat /\ Sizes # {}
  <2>1. PICK x \in S \ First : TRUE
    BY <1>3
  <2>2. Cardinality(Below(x)) \in Nat
    BY <1>1, <2>1
  <2>3. Cardinality(Below(x)) \in Sizes
    <3> HIDE DEF First, Below
    <3> QED
      BY <2>1, <2>2
  <2> QED
    BY <2>3
<1>5. PICK k \in Sizes : \A m \in Sizes : k <= m
  <2> HIDE DEF Sizes
  <2> QED
    BY <1>4, LeastNatural
<1>6. PICK x \in S \ First : k = Cardinality(Below(x))
  BY <1>5
\* All before the first that is missing are there.
<1>7. ASSUME NEW y \in Below(x), y \notin First PROVE FALSE
  <2>1. Below(y) \subseteq Below(x) /\ y \notin Below(y)
    BY <1>6, <1>7
  <2>2. Cardinality(Below(y)) <= Cardinality(Below(x)) /\ Cardinality(Below(y)) # Cardinality(Below(x))
    <3>1. IsFiniteSet(Below(x))
      BY <1>1
    <3> HIDE DEF Below
    <3> QED
      BY <1>7, <2>1, <3>1, FS_Subset
  <2>3. Cardinality(Below(y)) \in Sizes /\ Cardinality(Below(y)) \in Nat
    BY <1>1, <1>7
  <2>4. k <= Cardinality(Below(y)) /\ k \in Nat
    BY <1>5, <2>3
  <2> HIDE DEF Below
  <2> QED
    BY <1>6, <2>2, <2>3, <2>4
<1>8. IsFiniteSet(First) /\ Below(x) \subseteq First
  BY <1>7, FS_Subset
<1>9. ~(Cardinality(Below(x)) < n) /\ Cardinality(Below(x)) \in Nat
  BY <1>1, <1>6
<1> HIDE DEF First, Below
<1>10. Cardinality(Below(x)) <= Cardinality(First) /\ Cardinality(First) \in Nat
  BY <1>8, FS_Subset, FS_CardinalityType
<1> QED
  BY <1>2, <1>9, <1>10

\* Whatever is not first comes after all that is.
LEMMA FirstComeFirst ==
  ASSUME NEW S, IsFiniteSet(S), NEW R, NEW n \in Nat,
         \A x, y \in S : x = y \/ <<x, y>> \in R \/ <<y, x>> \in R,
         \A x, y, z \in S : <<x, y>> \in R /\ <<y, z>> \in R => <<x, z>> \in R,
         NEW x \in FirstOf(S, R, n), NEW y \in S, y \notin FirstOf(S, R, n)
  PROVE  <<x, y>> \in R
<1> DEFINE Below(z) == {u \in S : <<u, z>> \in R}
<1>1. /\ x \in S /\ Cardinality(Below(x)) < n
      /\ ~(Cardinality(Below(y)) < n)
  BY DEF FirstOf, BeforeIn
<1>2. SUFFICES ASSUME <<y, x>> \in R PROVE FALSE
  BY <1>1
<1>3. Below(y) \subseteq Below(x)
  BY <1>1, <1>2
<1>4. IsFiniteSet(Below(x))
  BY FS_Subset
<1> HIDE DEF Below
<1>5. /\ IsFiniteSet(Below(y)) /\ Cardinality(Below(y)) <= Cardinality(Below(x))
      /\ Cardinality(Below(x)) \in Nat /\ Cardinality(Below(y)) \in Nat
  BY <1>3, <1>4, FS_Subset, FS_CardinalityType
<1> QED
  BY <1>1, <1>5
=============================================================================

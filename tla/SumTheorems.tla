---------------------------- MODULE SumTheorems ----------------------------
(***************************************************************************)
(* What every sum of amounts in the models obeys.  The community modules   *)
(* define a sum by recursion over the subsets of the set summed, picking   *)
(* an element at each step; the lemmas show that such a function exists,   *)
(* that the set does not matter, nor the order, and that a part is never   *)
(* more than the whole.  The induction is over the number of elements,     *)
(* each time as a search for a least counterexample (WFMin).               *)
(***************************************************************************)
EXTENDS Integers, FiniteSets, Functions, FiniteSetTheorems, WellFoundedInduction, TLAPS

Counts(f, S) == IsFiniteSet(S) /\ \A x \in S : f[x] \in Nat

Picked(s) == CHOOSE x \in s : TRUE
Above(f, s, below) == IF s = {} THEN 0 ELSE f[Picked(s)] + below[s \ {Picked(s)}]
SumsUp(f, S, g) == g = [s \in SUBSET S |-> Above(f, s, g)]

\* A set of numbers that has a member has a least one.
LEMMA LeastMember ==
    ASSUME NEW T \in SUBSET Nat, T # {}
    PROVE  \E m \in T : \A k \in T : m <= k
<1> DEFINE R == OpToRel(<, Nat)
<1>1. PICK m \in T : \A k \in T : ~(<<k, m>> \in R)
  <2>1. IsWellFoundedOn(R, Nat)
    BY NatLessThanWellFounded, Zenon
  <2> HIDE DEF R
  <2> QED
    BY <2>1, WFMin, Zenon
<1>2. \A k \in T : k < m => <<k, m>> \in R
  BY DEF OpToRel
<1>3. \A k \in T : ~(k < m)
  BY <1>1, <1>2
<1> QED
  BY <1>3

\* The definition of the sum, unfolded to the function it chooses.
LEMMA SumIsChosen ==
    ASSUME NEW f, NEW S
    PROVE  SumFunctionOnSet(f, S) = (CHOOSE g : SumsUp(f, S, g))[S]
BY DEF SumFunctionOnSet, FoldFunctionOnSet, MapThenFoldSet, SumsUp, Above, Picked

\* A part of a finite set is finite, and loses one with each element taken out.
LEMMA SmallerPart ==
    ASSUME NEW S, IsFiniteSet(S), NEW s \in SUBSET S
    PROVE  /\ IsFiniteSet(s) /\ Cardinality(s) \in Nat /\ Cardinality(s) <= Cardinality(S)
           /\ \A x \in s : /\ s \ {x} \in SUBSET S
                           /\ Cardinality(s \ {x}) = Cardinality(s) - 1
           /\ s # {} => Picked(s) \in s /\ Cardinality(s) > 0
<1>1. IsFiniteSet(s) /\ Cardinality(s) \in Nat /\ Cardinality(s) <= Cardinality(S)
  BY FS_Subset, FS_CardinalityType
<1>2. \A x \in s : Cardinality(s \ {x}) = Cardinality(s) - 1
  BY <1>1, FS_RemoveElement
<1>3. s # {} => Picked(s) \in s
  BY DEF Picked
<1>4. s # {} => Cardinality(s) > 0
  BY <1>1, FS_EmptySet
<1> QED
  BY <1>1, <1>2, <1>3, <1>4

\* There is a function that sums the parts of S as the definition says.
LEMMA SumExists ==
    ASSUME NEW f, NEW S, Counts(f, S)
    PROVE  \E g \in [SUBSET S -> Nat] : SumsUp(f, S, g)
<1> DEFINE UpTo(k, g) == \A s \in SUBSET S : Cardinality(s) <= k => g[s] = Above(f, s, g)
           Bad == {k \in Nat : ~ \E g \in [SUBSET S -> Nat] : UpTo(k, g)}
<1>0. IsFiniteSet(S) /\ \A x \in S : f[x] \in Nat
  BY DEF Counts
<1>1. Bad = {}
  <2> SUFFICES ASSUME Bad # {} PROVE FALSE
    OBVIOUS
  <2>1. PICK k \in Bad : \A j \in Bad : k <= j
    <3>1. Bad \in SUBSET Nat
      OBVIOUS
    <3> HIDE DEF Bad
    <3> QED
      BY <3>1, LeastMember
  <2>2. CASE k = 0
    <3> DEFINE g == [s \in SUBSET S |-> 0]
    <3>1. g \in [SUBSET S -> Nat]
      OBVIOUS
    <3>2. UpTo(0, g)
      BY <1>0, SmallerPart DEF Above
    <3> QED
      BY <2>1, <2>2, <3>1, <3>2
  <2>3. CASE k # 0
    <3>1. k \in Nat /\ k - 1 \in Nat /\ k - 1 \notin Bad
      <4>1. k \in Nat
        BY <2>1
      <4>2. k - 1 \in Nat /\ ~(k <= k - 1)
        BY <2>3, <4>1
      <4> HIDE DEF Bad
      <4> QED
        BY <2>1, <4>1, <4>2
    <3>2. PICK h \in [SUBSET S -> Nat] : UpTo(k - 1, h)
      BY <3>1
    <3> DEFINE g == [s \in SUBSET S |-> IF Cardinality(s) <= k - 1 THEN h[s] ELSE Above(f, s, h)]
    <3>3. ASSUME NEW s \in SUBSET S PROVE Above(f, s, h) \in Nat
      <4>1. CASE s = {}
        BY <4>1 DEF Above
      <4>2. CASE s # {}
        <5>1. Picked(s) \in S /\ s \ {Picked(s)} \in SUBSET S
          BY <1>0, <4>2, SmallerPart
        <5> QED
          BY <1>0, <3>2, <4>2, <5>1 DEF Above
      <4> QED
        BY <4>1, <4>2
    <3>4. g \in [SUBSET S -> Nat]
      BY <3>2, <3>3
    <3>5. ASSUME NEW s \in SUBSET S, Cardinality(s) <= k PROVE g[s] = Above(f, s, h) /\ Above(f, s, g) = Above(f, s, h)
      <4>1. g[s] = Above(f, s, h)
        BY <3>2
      <4>2. CASE s = {}
        BY <4>1, <4>2 DEF Above
      <4>3. CASE s # {}
        <5> DEFINE r == s \ {Picked(s)}
        <5>1. r \in SUBSET S /\ Cardinality(r) <= k - 1
          BY <1>0, <3>1, <3>5, <4>3, SmallerPart
        <5>2. g[r] = h[r]
          BY <5>1
        <5> QED
          BY <4>1, <4>3, <5>2 DEF Above
      <4> QED
        BY <4>2, <4>3
    <3>6. UpTo(k, g)
      BY <3>5
    <3> QED
      BY <2>1, <3>4, <3>6
  <2> QED
    BY <2>2, <2>3
<1>2. PICK g \in [SUBSET S -> Nat] : UpTo(Cardinality(S), g)
  BY <1>0, <1>1, FS_CardinalityType
<1>3. \A s \in SUBSET S : g[s] = Above(f, s, g)
  BY <1>0, <1>2, SmallerPart
<1>4. SumsUp(f, S, g)
  BY <1>2, <1>3 DEF SumsUp
<1> QED
  BY <1>4

\* What a part sums to does not depend on the whole.
LEMMA SumIsUnique ==
    ASSUME NEW f, NEW S, IsFiniteSet(S), NEW T \in SUBSET S,
           NEW g, SumsUp(f, S, g), NEW h, SumsUp(f, T, h)
    PROVE  \A s \in SUBSET T : g[s] = h[s]
<1> DEFINE Bad == {k \in Nat : \E s \in SUBSET T : Cardinality(s) = k /\ g[s] # h[s]}
<1>0. /\ IsFiniteSet(T)
      /\ \A s \in SUBSET T : g[s] = Above(f, s, g) /\ h[s] = Above(f, s, h)
  BY FS_Subset DEF SumsUp
<1>1. Bad = {}
  <2> SUFFICES ASSUME Bad # {} PROVE FALSE
    OBVIOUS
  <2>1. PICK k \in Bad : \A j \in Bad : k <= j
    <3>1. Bad \in SUBSET Nat
      OBVIOUS
    <3> HIDE DEF Bad
    <3> QED
      BY <3>1, LeastMember
  <2>2. PICK s \in SUBSET T : Cardinality(s) = k /\ g[s] # h[s]
    BY <2>1
  <2>3. s # {}
    BY <1>0, <2>2 DEF Above
  <2> DEFINE r == s \ {Picked(s)}
  <2>4. r \in SUBSET T /\ Cardinality(r) = k - 1 /\ k - 1 \in Nat
    BY <1>0, <2>2, <2>3, SmallerPart
  <2>5. ~(k <= k - 1)
    BY <2>4
  <2>6. k - 1 \notin Bad
    <3> HIDE DEF Bad
    <3> QED
      BY <2>1, <2>5
  <2>7. g[r] = h[r]
    BY <2>4, <2>6
  <2> QED
    BY <1>0, <2>2, <2>3, <2>7 DEF Above
<1> QED
  BY <1>0, <1>1, FS_CardinalityType, FS_Subset

\* The sum of nothing, and the element that is picked.
LEMMA SumUnfolds ==
    ASSUME NEW f, NEW S, Counts(f, S)
    PROVE  /\ SumFunctionOnSet(f, S) \in Nat
           /\ S = {} => SumFunctionOnSet(f, S) = 0
           /\ S # {} => SumFunctionOnSet(f, S) = f[Picked(S)] + SumFunctionOnSet(f, S \ {Picked(S)})
<1> DEFINE Sum(T) == SumFunctionOnSet(f, T)
           g(T) == CHOOSE h : SumsUp(f, T, h)
<1>1. ASSUME NEW T \in SUBSET S
      PROVE  Counts(f, T) /\ SumsUp(f, T, g(T)) /\ g(T) \in [SUBSET T -> Nat] /\ Sum(T) = g(T)[T]
  <2>1. Counts(f, T)
    BY FS_Subset DEF Counts
  <2>2. PICK h \in [SUBSET T -> Nat] : SumsUp(f, T, h)
    BY <2>1, SumExists
  <2>3. SumsUp(f, T, g(T))
    BY <2>2
  <2>4. \A s \in SUBSET T : h[s] = g(T)[s]
    BY <2>1, <2>2, <2>3, SumIsUnique DEF Counts
  <2>5. g(T) \in [SUBSET T -> Nat]
    <3>1. g(T) = [s \in SUBSET T |-> g(T)[s]]
      BY <2>3 DEF SumsUp
    <3> QED
      BY <2>2, <2>4, <3>1
  <2>6. Sum(T) = g(T)[T]
    BY SumIsChosen
  <2> QED
    BY <2>1, <2>3, <2>5, <2>6
<1> HIDE DEF g, Sum
<1>2. Sum(S) = Above(f, S, g(S)) /\ Sum(S) \in Nat
  <2>1. SumsUp(f, S, g(S)) /\ g(S) \in [SUBSET S -> Nat] /\ Sum(S) = g(S)[S]
    BY <1>1
  <2>2. S \in SUBSET S
    OBVIOUS
  <2> QED
    BY <2>1, <2>2 DEF SumsUp
<1>3. S = {} => Sum(S) = 0
  BY <1>2 DEF Above
<1>4. ASSUME S # {} PROVE Sum(S) = f[Picked(S)] + Sum(S \ {Picked(S)})
  <2> DEFINE r == S \ {Picked(S)}
  <2>1. r \in SUBSET S
    OBVIOUS
  <2>2. g(S)[r] = g(r)[r]
    <3>1. IsFiniteSet(S) /\ SumsUp(f, S, g(S)) /\ SumsUp(f, r, g(r))
      BY <1>1, <2>1 DEF Counts
    <3> HIDE DEF r
    <3>2. \A s \in SUBSET r : g(S)[s] = g(r)[s]
      BY <2>1, <3>1, SumIsUnique
    <3> QED
      BY <3>2
  <2> QED
    BY <1>1, <1>2, <1>4, <2>1, <2>2 DEF Above
<1> QED
  BY <1>2, <1>3, <1>4 DEF Sum

\* What can be summed can be summed in part.
LEMMA CountsParts ==
    ASSUME NEW f, NEW S, Counts(f, S), NEW T \in SUBSET S
    PROVE  Counts(f, T)
BY FS_Subset DEF Counts

\* A sum of natural numbers is one.
LEMMA SumIsNatural ==
    ASSUME NEW f, NEW S, Counts(f, S)
    PROVE  SumFunctionOnSet(f, S) \in Nat
BY SumUnfolds

\* The empty sum.
LEMMA SumOfNothing ==
    ASSUME NEW f
    PROVE  SumFunctionOnSet(f, {}) = 0
BY SumUnfolds, FS_EmptySet DEF Counts

\* The order does not matter: any element may come first.
LEMMA SumWithout ==
    ASSUME NEW f, NEW S, Counts(f, S), NEW x \in S
    PROVE  SumFunctionOnSet(f, S) = f[x] + SumFunctionOnSet(f, S \ {x})
<1> DEFINE Sum(T) == SumFunctionOnSet(f, T)
           Bad == {k \in Nat : \E T \in SUBSET S : /\ Cardinality(T) = k
                                                  /\ \E y \in T : Sum(T) # f[y] + Sum(T \ {y})}
<1>0. IsFiniteSet(S) /\ \A y \in S : f[y] \in Nat
  BY DEF Counts
<1>a. \A R \in SUBSET S :
         /\ Sum(R) \in Nat
         /\ R # {} => Sum(R) = f[Picked(R)] + Sum(R \ {Picked(R)})
  BY CountsParts, SumUnfolds
<1> HIDE DEF Sum
<1>1. Bad = {}
  <2> SUFFICES ASSUME Bad # {} PROVE FALSE
    OBVIOUS
  <2>1. PICK k \in Bad : \A j \in Bad : k <= j
    <3>1. Bad \in SUBSET Nat
      OBVIOUS
    <3> HIDE DEF Bad
    <3> QED
      BY <3>1, LeastMember
  <2>20. PICK T \in SUBSET S : /\ Cardinality(T) = k
                               /\ \E y \in T : Sum(T) # f[y] + Sum(T \ {y})
    BY <2>1
  <2>2. PICK y \in T : Cardinality(T) = k /\ Sum(T) # f[y] + Sum(T \ {y})
    BY <2>20
  <2> DEFINE p == Picked(T)
  <2>3. /\ p \in T /\ T \ {p} \in SUBSET S /\ T \ {y} \in SUBSET S
        /\ Cardinality(T \ {p}) = k - 1 /\ Cardinality(T \ {y}) = k - 1 /\ k - 1 \in Nat
    BY <1>0, <2>2, SmallerPart
  <2>4. k - 1 \notin Bad
    <3>1. ~(k <= k - 1)
      BY <2>3
    <3> HIDE DEF Bad
    <3> QED
      BY <2>1, <3>1
  <2>5. Sum(T) = f[p] + Sum(T \ {p})
    <3>1. T # {}
      BY <2>2
    <3> QED
      BY <1>a, <2>20, <3>1
  <2>6. p # y
    BY <2>2, <2>5
  <2>7. Sum(T \ {p}) = f[y] + Sum((T \ {p}) \ {y}) /\ Sum(T \ {y}) = f[p] + Sum((T \ {y}) \ {p})
    BY <2>3, <2>4, <2>6
  <2>8. (T \ {p}) \ {y} = (T \ {y}) \ {p}
    OBVIOUS
  <2>9. Sum((T \ {p}) \ {y}) \in Nat /\ f[p] \in Nat /\ f[y] \in Nat
    <3>1. (T \ {p}) \ {y} \in SUBSET S /\ p \in S /\ y \in S
      BY <2>3
    <3> HIDE DEF p
    <3> QED
      BY <1>0, <1>a, <2>20, <3>1
  <2> QED
    BY <2>2, <2>5, <2>7, <2>8, <2>9
<1>2. Cardinality(S) \in Nat
  BY <1>0, FS_CardinalityType
<1> QED
  BY <1>1, <1>2 DEF Sum

\* A part is never more than the whole.
LEMMA SumOfPart ==
    ASSUME NEW f, NEW S, Counts(f, S), NEW T \in SUBSET S
    PROVE  SumFunctionOnSet(f, T) <= SumFunctionOnSet(f, S)
<1> DEFINE Sum(R) == SumFunctionOnSet(f, R)
           Bad == {k \in Nat : \E R \in SUBSET S : /\ Cardinality(R) = k /\ T \subseteq R
                                                  /\ ~(Sum(T) <= Sum(R))}
<1>0. IsFiniteSet(S) /\ \A y \in S : f[y] \in Nat
  BY DEF Counts
<1>a. \A R \in SUBSET S :
         /\ Sum(R) \in Nat
         /\ \A y \in R : Sum(R) = f[y] + Sum(R \ {y})
  BY CountsParts, SumIsNatural, SumWithout
<1> HIDE DEF Sum
<1>1. Bad = {}
  <2> SUFFICES ASSUME Bad # {} PROVE FALSE
    OBVIOUS
  <2>1. PICK k \in Bad : \A j \in Bad : k <= j
    <3>1. Bad \in SUBSET Nat
      OBVIOUS
    <3> HIDE DEF Bad
    <3> QED
      BY <3>1, LeastMember
  <2>2. PICK R \in SUBSET S : Cardinality(R) = k /\ T \subseteq R /\ ~(Sum(T) <= Sum(R))
    BY <2>1
  <2>3. R # T
    BY <1>a, <2>2
  <2>4. PICK y \in R : y \notin T
    BY <2>2, <2>3
  <2>5. R \ {y} \in SUBSET S /\ Cardinality(R \ {y}) = k - 1 /\ k - 1 \in Nat
    BY <1>0, <2>2, SmallerPart, FS_CardinalityType
  <2>6. k - 1 \notin Bad
    <3>1. ~(k <= k - 1)
      BY <2>5
    <3> HIDE DEF Bad
    <3> QED
      BY <2>1, <3>1
  <2>7. Sum(T) <= Sum(R \ {y})
    BY <2>2, <2>4, <2>5, <2>6
  <2>8. Sum(R) = f[y] + Sum(R \ {y}) /\ f[y] \in Nat /\ Sum(R \ {y}) \in Nat /\ Sum(T) \in Nat
    BY <1>0, <1>a, <2>5
  <2> QED
    BY <2>2, <2>7, <2>8
<1>2. Cardinality(S) \in Nat
  BY <1>0, FS_CardinalityType
<1> QED
  BY <1>1, <1>2 DEF Sum
=============================================================================

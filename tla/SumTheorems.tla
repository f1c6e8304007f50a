----------------------------- MODULE SumTheorems -----------------------------
(***************************************************************************)
(* Sums over finite sets, as the folds of the community modules compute    *)
(* them: an element is chosen, added, removed, and so on.  Whatever the    *)
(* choices, the result is the number of units there are, so it does not    *)
(* depend on them, and adding an element adds its units.                   *)
(***************************************************************************)
EXTENDS Integers, FiniteSets, Functions, FiniteSetTheorems, WellFoundedInduction, TLAPS

\* f[x] units of each element of S.
Units(f, S) == UNION {{x} \X (1..f[x]) : x \in S}

Count(f, S) == Cardinality(Units(f, S))

LEMMA UnitsOfOne ==
    ASSUME NEW x, NEW n \in Nat
    PROVE  IsFiniteSet({x} \X (1..n)) /\ Cardinality({x} \X (1..n)) = n
<1>1. IsFiniteSet({x}) /\ Cardinality({x}) = 1
  BY FS_Singleton
<1>2. IsFiniteSet(1..n) /\ Cardinality(1..n) = n
  BY FS_Interval
<1>3. /\ IsFiniteSet({x} \X (1..n))
      /\ Cardinality({x} \X (1..n)) = Cardinality({x}) * Cardinality(1..n)
  BY <1>1, <1>2, FS_Product, Zenon
<1>4. QED
  BY <1>1, <1>2, <1>3

LEMMA UnitsFinite ==
    ASSUME NEW S, IsFiniteSet(S), NEW f, \A x \in S : f[x] \in Nat
    PROVE  IsFiniteSet(Units(f, S)) /\ Count(f, S) \in Nat
<1> DEFINE h == [x \in S |-> {x} \X (1..f[x])]
           I == {h[x] : x \in S}
<1>1. h \in Surjection(S, I)
  BY DEF Surjection
<1>2. IsFiniteSet(I)
  BY <1>1, FS_Surjection
<1>3. ASSUME NEW T \in I
      PROVE  IsFiniteSet(T)
  <2>1. PICK x \in S : T = {x} \X (1..f[x])
    OBVIOUS
  <2>2. QED
    BY <2>1, UnitsOfOne
<1>4. IsFiniteSet(UNION I)
  BY <1>2, <1>3, FS_UNION
<1>5. Units(f, S) = UNION I
  BY DEF Units
<1>6. QED
  BY <1>4, <1>5, FS_CardinalityType DEF Count

\* The sum of nothing, and of one element more.
LEMMA CountEmpty == ASSUME NEW f PROVE Count(f, {}) = 0
<1>1. Units(f, {}) = {}
  BY DEF Units
<1>2. QED
  BY <1>1, FS_EmptySet DEF Count

LEMMA CountAdds ==
    ASSUME NEW S, IsFiniteSet(S), NEW f, \A y \in S : f[y] \in Nat, NEW x \in S
    PROVE  Count(f, S) = f[x] + Count(f, S \ {x})
<1> DEFINE A == {x} \X (1..f[x])
           B == Units(f, S \ {x})
<1>1. IsFiniteSet(A) /\ Cardinality(A) = f[x]
  BY UnitsOfOne
<1>2. IsFiniteSet(B) /\ Cardinality(B) \in Nat
  <2>1. IsFiniteSet(S \ {x})
    BY FS_RemoveElement
  <2>2. QED
    BY <2>1, UnitsFinite DEF Count
<1>3. Units(f, S) = A \cup B
  BY DEF Units
<1>4. A \cap B = {}
  BY DEF Units
<1> HIDE DEF A, B
<1>5. Cardinality(A \cup B) = Cardinality(A) + Cardinality(B) - Cardinality(A \cap B)
  BY <1>1, <1>2, FS_Union
<1>6. Cardinality(A \cap B) = 0
  BY <1>4, FS_EmptySet
<1>7. QED
  BY <1>1, <1>2, <1>3, <1>5, <1>6 DEF Count, B

\* Sums of functions that agree are equal.
LEMMA CountSame ==
    ASSUME NEW S, NEW f, NEW g, \A x \in S : f[x] = g[x]
    PROVE  Count(f, S) = Count(g, S)
<1>1. Units(f, S) = Units(g, S)
  BY DEF Units
<1>2. QED
  BY <1>1 DEF Count

\* next takes an element of every subset of S that has one.
Takes(next, S) == \A T \in SUBSET S : T # {} => next[T] \in T

\* What is good for the empty set, and for a set when it is good for what is left of
\* it without the element taken, is good for all: of the sets for which it is not,
\* one would be minimal.
LEMMA SubsetInduction ==
    ASSUME NEW S, IsFiniteSet(S), NEW next, Takes(next, S), NEW Good, {} \in Good,
           \A T \in SUBSET S : T # {} /\ T \ {next[T]} \in Good => T \in Good
    PROVE  SUBSET S \subseteq Good
<1> DEFINE Bad == (SUBSET S) \ Good
<1> SUFFICES ASSUME Bad # {} PROVE FALSE
  OBVIOUS
<1>1. IsWellFoundedOn(StrictSubsetOrdering(S), SUBSET S)
  BY FS_StrictSubsetOrderingWellFounded, FS_FiniteSubsetsOfFinite
<1>2. PICK T \in Bad : \A U \in Bad : <<U, T>> \notin StrictSubsetOrdering(S)
  <2> HIDE DEF Bad
  <2>1. Bad \subseteq SUBSET S
    BY DEF Bad
  <2>2. QED
    BY <1>1, <2>1, WFMin
<1>3. T \in SUBSET S /\ T # {} /\ next[T] \in T
  BY <1>2 DEF Takes
<1>4. <<T \ {next[T]}, T>> \in StrictSubsetOrdering(S)
  BY <1>3 DEF StrictSubsetOrdering
<1>5. T \ {next[T]} \in Good
  BY <1>2, <1>3, <1>4
<1>6. QED
  BY <1>2, <1>3, <1>5

\* d is nothing for the empty set, and grows by f[x] with x.
AddsUp(f, d, S) == d[{}] = 0 /\ \A T \in SUBSET S : \A x \in T : d[T] = f[x] + d[T \ {x}]

\* The community modules add up a function in an order of which nothing is known:
\* whatever the order, what adds up is what they get.
LEMMA SumIsUnique ==
    ASSUME NEW S, IsFiniteSet(S), NEW f, NEW d, DOMAIN f = S, AddsUp(f, d, S)
    PROVE  SumFunction(f) = d[S]
<1> DEFINE next == [T \in SUBSET S |-> CHOOSE x \in T : TRUE]
           Solves(g) == g = [T \in SUBSET S |->
                                IF T = {} THEN 0
                                ELSE LET x == CHOOSE x \in T : TRUE IN f[x] + g[T \ {x}]]
           c == [T \in SUBSET S |-> d[T]]
<1> USE DEF AddsUp
<1>1. Takes(next, S)
  BY DEF Takes
<1>2. ASSUME NEW T \in SUBSET S, T # {}
      PROVE  d[T] = f[next[T]] + d[T \ {next[T]}]
  <2>1. next[T] \in T
    BY <1>1, <1>2 DEF Takes
  <2> HIDE DEF next
  <2>2. QED
    BY <2>1
<1>3. Solves(c)
  BY <1>2
<1>4. PICK iter : Solves(iter) /\ SumFunction(f) = iter[S]
  BY <1>3 DEF SumFunction, SumFunctionOnSet, FoldFunctionOnSet, MapThenFoldSet
<1>5. \A T \in SUBSET S : iter[T] = IF T = {} THEN 0 ELSE f[next[T]] + iter[T \ {next[T]}]
  BY <1>4
<1> DEFINE Good == {T \in SUBSET S : iter[T] = d[T]}
<1>6. {} \in Good
  BY <1>5
<1>7. ASSUME NEW T \in SUBSET S, T # {}, T \ {next[T]} \in Good
      PROVE  T \in Good
  <2> HIDE DEF next, Solves
  <2>1. QED
    BY <1>2, <1>5, <1>7
<1> HIDE DEF Good, next
<1>8. SUBSET S \subseteq Good
  BY <1>1, <1>6, <1>7, SubsetInduction
<1>9. QED
  BY <1>4, <1>8 DEF Good

\* For natural numbers that is the number of units.
LEMMA SumIsCount ==
    ASSUME NEW S, IsFiniteSet(S), NEW f, DOMAIN f = S, \A x \in S : f[x] \in Nat
    PROVE  SumFunction(f) = Count(f, S)
<1> DEFINE c == [T \in SUBSET S |-> Count(f, T)]
<1>1. \A T \in SUBSET S : \A x \in T : Count(f, T) = f[x] + Count(f, T \ {x})
  BY FS_Subset, CountAdds
<1>2. \A T \in SUBSET S : \A x \in T : c[T] = f[x] + c[T \ {x}]
  BY <1>1
<1>3. c[{}] = 0 /\ c[S] = Count(f, S)
  BY CountEmpty
<1>4. AddsUp(f, c, S)
  BY <1>2, <1>3 DEF AddsUp
<1> HIDE DEF c
<1>5. SumFunction(f) = c[S]
  BY <1>4, SumIsUnique
<1>6. QED
  BY <1>3, <1>5

\* Sums of natural numbers are natural numbers.
LEMMA SumType ==
    ASSUME NEW S, IsFiniteSet(S), NEW f, DOMAIN f = S, \A x \in S : f[x] \in Nat
    PROVE  SumFunction(f) \in Nat
BY SumIsCount, UnitsFinite

\* What is above zero in a function, and what is below.
Gains(f) == [x \in DOMAIN f |-> IF f[x] > 0 THEN f[x] ELSE 0]
Losses(f) == [x \in DOMAIN f |-> IF f[x] < 0 THEN -f[x] ELSE 0]

\* Sums of integers are integers: the units gained less those lost.
LEMMA SumIntegers ==
    ASSUME NEW S, IsFiniteSet(S), NEW f, DOMAIN f = S, \A x \in S : f[x] \in Int
    PROVE  SumFunction(f) \in Int
<1> DEFINE g == Gains(f)
           l == Losses(f)
           c == [T \in SUBSET S |-> Count(g, T) - Count(l, T)]
<1>1. \A x \in S : g[x] \in Nat /\ l[x] \in Nat /\ f[x] = g[x] - l[x]
  BY DEF Gains, Losses
<1> HIDE DEF g, l
<1>2. \A T \in SUBSET S : Count(g, T) \in Nat /\ Count(l, T) \in Nat
  <2> SUFFICES ASSUME NEW T \in SUBSET S PROVE Count(g, T) \in Nat /\ Count(l, T) \in Nat
    OBVIOUS
  <2>1. IsFiniteSet(T)
    BY FS_Subset
  <2>2. QED
    BY <1>1, <2>1, UnitsFinite
<1>3. ASSUME NEW T \in SUBSET S, NEW x \in T
      PROVE  c[T] = f[x] + c[T \ {x}]
  <2>1. IsFiniteSet(T) /\ T \ {x} \in SUBSET S /\ x \in S
    BY FS_Subset
  <2>2. Count(g, T) = g[x] + Count(g, T \ {x})
    BY <1>1, <2>1, CountAdds
  <2>3. Count(l, T) = l[x] + Count(l, T \ {x})
    BY <1>1, <2>1, CountAdds
  <2>4. /\ Count(g, T \ {x}) \in Nat /\ Count(l, T \ {x}) \in Nat
        /\ g[x] \in Nat /\ l[x] \in Nat /\ f[x] = g[x] - l[x]
    BY <1>1, <1>2, <2>1
  <2>5. QED
    BY <2>1, <2>2, <2>3, <2>4
<1>4. c[{}] = 0 /\ c[S] \in Int
  BY <1>2, CountEmpty
<1> HIDE DEF c
<1>5. AddsUp(f, c, S)
  BY <1>3, <1>4 DEF AddsUp
<1>6. SumFunction(f) = c[S]
  BY <1>5, SumIsUnique
<1>7. QED
  BY <1>4, <1>6

=============================================================================

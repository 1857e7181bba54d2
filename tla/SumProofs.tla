------------------------------ MODULE SumProofs ------------------------------
(***************************************************************************)
(* What a sum over a finite set is: SumFunctionOnSet of the community      *)
(* modules picks the elements in an order of its own, and none of what     *)
(* follows depends on it.  Induction over the subsets of a finite set is   *)
(* by a smallest counterexample.                                           *)
(***************************************************************************)
EXTENDS Integers, Functions, FiniteSetTheorems, WellFoundedInduction, TLAPS

LEMMA SmallestSubset ==
    ASSUME NEW S, IsFiniteSet(S), NEW C \in SUBSET (SUBSET S), C # {}
    PROVE  \E T \in C : \A U \in C : U \subseteq T => U = T
<1>1. IsWellFoundedOn(StrictSubsetOrdering(S), SUBSET S)
  BY FS_StrictSubsetOrderingWellFounded, FS_FiniteSubsetsOfFinite
<1>2. PICK T \in C : \A U \in C : <<U, T>> \notin StrictSubsetOrdering(S)
  BY <1>1, WFMin
<1>3. ASSUME NEW U \in C, U \subseteq T, U # T
      PROVE  FALSE
  <2>1. <<U, T>> \in StrictSubsetOrdering(S)
    BY <1>3 DEF StrictSubsetOrdering
  <2> QED
    BY <1>2, <2>1
<1> QED
  BY <1>3

-----------------------------------------------------------------------------
Some(s) == CHOOSE x \in s : TRUE
Rest(s) == s \ {Some(s)}

IsSum(f, S, g) == g = [s \in SUBSET S |-> IF s = {} THEN 0 ELSE f[Some(s)] + g[Rest(s)]]
Sums(f, S) == CHOOSE g : IsSum(f, S, g)

LEMMA SumIs ==
    ASSUME NEW f, NEW S
    PROVE  SumFunctionOnSet(f, S) = Sums(f, S)[S]
BY DEF SumFunctionOnSet, FoldFunctionOnSet, MapThenFoldSet, Sums, IsSum, Some, Rest

LEMMA SomeRest ==
    ASSUME NEW s, s # {}
    PROVE  Some(s) \in s /\ Rest(s) \in SUBSET s /\ Rest(s) # s /\ Some(s) \notin Rest(s)
BY DEF Some, Rest

LEMMA SumEquation ==
    ASSUME NEW f, NEW S, NEW g, IsSum(f, S, g), NEW s \in SUBSET S
    PROVE  g[s] = IF s = {} THEN 0 ELSE f[Some(s)] + g[Rest(s)]
BY DEF IsSum

\* Two tables of sums agree where both are defined.
LEMMA SumUnique ==
    ASSUME NEW S, IsFiniteSet(S), NEW f, NEW h,
           \A x \in S : f[x] = h[x],
           NEW A, NEW B, NEW g, NEW k, IsSum(f, A, g), IsSum(h, B, k),
           S \subseteq A, S \subseteq B
    PROVE  g[S] = k[S]
<1> DEFINE C == {s \in SUBSET S : g[s] # k[s]}
<1> SUFFICES ASSUME C # {} PROVE FALSE
  OBVIOUS
<1>1. PICK T \in C : \A U \in C : U \subseteq T => U = T
  <2>1. C \in SUBSET (SUBSET S)
    OBVIOUS
  <2> HIDE DEF C
  <2> QED
    BY <2>1, SmallestSubset
<1>2. T # {}
  BY SumEquation
<1>3. Rest(T) \notin C /\ Rest(T) \in SUBSET S /\ Some(T) \in S
  BY <1>1, <1>2, SomeRest
<1>4. g[T] = f[Some(T)] + g[Rest(T)] /\ k[T] = h[Some(T)] + k[Rest(T)]
  BY <1>2, SumEquation
<1> QED
  BY <1>1, <1>3, <1>4

LEMMA SumExists ==
    ASSUME NEW S, IsFiniteSet(S), NEW f
    PROVE  IsSum(f, S, Sums(f, S))
<1> DEFINE C == {s \in SUBSET S : ~ IsSum(f, s, Sums(f, s))}
<1> SUFFICES ASSUME C # {} PROVE FALSE
  OBVIOUS
<1>1. PICK T \in C : \A U \in C : U \subseteq T => U = T
  <2>1. C \in SUBSET (SUBSET S)
    OBVIOUS
  <2> HIDE DEF C
  <2> QED
    BY <2>1, SmallestSubset
<1>2. \A s \in SUBSET T : s # T => IsSum(f, s, Sums(f, s))
  BY <1>1
<1>3. \A s \in SUBSET T : IsFiniteSet(s)
  BY FS_Subset
<1> DEFINE g == [s \in SUBSET T |-> IF s = {} THEN 0 ELSE f[Some(s)] + Sums(f, Rest(s))[Rest(s)]]
<1>4. ASSUME NEW s \in SUBSET T, s # {}
      PROVE  g[Rest(s)] = Sums(f, Rest(s))[Rest(s)]
  <2> DEFINE u == Rest(s)
  <2>1. u \in SUBSET T /\ u # T
    BY <1>4, SomeRest
  <2>2. Sums(f, u)[u] = IF u = {} THEN 0 ELSE f[Some(u)] + Sums(f, u)[Rest(u)]
    BY <1>2, <2>1, SumEquation
  <2>3. u # {} => Sums(f, u)[Rest(u)] = Sums(f, Rest(u))[Rest(u)]
    <3> SUFFICES ASSUME u # {} PROVE Sums(f, u)[Rest(u)] = Sums(f, Rest(u))[Rest(u)]
      OBVIOUS
    <3>1. Rest(u) \in SUBSET T /\ Rest(u) # T /\ Rest(u) \subseteq u
      BY <2>1, SomeRest
    <3>2. IsSum(f, u, Sums(f, u)) /\ IsSum(f, Rest(u), Sums(f, Rest(u))) /\ IsFiniteSet(Rest(u))
      BY <1>2, <1>3, <2>1, <3>1
    <3> QED
      BY <3>1, <3>2, SumUnique
  <2>4. g[u] = IF u = {} THEN 0 ELSE f[Some(u)] + Sums(f, Rest(u))[Rest(u)]
    BY <2>1
  <2> QED
    BY <2>2, <2>3, <2>4
<1>5. IsSum(f, T, g)
  <2>1. \A s \in SUBSET T : (IF s = {} THEN 0 ELSE f[Some(s)] + Sums(f, Rest(s))[Rest(s)])
                            = (IF s = {} THEN 0 ELSE f[Some(s)] + g[Rest(s)])
    BY <1>4
  <2> QED
    BY <2>1 DEF IsSum
<1>6. IsSum(f, T, Sums(f, T))
  BY <1>5 DEF Sums
<1> QED
  BY <1>1, <1>6

-----------------------------------------------------------------------------
(* The sum of f over S, for what follows.                                   *)

LEMMA SumStep ==
    ASSUME NEW S, IsFiniteSet(S), NEW f
    PROVE  SumFunctionOnSet(f, S) =
             IF S = {} THEN 0 ELSE f[Some(S)] + SumFunctionOnSet(f, Rest(S))
<1>1. Sums(f, S)[S] = IF S = {} THEN 0 ELSE f[Some(S)] + Sums(f, S)[Rest(S)]
  BY SumExists, SumEquation
<1>2. S # {} => Sums(f, S)[Rest(S)] = Sums(f, Rest(S))[Rest(S)]
  <2> SUFFICES ASSUME S # {} PROVE Sums(f, S)[Rest(S)] = Sums(f, Rest(S))[Rest(S)]
    OBVIOUS
  <2>1. Rest(S) \subseteq S /\ IsFiniteSet(Rest(S))
    BY SomeRest, FS_Subset
  <2>2. IsSum(f, S, Sums(f, S)) /\ IsSum(f, Rest(S), Sums(f, Rest(S)))
    BY <2>1, SumExists
  <2> QED
    BY <2>1, <2>2, SumUnique
<1> QED
  BY <1>1, <1>2, SumIs

\* Nothing adds up to nothing.
LEMMA SumEmpty == \A f : SumFunctionOnSet(f, {}) = 0
BY SumStep, FS_EmptySet

\* The sum depends on what is added up only.
LEMMA SumSame ==
    ASSUME NEW S, IsFiniteSet(S), NEW f, NEW h, \A x \in S : f[x] = h[x]
    PROVE  SumFunctionOnSet(f, S) = SumFunctionOnSet(h, S)
BY SumIs, SumExists, SumUnique

LEMMA SumType ==
    ASSUME NEW S, IsFiniteSet(S), NEW f, \A x \in S : f[x] \in Nat
    PROVE  SumFunctionOnSet(f, S) \in Nat
<1> DEFINE C == {s \in SUBSET S : SumFunctionOnSet(f, s) \notin Nat}
<1> SUFFICES ASSUME C # {} PROVE FALSE
  OBVIOUS
<1>1. PICK T \in C : \A U \in C : U \subseteq T => U = T
  <2>1. C \in SUBSET (SUBSET S)
    OBVIOUS
  <2> HIDE DEF C
  <2> QED
    BY <2>1, SmallestSubset
<1>2. T # {}
  <2>1. SumFunctionOnSet(f, {}) \in Nat
    BY SumEmpty
  <2> QED
    BY <1>1, <2>1
<1>3. Rest(T) \in SUBSET T /\ Rest(T) # T /\ Some(T) \in S /\ IsFiniteSet(T)
  BY <1>1, <1>2, SomeRest, FS_Subset
<1>4. SumFunctionOnSet(f, Rest(T)) \in Nat /\ f[Some(T)] \in Nat
  BY <1>1, <1>3
<1>5. SumFunctionOnSet(f, T) = f[Some(T)] + SumFunctionOnSet(f, Rest(T))
  BY <1>2, <1>3, SumStep
<1> QED
  BY <1>1, <1>4, <1>5

\* Which element is left out first makes no difference.
LEMMA SumRemove ==
    ASSUME NEW S, IsFiniteSet(S), NEW f, \A x \in S : f[x] \in Nat, NEW a \in S
    PROVE  SumFunctionOnSet(f, S) = f[a] + SumFunctionOnSet(f, S \ {a})
<1> DEFINE Sum(s) == SumFunctionOnSet(f, s)
           C == {s \in SUBSET S : \E x \in s : Sum(s) # f[x] + Sum(s \ {x})}
<1> SUFFICES ASSUME C # {} PROVE FALSE
  OBVIOUS
<1>1. PICK T \in C : \A U \in C : U \subseteq T => U = T
  <2>1. C \in SUBSET (SUBSET S)
    OBVIOUS
  <2> HIDE DEF C
  <2> QED
    BY <2>1, SmallestSubset
<1>2. PICK x \in T : Sum(T) # f[x] + Sum(T \ {x})
  BY <1>1
<1> DEFINE y == Some(T)
<1>3. y \in T /\ Rest(T) = T \ {y}
  BY <1>2, SomeRest DEF Rest
<1>4. \A s \in SUBSET S : IsFiniteSet(s) /\ Sum(s) \in Nat
  BY FS_Subset, SumType
<1>5. Sum(T) = f[y] + Sum(T \ {y})
  BY <1>3, <1>4, SumStep
<1>6. x # y
  BY <1>2, <1>5
<1>7. T \ {x} \notin C /\ T \ {y} \notin C
  BY <1>1, <1>2, <1>3
<1>8. Sum(T \ {y}) = f[x] + Sum((T \ {y}) \ {x})
  BY <1>2, <1>6, <1>7
<1>9. Sum(T \ {x}) = f[y] + Sum((T \ {x}) \ {y})
  BY <1>3, <1>6, <1>7
<1>10. (T \ {x}) \ {y} = (T \ {y}) \ {x}
  OBVIOUS
<1>11. f[x] \in Nat /\ f[y] \in Nat /\ Sum((T \ {y}) \ {x}) \in Nat
  BY <1>2, <1>3, <1>4
<1> HIDE DEF Sum, y
<1> QED
  BY <1>2, <1>5, <1>8, <1>9, <1>10, <1>11

LEMMA SumAdd ==
    ASSUME NEW S, IsFiniteSet(S), NEW a, a \notin S, NEW f, \A x \in S \cup {a} : f[x] \in Nat
    PROVE  SumFunctionOnSet(f, S \cup {a}) = f[a] + SumFunctionOnSet(f, S)
<1>1. IsFiniteSet(S \cup {a}) /\ (S \cup {a}) \ {a} = S
  BY FS_AddElement
<1> QED
  BY <1>1, SumRemove

\* A part adds up to no more than the whole.
LEMMA SumSubset ==
    ASSUME NEW S, IsFiniteSet(S), NEW f, \A x \in S : f[x] \in Nat, NEW T \in SUBSET S
    PROVE  SumFunctionOnSet(f, T) <= SumFunctionOnSet(f, S)
<1> DEFINE Sum(s) == SumFunctionOnSet(f, s)
           C == {s \in SUBSET S : \E u \in SUBSET s : ~(Sum(u) <= Sum(s))}
<1> SUFFICES ASSUME C # {} PROVE FALSE
  OBVIOUS
<1>1. PICK s \in C : \A u \in C : u \subseteq s => u = s
  <2>1. C \in SUBSET (SUBSET S)
    OBVIOUS
  <2> HIDE DEF C
  <2> QED BY <2>1, SmallestSubset
<1>2. PICK u \in SUBSET s : ~(Sum(u) <= Sum(s))
  BY <1>1
<1>3. IsFiniteSet(s) /\ IsFiniteSet(u) /\ \A x \in s : f[x] \in Nat
  BY <1>1, <1>2, FS_Subset
<1>4. Sum(s) \in Nat /\ Sum(u) \in Nat
  BY <1>2, <1>3, SumType
<1>5. PICK a \in s : a \notin u
  <2>1. u # s
    BY <1>2, <1>4
  <2> QED BY <2>1
<1> DEFINE z == s \ {a}
<1>6. z \in SUBSET S /\ z # s /\ z \subseteq s /\ u \in SUBSET z
  BY <1>1, <1>5
<1>7. z \notin C
  <2> HIDE DEF C, z
  <2> QED BY <1>1, <1>6
<1>8. Sum(u) <= Sum(z)
  BY <1>6, <1>7
<1>9. Sum(s) = f[a] + Sum(z) /\ f[a] \in Nat
  BY <1>3, <1>5, SumRemove
<1>10. Sum(z) \in Nat
  <2>1. IsFiniteSet(z) /\ \A x \in z : f[x] \in Nat
    BY <1>3, <1>6, FS_Subset
  <2> QED BY <2>1, SumType
<1> HIDE DEF z, Sum
<1> QED BY <1>2, <1>4, <1>8, <1>9, <1>10

\* Two sums that differ in one element only share the sum of the others.
LEMMA SumChange ==
    ASSUME NEW D, IsFiniteSet(D), NEW S \in SUBSET D, NEW T \in SUBSET D, NEW a \in D,
           NEW f, NEW h, \A x \in D : f[x] \in Nat /\ h[x] \in Nat,
           \A x \in D \ {a} : f[x] = h[x] /\ (x \in S <=> x \in T)
    PROVE  \E rest \in Nat :
              /\ SumFunctionOnSet(f, S) = (IF a \in S THEN f[a] ELSE 0) + rest
              /\ SumFunctionOnSet(h, T) = (IF a \in T THEN h[a] ELSE 0) + rest
<1> DEFINE rest == SumFunctionOnSet(f, S \ {a})
<1>1. IsFiniteSet(S) /\ IsFiniteSet(T) /\ IsFiniteSet(S \ {a})
  BY FS_Subset
<1>2. S \ {a} = T \ {a}
  OBVIOUS
<1>3. rest \in Nat /\ rest = SumFunctionOnSet(h, T \ {a})
  <2>1. \A x \in S \ {a} : f[x] = h[x] /\ f[x] \in Nat
    OBVIOUS
  <2> QED
    BY <1>1, <1>2, <2>1, SumSame, SumType
<1>4. SumFunctionOnSet(f, S) = (IF a \in S THEN f[a] ELSE 0) + rest
  <2>1. CASE a \in S
    <3>1. SumFunctionOnSet(f, S) = f[a] + SumFunctionOnSet(f, S \ {a})
      BY <1>1, <2>1, SumRemove
    <3> QED
      BY <2>1, <3>1
  <2>2. CASE a \notin S
    <3>1. S \ {a} = S
      BY <2>2
    <3>2. SumFunctionOnSet(f, S) = rest
      BY <3>1, Zenon
    <3> QED
      BY <1>3, <2>2, <3>2
  <2> QED
    BY <2>1, <2>2
<1>5. SumFunctionOnSet(h, T) = (IF a \in T THEN h[a] ELSE 0) + rest
  <2>1. CASE a \in T
    <3>1. SumFunctionOnSet(h, T) = h[a] + SumFunctionOnSet(h, T \ {a})
      BY <1>1, <2>1, SumRemove
    <3> QED
      BY <1>3, <2>1, <3>1
  <2>2. CASE a \notin T
    <3>1. T \ {a} = T
      BY <2>2
    <3>2. SumFunctionOnSet(h, T) = rest
      BY <1>3, <3>1, Zenon
    <3> QED
      BY <1>3, <2>2, <3>2
  <2> QED
    BY <2>1, <2>2
<1> QED
  BY <1>3, <1>4, <1>5

\* A finite set of naturals that is not empty has a largest element.
LEMMA LargestElement ==
    ASSUME NEW S, IsFiniteSet(S), S # {}
    PROVE  S \subseteq Nat => \E m \in S : \A x \in S : x <= m
<1> DEFINE Bounded(s) == \E m \in s : \A x \in s : x <= m
           C == {s \in SUBSET S : s # {} /\ ~ Bounded(s)}
<1>1. C # {} => \E T \in C : \A U \in C : U \subseteq T => U = T
  <2>1. C \in SUBSET (SUBSET S)
    OBVIOUS
  <2> HIDE DEF C, Bounded
  <2> QED
    BY <2>1, SmallestSubset
<1> SUFFICES ASSUME S \subseteq Nat, C # {} PROVE FALSE
  OBVIOUS
<1>0. PICK T \in C : \A U \in C : U \subseteq T => U = T
  BY <1>1
<1>2. PICK a \in T : TRUE
  OBVIOUS
<1>3. T \ {a} # {}
  BY <1>2
<1>4. PICK m \in T \ {a} : \A x \in T \ {a} : x <= m
  <2>1. T \ {a} \in SUBSET S /\ T \ {a} # T
    BY <1>2
  <2>2. Bounded(T \ {a})
    <3> HIDE DEF Bounded
    <3> QED
      BY <1>0, <1>3, <2>1
  <2> QED
    BY <2>2
<1>5. m \in Nat /\ a \in Nat /\ \A x \in T : x \in Nat
  BY <1>2
<1>6. CASE a <= m
  BY <1>4, <1>5, <1>6
<1>7. CASE ~ (a <= m)
  <2>1. \A x \in T : x <= a
    BY <1>4, <1>5, <1>7
  <2> QED
    BY <1>2, <2>1
<1> QED
  BY <1>6, <1>7

\* A set of naturals that is not empty has a least element.
LEMMA LeastOfNaturals ==
    ASSUME NEW T \in SUBSET Nat, T # {}
    PROVE  \E m \in T : \A n \in T : m <= n
<1>1. \E m \in T : \A n \in T : ~ (<<n, m>> \in OpToRel(<, Nat))
  BY NatLessThanWellFounded, WFMin
<1>2. PICK m \in T : \A n \in T : ~ (<<n, m>> \in OpToRel(<, Nat))
  BY <1>1
<1>3. \A n \in T : <<n, m>> \in OpToRel(<, Nat) <=> n < m
  BY DEF OpToRel
<1>4. \A n \in T : m <= n
  <2>1. \A n \in T : ~ (n < m)
    BY <1>2, <1>3
  <2>2. m \in Nat /\ \A n \in T : n \in Nat
    OBVIOUS
  <2> QED
    BY ONLY <2>1, <2>2
<1> QED
  BY <1>4
=============================================================================

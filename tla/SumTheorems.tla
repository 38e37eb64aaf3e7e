----------------------------- MODULE SumTheorems -----------------------------
(***************************************************************************)
(* Sums over finite sets.  The reports of the programs add up what each    *)
(* thread has counted; the models write such a sum as a fold over a        *)
(* function.  Here is what a fold of + gives, by induction on the set.     *)
(***************************************************************************)
EXTENDS Integers, FiniteSets, Functions, FiniteSetTheorems, WellFoundedInduction, TLAPS

\* The sum of f[x] for x in S.
Total(f, S) == FoldFunctionOnSet(LAMBDA x, y : x + y, 0, f, S)

\* The element that the fold takes out first, and the function it defines.
First(S) == CHOOSE x \in S : TRUE
Step(f, g, s) == IF s = {} THEN 0 ELSE f[First(s)] + g[s \ {First(s)}]
IsSum(f, S, g) == g = [s \in SUBSET S |-> Step(f, g, s)]

LEMMA TotalIsAFold ==
  ASSUME NEW f, NEW S
  PROVE  Total(f, S) = (CHOOSE g : IsSum(f, S, g))[S]
BY DEF Total, FoldFunctionOnSet, MapThenFoldSet, IsSum, Step, First

\* Induction on finite sets: among some subsets of a finite set there is one
\* of which no other is a part.
LEMMA MinimalSubset ==
  ASSUME NEW S, IsFiniteSet(S), NEW B \in SUBSET SUBSET S, B # {}
  PROVE  \E T \in B : \A U \in B : U \subseteq T => U = T
<1>1. IsWellFoundedOn(StrictSubsetOrdering(S), SUBSET S)
  BY FS_StrictSubsetOrderingWellFounded, FS_FiniteSubsetsOfFinite
<1>2. PICK T \in B : \A U \in B : ~ (<<U, T>> \in StrictSubsetOrdering(S))
  BY <1>1, WFMin
<1> QED
  BY <1>2 DEF StrictSubsetOrdering

\* Induction on the subsets of a finite set, for whoever has put those for
\* which something is shown into a set.
LEMMA SubsetInduction ==
  ASSUME NEW S, IsFiniteSet(S), NEW Good, {} \in Good,
         \A T \in SUBSET S : \A x \in T : T \ {x} \in Good => T \in Good
  PROVE  SUBSET S \subseteq Good
<1> DEFINE B == {T \in SUBSET S : T \notin Good}
<1>1. SUFFICES ASSUME B # {} PROVE FALSE
  OBVIOUS
<1>2. PICK T \in B : \A U \in B : U \subseteq T => U = T
  <2>1. B \in SUBSET SUBSET S
    OBVIOUS
  <2> HIDE DEF B
  <2> QED
    BY <1>1, <2>1, MinimalSubset
<1>3. PICK x \in T : TRUE
  OBVIOUS
<1>4. T \ {x} \in Good
  BY <1>2
<1> QED
  BY <1>4

\* Whatever the fold defines on the subsets of a set is the same on a smaller
\* one, and so the fold takes out one element after the other.
Unfolds(f, T) == Total(f, T) = IF T = {} THEN 0 ELSE f[First(T)] + Total(f, T \ {First(T)})

LEMMA TotalUnfoldsFrom ==
  ASSUME NEW f, NEW T, IsFiniteSet(T),
         \A U \in SUBSET T : U # T => Unfolds(f, U)
  PROVE  Unfolds(f, T)
<1> DEFINE G == [s \in SUBSET T |->
                   IF s = {} THEN 0 ELSE f[First(s)] + Total(f, s \ {First(s)})]
<1>1. \A s \in SUBSET T : s # {} => First(s) \in s
  BY DEF First
<1>2. IsSum(f, T, G)
  <2>1. ASSUME NEW s \in SUBSET T, s # {}
        PROVE  G[s \ {First(s)}] = Total(f, s \ {First(s)})
    <3> DEFINE u == s \ {First(s)}
    <3>1. u \in SUBSET T /\ u # T
      BY <1>1, <2>1
    <3>2. Unfolds(f, u)
      BY <3>1
    <3> QED
      BY <3>1, <3>2 DEF Unfolds
  <2>2. ASSUME NEW s \in SUBSET T
        PROVE  G[s] = Step(f, G, s)
    BY <2>1 DEF Step
  <2> HIDE DEF G
  <2>3. G = [s \in SUBSET T |-> G[s]]
    BY DEF G
  <2> QED
    BY <2>2, <2>3 DEF IsSum
<1> DEFINE g == CHOOSE g : IsSum(f, T, g)
<1> HIDE DEF G
<1>3. IsSum(f, T, g)
  BY <1>2
<1>4. Total(f, T) = g[T]
  BY TotalIsAFold
<1> HIDE DEF g
<1>5. \A s \in SUBSET T : g[s] = Step(f, g, s)
  BY <1>3 DEF IsSum
<1>6. \A s \in SUBSET T : s # T => g[s] = Total(f, s)
  <2> DEFINE B == {s \in SUBSET T : s # T /\ g[s] # Total(f, s)}
  <2>1. SUFFICES ASSUME B # {} PROVE FALSE
    OBVIOUS
  <2>2. PICK s \in B : \A u \in B : u \subseteq s => u = s
    <3>1. B \in SUBSET SUBSET T
      OBVIOUS
    <3> HIDE DEF B
    <3> QED
      BY <2>1, <3>1, MinimalSubset
  <2>3. s # {} => First(s) \in s
    BY <1>1
  <2>4. s # {} => g[s \ {First(s)}] = Total(f, s \ {First(s)})
    <3> DEFINE u == s \ {First(s)}
    <3> SUFFICES ASSUME s # {} PROVE u \notin B /\ u \in SUBSET T /\ u # T
      OBVIOUS
    <3> QED
      BY <2>2, <2>3
  <2>5. Unfolds(f, s)
    OBVIOUS
  <2> QED
    BY <1>5, <2>4, <2>5 DEF Step, Unfolds
<1>7. g[T] = Step(f, g, T)
  BY <1>5
<1>8. T # {} => T \ {First(T)} \in SUBSET T /\ T \ {First(T)} # T
  BY <1>1
<1> QED
  BY <1>4, <1>6, <1>7, <1>8 DEF Unfolds, Step

LEMMA TotalUnfolds ==
  ASSUME NEW f, NEW S, IsFiniteSet(S)
  PROVE  Unfolds(f, S)
<1> DEFINE B == {T \in SUBSET S : ~ Unfolds(f, T)}
<1>1. SUFFICES ASSUME B # {} PROVE FALSE
  OBVIOUS
<1>2. PICK T \in B : \A U \in B : U \subseteq T => U = T
  <2>1. B \in SUBSET SUBSET S
    OBVIOUS
  <2> HIDE DEF B
  <2> QED
    BY <1>1, <2>1, MinimalSubset
<1>3. IsFiniteSet(T)
  BY FS_Subset
<1>4. \A U \in SUBSET T : U # T => Unfolds(f, U)
  BY <1>2
<1> QED
  BY <1>3, <1>4, TotalUnfoldsFrom

\* The empty sum.
LEMMA TotalOfNothing == \A f : Total(f, {}) = 0
BY TotalUnfolds, FS_EmptySet DEF Unfolds

\* The order does not matter: any element may be taken out first.
TakesOut(f, S) == /\ Total(f, S) \in Int
                  /\ \A x \in S : Total(f, S) = f[x] + Total(f, S \ {x})

LEMMA TotalTakesOut ==
  ASSUME NEW f, NEW S, IsFiniteSet(S), \A x \in S : f[x] \in Int
  PROVE  TakesOut(f, S)
<1> DEFINE B == {T \in SUBSET S : ~ TakesOut(f, T)}
<1>1. SUFFICES ASSUME B # {} PROVE FALSE
  OBVIOUS
<1>2. PICK T \in B : \A U \in B : U \subseteq T => U = T
  <2>1. B \in SUBSET SUBSET S
    OBVIOUS
  <2> HIDE DEF B
  <2> QED
    BY <1>1, <2>1, MinimalSubset
<1>3. T \in SUBSET S /\ ~ TakesOut(f, T)
  OBVIOUS
<1>4. \A U \in SUBSET T : U # T => TakesOut(f, U)
  BY <1>2
<1> HIDE DEF B
<1>5. T # {}
  BY <1>3, TotalOfNothing DEF TakesOut
<1> DEFINE y == First(T)
<1>6. y \in T
  BY <1>5 DEF First
<1>7. Total(f, T) = f[y] + Total(f, T \ {y})
  <2>1. IsFiniteSet(T)
    BY <1>3, FS_Subset
  <2> QED
    BY <1>5, <2>1, TotalUnfolds DEF Unfolds
<1> HIDE DEF y
<1>8. TakesOut(f, T \ {y})
  BY <1>4, <1>6
<1>9. f[y] \in Int /\ Total(f, T) \in Int
  BY <1>3, <1>6, <1>7, <1>8 DEF TakesOut
<1>10. ASSUME NEW x \in T, x # y
       PROVE  Total(f, T) = f[x] + Total(f, T \ {x})
  <2>1. TakesOut(f, T \ {x})
    BY <1>4
  <2>2. (T \ {y}) \ {x} = (T \ {x}) \ {y} /\ x \in T \ {y} /\ y \in T \ {x}
    BY <1>6, <1>10
  <2>3. Total(f, T \ {y}) = f[x] + Total(f, (T \ {x}) \ {y})
    BY <1>8, <2>2 DEF TakesOut
  <2>4. Total(f, T \ {x}) = f[y] + Total(f, (T \ {x}) \ {y})
    BY <2>1, <2>2 DEF TakesOut
  <2>5. TakesOut(f, (T \ {x}) \ {y})
    BY <1>4, <1>6
  <2>6. f[x] \in Int
    BY <1>3
  <2> QED
    BY <1>7, <1>9, <2>3, <2>4, <2>5, <2>6 DEF TakesOut
<1> QED
  BY <1>3, <1>7, <1>9, <1>10 DEF TakesOut

\* A sum of integers is one, and of naturals a natural number.
LEMMA TotalType ==
  ASSUME NEW f, NEW S, IsFiniteSet(S), \A x \in S : f[x] \in Int
  PROVE  Total(f, S) \in Int
BY TotalTakesOut DEF TakesOut

LEMMA TotalRemove ==
  ASSUME NEW f, NEW S, IsFiniteSet(S), \A x \in S : f[x] \in Int, NEW x \in S
  PROVE  Total(f, S) = f[x] + Total(f, S \ {x})
BY TotalTakesOut DEF TakesOut

\* The sum is linear.
LEMMA TotalOfSums ==
  ASSUME NEW S, IsFiniteSet(S), NEW f, NEW g, NEW h,
         \A x \in S : f[x] \in Int /\ g[x] \in Int /\ h[x] = f[x] + g[x]
  PROVE  Total(h, S) = Total(f, S) + Total(g, S)
<1> DEFINE Good == {T \in SUBSET S : Total(h, T) = Total(f, T) + Total(g, T)}
<1>1. {} \in Good
  BY TotalOfNothing
<1>2. ASSUME NEW T \in SUBSET S, NEW x \in T, T \ {x} \in Good
      PROVE  T \in Good
  <2> DEFINE R == T \ {x}
  <2>1. IsFiniteSet(T) /\ IsFiniteSet(R)
    BY FS_Subset
  <2>2. \A y \in T : h[y] \in Int
    OBVIOUS
  <2>3. /\ Total(h, T) = h[x] + Total(h, R) /\ Total(f, T) = f[x] + Total(f, R)
        /\ Total(g, T) = g[x] + Total(g, R)
    BY <2>1, <2>2, TotalRemove
  <2>4. Total(f, R) \in Int /\ Total(g, R) \in Int
    BY <2>1, TotalType
  <2> QED
    BY <1>2, <2>3, <2>4
<1> HIDE DEF Good
<1>3. SUBSET S \subseteq Good
  BY <1>1, <1>2, SubsetInduction
<1> QED
  BY <1>3 DEF Good

LEMMA TotalOfMultiple ==
  ASSUME NEW S, IsFiniteSet(S), NEW a \in Int, NEW f, NEW g,
         \A x \in S : f[x] \in Int /\ g[x] = a * f[x]
  PROVE  Total(g, S) = a * Total(f, S)
<1> DEFINE Good == {T \in SUBSET S : Total(g, T) = a * Total(f, T)}
<1>1. {} \in Good
  BY TotalOfNothing
<1>2. ASSUME NEW T \in SUBSET S, NEW x \in T, T \ {x} \in Good
      PROVE  T \in Good
  <2> DEFINE R == T \ {x}
  <2>1. IsFiniteSet(T) /\ IsFiniteSet(R)
    BY FS_Subset
  <2>2. \A y \in T : g[y] \in Int
    OBVIOUS
  <2>3. Total(g, T) = g[x] + Total(g, R) /\ Total(f, T) = f[x] + Total(f, R)
    BY <2>1, <2>2, TotalRemove
  <2>4. Total(f, R) \in Int /\ Total(g, R) = a * Total(f, R)
    BY <1>2, <2>1, TotalType
  <2>5. f[x] \in Int /\ g[x] = a * f[x]
    OBVIOUS
  <2> HIDE DEF R
  <2>6. \A p, q \in Int : a * (p + q) = a * p + a * q
    OBVIOUS
  <2> QED
    BY <2>3, <2>4, <2>5, <2>6
<1> HIDE DEF Good
<1>3. SUBSET S \subseteq Good
  BY <1>1, <1>2, SubsetInduction
<1> QED
  BY <1>3 DEF Good

\* Functions that agree on a set have the same sum over it.
LEMMA TotalIsOfValues ==
  ASSUME NEW S, IsFiniteSet(S), NEW f, NEW g,
         \A x \in S : f[x] \in Int /\ g[x] = f[x]
  PROVE  Total(g, S) = Total(f, S)
<1> DEFINE Good == {T \in SUBSET S : Total(g, T) = Total(f, T)}
<1>1. {} \in Good
  BY TotalOfNothing
<1>2. ASSUME NEW T \in SUBSET S, NEW x \in T, T \ {x} \in Good
      PROVE  T \in Good
  <2>1. IsFiniteSet(T)
    BY FS_Subset
  <2>2. Total(f, T) = f[x] + Total(f, T \ {x}) /\ Total(g, T) = g[x] + Total(g, T \ {x})
    BY <2>1, TotalRemove
  <2> QED
    BY <1>2, <2>2
<1> HIDE DEF Good
<1>3. SUBSET S \subseteq Good
  BY <1>1, <1>2, SubsetInduction
<1> QED
  BY <1>3 DEF Good

\* A step that changes one element changes the sum by as much.
LEMMA TotalOfChange ==
  ASSUME NEW S, IsFiniteSet(S), NEW f, NEW g, NEW t \in S,
         \A x \in S : f[x] \in Int /\ g[x] \in Int,
         \A x \in S \ {t} : g[x] = f[x]
  PROVE  Total(g, S) = Total(f, S) + (g[t] - f[t])
<1>1. IsFiniteSet(S \ {t})
  BY FS_RemoveElement
<1>2. Total(g, S \ {t}) = Total(f, S \ {t})
  BY <1>1, TotalIsOfValues
<1>3. Total(f, S) = f[t] + Total(f, S \ {t}) /\ Total(g, S) = g[t] + Total(g, S \ {t})
  BY TotalRemove
<1>4. Total(f, S \ {t}) \in Int
  BY <1>1, TotalType
<1> QED
  BY <1>2, <1>3, <1>4

\* A sum of natural numbers is one, and no term is larger.
LEMMA TotalOfNaturals ==
  ASSUME NEW S, IsFiniteSet(S), NEW f, \A x \in S : f[x] \in Nat
  PROVE  /\ Total(f, S) \in Nat
         /\ \A x \in S : f[x] <= Total(f, S)
<1> DEFINE Good == {T \in SUBSET S : Total(f, T) \in Nat}
<1>1. {} \in Good
  BY TotalOfNothing
<1>2. ASSUME NEW T \in SUBSET S, NEW x \in T, T \ {x} \in Good
      PROVE  T \in Good
  <2>1. IsFiniteSet(T)
    BY FS_Subset
  <2>2. Total(f, T) = f[x] + Total(f, T \ {x})
    BY <2>1, TotalRemove
  <2> QED
    BY <1>2, <2>2
<1> HIDE DEF Good
<1>3. SUBSET S \subseteq Good
  BY <1>1, <1>2, SubsetInduction
<1>4. ASSUME NEW x \in S PROVE f[x] <= Total(f, S)
  <2>1. Total(f, S) = f[x] + Total(f, S \ {x})
    BY TotalRemove
  <2>2. Total(f, S \ {x}) \in Nat
    BY <1>3 DEF Good
  <2> QED
    BY <2>1, <2>2
<1> QED
  BY <1>3, <1>4 DEF Good

\* Larger terms, larger sum.
LEMMA TotalIsMonotonic ==
  ASSUME NEW S, IsFiniteSet(S), NEW f, NEW g,
         \A x \in S : f[x] \in Int /\ g[x] \in Int /\ f[x] <= g[x]
  PROVE  Total(f, S) <= Total(g, S)
<1> DEFINE d == [x \in S |-> g[x] - f[x]]
<1>1. \A x \in S : d[x] \in Nat
  OBVIOUS
<1>2. \A x \in S : f[x] \in Int /\ d[x] \in Int /\ g[x] = f[x] + d[x]
  OBVIOUS
<1> HIDE DEF d
<1>3. Total(d, S) \in Nat
  BY <1>1, TotalOfNaturals
<1>4. Total(g, S) = Total(f, S) + Total(d, S)
  BY <1>2, TotalOfSums
<1> QED
  BY <1>3, <1>4, TotalType

\* n times the same number.
LEMMA TotalOfConstant ==
  ASSUME NEW S, IsFiniteSet(S), NEW c \in Int, NEW f, \A x \in S : f[x] = c
  PROVE  Total(f, S) = Cardinality(S) * c
<1> DEFINE Good == {T \in SUBSET S : Total(f, T) = Cardinality(T) * c}
<1>1. {} \in Good
  BY TotalOfNothing, FS_EmptySet
<1>2. ASSUME NEW T \in SUBSET S, NEW x \in T, T \ {x} \in Good
      PROVE  T \in Good
  <2>1. IsFiniteSet(T)
    BY FS_Subset
  <2>2. Total(f, T) = c + Total(f, T \ {x})
    BY <2>1, TotalRemove
  <2>3. Cardinality(T \ {x}) = Cardinality(T) - 1 /\ Cardinality(T) \in Nat
    BY <2>1, FS_RemoveElement, FS_CardinalityType
  <2>4. \A n \in Nat : c + (n - 1) * c = n * c
    OBVIOUS
  <2> QED
    BY <1>2, <2>2, <2>3, <2>4
<1> HIDE DEF Good
<1>3. SUBSET S \subseteq Good
  BY <1>1, <1>2, SubsetInduction
<1> QED
  BY <1>3 DEF Good

-----------------------------------------------------------------------------
(* Squares *)

\* A term is at most the sum of them all, so the squares add up to no more
\* than the square of the sum.
LEMMA SquaresBelowSquare ==
  ASSUME NEW S, IsFiniteSet(S), NEW f, NEW q,
         \A x \in S : f[x] \in Nat /\ q[x] = f[x] * f[x]
  PROVE  Total(q, S) <= Total(f, S) * Total(f, S)
<1> DEFINE s == Total(f, S)
           g == [x \in S |-> s * f[x]]
<1>1. s \in Nat /\ \A x \in S : f[x] <= s
  BY TotalOfNaturals
<1> HIDE DEF s
<1>2. \A x \in S : q[x] \in Int /\ g[x] \in Int /\ q[x] <= g[x]
  <2>1. \A m, n \in Nat : m <= n => m * m \in Int /\ n * m \in Int /\ m * m <= n * m
    OBVIOUS
  <2> QED
    BY <1>1, <2>1
<1>3. \A x \in S : f[x] \in Int /\ g[x] = s * f[x]
  BY <1>1
<1> HIDE DEF g
<1>4. Total(q, S) <= Total(g, S)
  BY <1>2, TotalIsMonotonic
<1>5. Total(g, S) = s * Total(f, S)
  BY <1>1, <1>3, TotalOfMultiple
<1> QED
  BY <1>1, <1>4, <1>5 DEF s

AllSame(f, S) == \A x, y \in S : f[x] = f[y]

\* The mean of the squares is at least the square of the mean, and equal to it
\* only if all terms are the same.
LEMMA MeanOfSquares ==
  ASSUME NEW S, IsFiniteSet(S), S # {}, NEW f, NEW q,
         \A x \in S : f[x] \in Int /\ q[x] = f[x] * f[x]
  PROVE  /\ Total(f, S) * Total(f, S) <= Cardinality(S) * Total(q, S)
         /\ Total(f, S) * Total(f, S) = Cardinality(S) * Total(q, S) <=> AllSame(f, S)
<1> DEFINE n == Cardinality(S)
           s == Total(f, S)
           t == Total(q, S)
<1>1. n \in Nat \ {0}
  BY FS_EmptySet, FS_CardinalityType
<1>2. s \in Int /\ t \in Int /\ \A x \in S : q[x] \in Int
  <2>1. \A x \in S : q[x] \in Int
    OBVIOUS
  <2> QED
    BY <2>1, TotalType
<1> DEFINE D(x) == (n * f[x] - s) * (n * f[x] - s)
           p == [x \in S |-> (n * n) * q[x]]
           r == [x \in S |-> (-2 * n * s) * f[x]]
           c == [x \in S |-> s * s]
           e == [x \in S |-> p[x] + r[x]]
           d == [x \in S |-> D(x)]
<1> HIDE DEF n, s, t
<1>3. n * n \in Int /\ -2 * n * s \in Int /\ s * s \in Int
  BY <1>1, <1>2
<1>4. \A u \in Int : /\ (n * u - s) * (n * u - s) \in Nat
                     /\ (n * u - s) * (n * u - s)
                          = ((n * n) * (u * u) + (-2 * n * s) * u) + s * s
  BY <1>1, <1>2
<1>5. \A x \in S : /\ p[x] \in Int /\ r[x] \in Int /\ c[x] \in Int /\ d[x] \in Nat
                   /\ e[x] = p[x] + r[x] /\ d[x] = e[x] + c[x]
  <2> SUFFICES ASSUME NEW x \in S
               PROVE  /\ p[x] \in Int /\ r[x] \in Int /\ c[x] \in Int /\ d[x] \in Nat
                      /\ e[x] = p[x] + r[x] /\ d[x] = e[x] + c[x]
    OBVIOUS
  <2>1. /\ d[x] = D(x) /\ c[x] = s * s /\ e[x] = p[x] + r[x]
        /\ p[x] = (n * n) * (f[x] * f[x]) /\ r[x] = (-2 * n * s) * f[x]
    OBVIOUS
  <2>2. D(x) \in Nat /\ D(x) = ((n * n) * (f[x] * f[x]) + (-2 * n * s) * f[x]) + s * s
    BY <1>4
  <2>3. (n * n) * (f[x] * f[x]) \in Int /\ (-2 * n * s) * f[x] \in Int
    BY <1>3
  <2> HIDE DEF D, d, e, c, p, r
  <2> QED
    BY <1>3, <2>1, <2>2, <2>3
<1>6. Total(p, S) = (n * n) * t
  <2>1. \A x \in S : q[x] \in Int /\ p[x] = (n * n) * q[x]
    BY <1>2
  <2> HIDE DEF p
  <2> QED
    BY <1>3, <2>1, TotalOfMultiple DEF t
<1>7. Total(r, S) = (-2 * n * s) * s
  <2>1. \A x \in S : f[x] \in Int /\ r[x] = (-2 * n * s) * f[x]
    OBVIOUS
  <2> DEFINE a == -2 * n * s
  <2> HIDE DEF r, a
  <2>2. Total(r, S) = a * Total(f, S)
    BY <1>3, <2>1, TotalOfMultiple DEF a
  <2> QED
    BY <2>2 DEF a, s
<1>8. Total(c, S) = n * (s * s)
  BY <1>3, TotalOfConstant DEF n
<1> HIDE DEF p, r, c, e, d
<1>9. Total(d, S) = (Total(p, S) + Total(r, S)) + Total(c, S)
  <2>1. \A x \in S : e[x] \in Int
    BY <1>5
  <2>2. Total(e, S) = Total(p, S) + Total(r, S)
    BY <1>5, TotalOfSums
  <2>3. Total(d, S) = Total(e, S) + Total(c, S)
    BY <1>5, <2>1, TotalOfSums
  <2> QED
    BY <2>2, <2>3
<1>10. Total(d, S) \in Nat /\ \A x \in S : d[x] <= Total(d, S)
  BY <1>5, TotalOfNaturals
<1>11. Total(d, S) = n * (n * t - s * s)
  BY <1>1, <1>2, <1>6, <1>7, <1>8, <1>9
<1>12. s * s <= n * t
  BY <1>1, <1>2, <1>10, <1>11
<1>13. ASSUME s * s = n * t, NEW x \in S PROVE n * f[x] = s
  <2>1. Total(d, S) = 0
    BY <1>1, <1>2, <1>11, <1>13
  <2>2. d[x] = 0
    BY <1>5, <1>10, <2>1
  <2>3. (n * f[x] - s) * (n * f[x] - s) = 0
    BY <2>2 DEF d
  <2> DEFINE v == n * f[x] - s
  <2>4. v \in Int /\ v * v = 0
    BY <1>1, <1>2, <2>3
  <2>5. v = 0
    <3> HIDE DEF v
    <3> QED
      BY <2>4
  <2>6. n * f[x] \in Int
    BY <1>1
  <2>7. \A u, w \in Int : u - w = 0 => u = w
    OBVIOUS
  <2> QED
    BY <1>2, <2>5, <2>6, <2>7
<1>14. ASSUME s * s = n * t, NEW x \in S, NEW y \in S PROVE f[x] = f[y]
  <2>1. n * f[x] = n * f[y]
    BY <1>13, <1>14
  <2>2. \A u, v \in Int : n * u = n * v => u = v
    BY <1>1
  <2> QED
    BY <2>1, <2>2
<1>15. ASSUME \A x, y \in S : f[x] = f[y] PROVE s * s = n * t
  <2>1. PICK x \in S : TRUE
    OBVIOUS
  <2>2. (\A y \in S : f[y] = f[x] /\ q[y] = f[x] * f[x]) /\ f[x] * f[x] \in Int
    BY <1>15
  <2>3. s = n * f[x] /\ t = n * (f[x] * f[x])
    BY <2>2, TotalOfConstant DEF n, s, t
  <2> QED
    BY <1>1, <2>3
<1> QED
  BY <1>12, <1>14, <1>15 DEF n, s, t, AllSame
=============================================================================

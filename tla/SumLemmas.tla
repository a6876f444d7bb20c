---- MODULE SumLemmas ----
(***************************************************************************)
(* Sums over finite sets, as MapThenSumSet of the community modules        *)
(* computes them: it picks the elements one by one, and what is shown here *)
(* is that the order in which it does makes no difference.                 *)
(*                                                                         *)
(* The recursion is over the subsets of a set, so its properties are       *)
(* proved by induction over their number of elements; the induction is on  *)
(* a set of numbers, since no theorem about a predicate can be applied.    *)
(***************************************************************************)
EXTENDS Naturals, FiniteSets, FiniteSetsExt, FiniteSetTheorems, WellFoundedInduction, TLAPS

\* A set of natural numbers that is not empty has a least one.
LEMMA LeastNumber ==
    ASSUME NEW S \in SUBSET Nat, S # {}
    PROVE  \E m \in S : \A n \in S : m <= n
<1>1. IsWellFoundedOn(OpToRel(<, Nat), Nat)
  BY NatLessThanWellFounded
<1>2. PICK m \in S : \A n \in S : <<n, m>> \notin OpToRel(<, Nat)
  BY <1>1, WFMin
<1>3. \A n \in S : ~(n < m)
  BY <1>2 DEF OpToRel
<1> QED
  BY <1>3

\* Induction, for a set of numbers.
LEMMA NumberInduction ==
    ASSUME NEW T \in SUBSET Nat, 0 \in T, \A n \in T : n + 1 \in T
    PROVE  T = Nat
<1>1. SUFFICES ASSUME Nat \ T # {} PROVE FALSE
  OBVIOUS
<1>2. PICK m \in Nat \ T : \A n \in Nat \ T : m <= n
  BY <1>1, LeastNumber
<1>3. m - 1 \in Nat /\ (m - 1) + 1 = m
  BY <1>2
<1> QED
  BY <1>2, <1>3

----
\* The sum of what w has for each element of S.
Sum(w, S) == LET weight(x) == w[x] IN MapThenSumSet(weight, S)

\* The element that the recursion takes out.
Picked(s) == CHOOSE x \in s : TRUE
\* One round of it, when f has the sums of the smaller sets.
Round(w, f, s) == IF s = {} THEN 0 ELSE w[Picked(s)] + f[s \ {Picked(s)}]

\* f has the sums of all subsets of R.
Solves(w, f, R) == \A s \in SUBSET R : f[s] = Round(w, f, s)

\* What is left after one is taken out is smaller.
LEMMA RoundSmaller ==
    ASSUME NEW R, IsFiniteSet(R), NEW s \in SUBSET R
    PROVE  /\ IsFiniteSet(s) /\ Cardinality(s) \in Nat /\ Cardinality(s) <= Cardinality(R)
           /\ s # {} => /\ Picked(s) \in s
                        /\ s \ {Picked(s)} \in SUBSET R
                        /\ Cardinality(s \ {Picked(s)}) = Cardinality(s) - 1
           /\ s = {} <=> Cardinality(s) = 0
<1>1. IsFiniteSet(s) /\ Cardinality(s) \in Nat /\ Cardinality(s) <= Cardinality(R)
  BY FS_Subset, FS_CardinalityType
<1>2. s # {} => Picked(s) \in s
  BY DEF Picked
<1>3. s # {} => Cardinality(s \ {Picked(s)}) = Cardinality(s) - 1
  BY <1>1, <1>2, FS_RemoveElement
<1>4. s = {} <=> Cardinality(s) = 0
  BY <1>1, FS_EmptySet
<1> QED
  BY <1>1, <1>2, <1>3, <1>4

\* Round with its cases apart.
LEMMA RoundIs ==
    ASSUME NEW w, NEW f, NEW s
    PROVE  /\ s = {} => Round(w, f, s) = 0
           /\ s # {} => Round(w, f, s) = w[Picked(s)] + f[s \ {Picked(s)}]
BY DEF Round

\* The recursion has a solution.
LEMMA SumExists ==
    ASSUME NEW w, NEW R, IsFiniteSet(R)
    PROVE  \E f : f = [s \in SUBSET R |-> Round(w, f, s)]
<1> DEFINE P == SUBSET R
           Upto(f, n) == \A s \in P : Cardinality(s) <= n => f[s] = Round(w, f, s)
           T == {n \in Nat : \E f : Upto(f, n)}
           rest(s) == s \ {Picked(s)}
<1>1. \A s \in P : /\ Cardinality(s) \in Nat /\ Cardinality(s) <= Cardinality(R)
                   /\ s # {} => rest(s) \in P /\ Cardinality(rest(s)) = Cardinality(s) - 1
                   /\ s = {} <=> Cardinality(s) = 0
  BY RoundSmaller
<1>2. \A f, s : /\ s = {} => Round(w, f, s) = 0
                /\ s # {} => Round(w, f, s) = w[Picked(s)] + f[rest(s)]
  BY RoundIs
<1> HIDE DEF P, rest
<1>3. 0 \in T
  <2> DEFINE f == [s \in P |-> 0]
  <2>1. ASSUME NEW s \in P, Cardinality(s) <= 0
        PROVE  f[s] = Round(w, f, s)
    <3>1. s = {}
      BY <1>1, <2>1
    <3> QED
      BY <1>2, <3>1
  <2> HIDE DEF f
  <2> QED
    BY <2>1
<1>4. ASSUME NEW n \in T PROVE n + 1 \in T
  <2>1. PICK f : Upto(f, n)
    OBVIOUS
  <2> DEFINE g == [s \in P |-> IF Cardinality(s) <= n THEN f[s] ELSE Round(w, f, s)]
  <2>2. ASSUME NEW s \in P, Cardinality(s) <= n + 1
        PROVE  g[s] = Round(w, g, s)
    <3>1. g[s] = Round(w, f, s)
      BY <2>1
    <3>2. CASE s = {}
      BY <1>2, <3>1, <3>2
    <3>3. CASE s # {}
      <4>1. rest(s) \in P /\ Cardinality(rest(s)) <= n
        BY <1>1, <2>2, <3>3
      <4>2. g[rest(s)] = f[rest(s)]
        BY <4>1
      <4> HIDE DEF g
      <4> QED
        BY <1>2, <3>1, <3>3, <4>2
    <3> QED
      BY <3>2, <3>3
  <2> HIDE DEF g
  <2>3. Upto(g, n + 1)
    BY <2>2
  <2> HIDE DEF Upto
  <2> QED
    BY <2>3
<1>5. T = Nat
  <2> HIDE DEF T
  <2> QED
    BY <1>3, <1>4, NumberInduction DEF T
<1>6. Cardinality(R) \in Nat
  BY FS_CardinalityType
<1>7. PICK f : Upto(f, Cardinality(R))
  BY <1>5, <1>6
<1> DEFINE sum == [s \in P |-> f[s]]
<1>8. ASSUME NEW s \in P PROVE sum[s] = Round(w, sum, s)
  <2>1. sum[s] = Round(w, f, s)
    BY <1>1, <1>7
  <2>2. s # {} => sum[rest(s)] = f[rest(s)]
    BY <1>1
  <2> HIDE DEF sum
  <2> QED
    BY <1>2, <2>1, <2>2
<1>9. sum = [s \in P |-> Round(w, sum, s)]
  <2>1. sum = [s \in P |-> sum[s]]
    OBVIOUS
  <2> HIDE DEF sum
  <2> QED
    BY <1>8, <2>1
<1> QED
  BY <1>9 DEF P

\* So the sum is what the recursion computes.
LEMMA SumIsSolution ==
    ASSUME NEW w, NEW R, IsFiniteSet(R)
    PROVE  \E f : Solves(w, f, R) /\ Sum(w, R) = f[R]
<1> DEFINE sum == CHOOSE f : f = [s \in SUBSET R |-> Round(w, f, s)]
<1>1. Sum(w, R) = sum[R]
  BY DEF Sum, MapThenSumSet, MapThenFoldSet, Round, Picked
<1> HIDE DEF sum
<1>2. sum = [s \in SUBSET R |-> Round(w, sum, s)]
  BY SumExists DEF sum
<1>3. Solves(w, sum, R)
  BY <1>2 DEF Solves
<1> QED
  BY <1>1, <1>3

\* Any two solutions agree.
LEMMA SolutionsAgree ==
    ASSUME NEW w, NEW R, IsFiniteSet(R), NEW f, NEW g, Solves(w, f, R), Solves(w, g, R)
    PROVE  f[R] = g[R]
<1> DEFINE T == {n \in Nat : \A s \in SUBSET R : Cardinality(s) = n => f[s] = g[s]}
<1>1. ASSUME NEW s \in SUBSET R, Cardinality(s) = 0 PROVE f[s] = g[s]
  <2>1. s = {}
    BY <1>1, RoundSmaller
  <2>2. f[s] = Round(w, f, s) /\ g[s] = Round(w, g, s)
    BY DEF Solves
  <2> QED
    BY <2>1, <2>2, RoundIs
<1>2. 0 \in T
  BY <1>1
<1>3. ASSUME NEW n \in T PROVE n + 1 \in T
  <2>1. ASSUME NEW s \in SUBSET R, Cardinality(s) = n + 1 PROVE f[s] = g[s]
    <3> DEFINE rest == s \ {Picked(s)}
    <3>1. s # {} /\ rest \in SUBSET R /\ Cardinality(rest) = n
      BY <2>1, RoundSmaller
    <3>2. f[rest] = g[rest]
      BY <3>1
    <3>3. f[s] = Round(w, f, s) /\ g[s] = Round(w, g, s)
      BY DEF Solves
    <3>4. f[s] = w[Picked(s)] + f[rest] /\ g[s] = w[Picked(s)] + g[rest]
      BY <3>1, <3>3 DEF Round
    <3> QED
      BY <3>2, <3>4
  <2> QED
    BY <2>1
<1>4. T = Nat
  <2> HIDE DEF T
  <2> QED
    BY <1>2, <1>3, NumberInduction DEF T
<1>5. Cardinality(R) \in Nat
  BY RoundSmaller
<1> QED
  BY <1>4, <1>5

\* The sum depends on nothing but the weights of what is added up.
LEMMA SumSame ==
    ASSUME NEW R, IsFiniteSet(R), NEW w, NEW v, \A x \in R : w[x] = v[x]
    PROVE  Sum(w, R) = Sum(v, R)
<1>1. PICK f : Solves(w, f, R) /\ Sum(w, R) = f[R]
  BY SumIsSolution
<1>2. PICK g : Solves(v, g, R) /\ Sum(v, R) = g[R]
  BY SumIsSolution
<1>3. ASSUME NEW s \in SUBSET R PROVE Round(w, f, s) = Round(v, f, s)
  <2>1. s # {} => Picked(s) \in R
    BY RoundSmaller
  <2> QED
    BY <2>1 DEF Round
<1>4. Solves(v, f, R)
  BY <1>1, <1>3 DEF Solves
<1>5. f[R] = g[R]
  BY <1>2, <1>4, SolutionsAgree
<1> QED
  BY <1>1, <1>2, <1>5

\* The sum of none, and of some: one that is picked and the rest.
LEMMA SumRound ==
    ASSUME NEW w, NEW R, IsFiniteSet(R)
    PROVE  /\ R = {} => Sum(w, R) = 0
           /\ R # {} => /\ Picked(R) \in R
                        /\ Sum(w, R) = w[Picked(R)] + Sum(w, R \ {Picked(R)})
<1>1. PICK f : Solves(w, f, R) /\ Sum(w, R) = f[R]
  BY SumIsSolution
<1>2. f[R] = Round(w, f, R)
  BY <1>1 DEF Solves
<1>3. ASSUME R # {}
      PROVE  Picked(R) \in R /\ Sum(w, R) = w[Picked(R)] + Sum(w, R \ {Picked(R)})
  <2> DEFINE rest == R \ {Picked(R)}
  <2>1. Picked(R) \in R /\ rest \subseteq R /\ IsFiniteSet(rest)
    BY <1>3, RoundSmaller, FS_Subset
  <2>2. f[R] = w[Picked(R)] + f[rest]
    BY <1>2, <1>3 DEF Round
  <2> HIDE DEF rest
  <2>3. PICK g : Solves(w, g, rest) /\ Sum(w, rest) = g[rest]
    BY <2>1, SumIsSolution
  <2>4. Solves(w, f, rest)
    BY <1>1, <2>1 DEF Solves
  <2>5. f[rest] = g[rest]
    BY <2>1, <2>3, <2>4, SolutionsAgree
  <2> QED
    BY <1>1, <2>1, <2>2, <2>3, <2>5 DEF rest
<1> QED
  BY <1>1, <1>2, <1>3 DEF Round

\* There is something to add up, and it is finite.
Weighs(w, S) == IsFiniteSet(S) /\ \A x \in S : w[x] \in Nat

\* The order in which elements are picked makes no difference.
LEMMA SumWithout ==
    ASSUME NEW w, NEW R, Weighs(w, R)
    PROVE  /\ Sum(w, R) \in Nat
           /\ \A x \in R : Sum(w, R) = w[x] + Sum(w, R \ {x}) /\ Sum(w, R \ {x}) \in Nat
<1> DEFINE Good(s) == /\ Sum(w, s) \in Nat
                      /\ \A x \in s : /\ Sum(w, s) = w[x] + Sum(w, s \ {x})
                                       /\ Sum(w, s \ {x}) \in Nat
           T == {n \in Nat : \A s \in SUBSET R : Cardinality(s) = n => Good(s)}
<1>1. /\ IsFiniteSet(R)
      /\ \A s \in SUBSET R : /\ IsFiniteSet(s) /\ Cardinality(s) \in Nat
                             /\ s = {} <=> Cardinality(s) = 0
                             /\ \A x \in s : Cardinality(s \ {x}) = Cardinality(s) - 1
                             /\ s = {} => Sum(w, s) = 0
                             /\ s # {} => /\ Picked(s) \in s
                                          /\ Sum(w, s) = w[Picked(s)] + Sum(w, s \ {Picked(s)})
  BY RoundSmaller, FS_RemoveElement, SumRound DEF Weighs
<1>2. \A x \in R : w[x] \in Nat
  BY DEF Weighs
<1>3. 0 \in T
  <2>1. ASSUME NEW s \in SUBSET R, Cardinality(s) = 0 PROVE Good(s)
    <3>1. s = {}
      BY <1>1, <2>1
    <3> QED
      BY <1>1, <3>1
  <2> HIDE DEF Good
  <2> QED
    BY <2>1
<1>4. ASSUME NEW n \in T PROVE n + 1 \in T
  <2>1. ASSUME NEW s \in SUBSET R, Cardinality(s) = n + 1 PROVE Good(s)
    <3> DEFINE c == Picked(s)
    <3>1. ASSUME NEW x \in s PROVE s \ {x} \in SUBSET R /\ Cardinality(s \ {x}) = n
      <4>1. Cardinality(s \ {x}) = Cardinality(s) - 1 /\ n \in Nat
        BY <1>1
      <4> QED
        BY <2>1, <4>1
    <3>2. \A x \in s : Good(s \ {x})
      <4> HIDE DEF Good
      <4> QED
        BY <3>1
    <3>3. s # {} /\ c \in s /\ Sum(w, s) = w[c] + Sum(w, s \ {c})
      BY <1>1, <2>1
    <3> HIDE DEF c
    <3>4. Sum(w, s) \in Nat
      BY <1>2, <3>2, <3>3
    <3>5. ASSUME NEW x \in s PROVE Sum(w, s) = w[x] + Sum(w, s \ {x})
      <4>1. CASE x = c
        BY <3>3, <4>1
      <4>2. CASE x # c
        <5> DEFINE both == (s \ {c}) \ {x}
        <5>1. both = (s \ {x}) \ {c}
          OBVIOUS
        <5>2. Sum(w, s \ {c}) = w[x] + Sum(w, both)
          BY <3>2, <3>3, <4>2
        <5>3. Sum(w, s \ {x}) = w[c] + Sum(w, both)
          BY <3>2, <3>3, <4>2, <5>1
        <5>4. Sum(w, both) \in Nat
          BY <3>2, <3>3, <4>2
        <5> HIDE DEF both
        <5> QED
          BY <1>2, <3>3, <5>2, <5>3, <5>4
      <4> QED
        BY <4>1, <4>2
    <3>6. \A x \in s : Sum(w, s \ {x}) \in Nat
      BY <3>2
    <3> QED
      BY <3>4, <3>5, <3>6
  <2> HIDE DEF Good
  <2> QED
    BY <2>1
<1>5. T = Nat
  <2> HIDE DEF T
  <2> QED
    BY <1>3, <1>4, NumberInduction DEF T
<1>6. Good(R)
  <2> HIDE DEF Good
  <2> QED
    BY <1>1, <1>5
<1> QED
  BY <1>6

\* A sum with one element more.
LEMMA SumWith ==
    ASSUME NEW w, NEW R, Weighs(w, R), NEW x, x \notin R, w[x] \in Nat
    PROVE  Weighs(w, R \cup {x}) /\ Sum(w, R \cup {x}) = w[x] + Sum(w, R)
<1>1. Weighs(w, R \cup {x})
  BY FS_AddElement DEF Weighs
<1>2. (R \cup {x}) \ {x} = R
  OBVIOUS
<1> QED
  BY <1>1, <1>2, SumWithout

\* The sum of one, and that of two.
LEMMA SumOne ==
    ASSUME NEW w, NEW x, w[x] \in Nat
    PROVE  Sum(w, {x}) = w[x]
<1>1. Weighs(w, {x}) /\ {x} \ {x} = {}
  BY FS_Singleton DEF Weighs
<1>2. Sum(w, {x} \ {x}) = 0
  BY <1>1, FS_EmptySet, SumRound
<1> QED
  BY <1>1, <1>2, SumWithout

\* Some are no more than all.
LEMMA SumOfSome ==
    ASSUME NEW w, NEW R, Weighs(w, R), NEW S \in SUBSET R
    PROVE  Weighs(w, S) /\ Sum(w, S) \in Nat /\ Sum(w, S) <= Sum(w, R)
<1> DEFINE Below(s) == \A t \in SUBSET s : Sum(w, t) <= Sum(w, s)
           T == {n \in Nat : \A s \in SUBSET R : Cardinality(s) = n => Below(s)}
<1>1. \A s \in SUBSET R : /\ Weighs(w, s) /\ Cardinality(s) \in Nat
                          /\ s = {} <=> Cardinality(s) = 0
                          /\ \A x \in s : Cardinality(s \ {x}) = Cardinality(s) - 1
  BY RoundSmaller, FS_RemoveElement DEF Weighs
<1>2. \A s \in SUBSET R : /\ Sum(w, s) \in Nat /\ (s = {} => Sum(w, s) = 0)
                          /\ \A x \in s : Sum(w, s) = w[x] + Sum(w, s \ {x})
  <2> SUFFICES ASSUME NEW s \in SUBSET R
               PROVE  /\ Sum(w, s) \in Nat /\ (s = {} => Sum(w, s) = 0)
                      /\ \A x \in s : Sum(w, s) = w[x] + Sum(w, s \ {x})
    OBVIOUS
  <2>1. Weighs(w, s) /\ IsFiniteSet(s)
    BY <1>1 DEF Weighs
  <2>2. Sum(w, s) \in Nat /\ \A x \in s : Sum(w, s) = w[x] + Sum(w, s \ {x})
    BY <2>1, SumWithout
  <2>3. s = {} => Sum(w, s) = 0
    BY <2>1, SumRound
  <2> QED
    BY <2>2, <2>3
<1>3. 0 \in T
  <2>1. ASSUME NEW s \in SUBSET R, Cardinality(s) = 0, NEW t \in SUBSET s
        PROVE  Sum(w, t) <= Sum(w, s)
    <3>1. s = {} /\ t = {}
      BY <1>1, <2>1
    <3> QED
      BY <1>2, <3>1
  <2> QED
    BY <2>1
<1>4. ASSUME NEW n \in T PROVE n + 1 \in T
  <2>1. ASSUME NEW s \in SUBSET R, Cardinality(s) = n + 1, NEW t \in SUBSET s
        PROVE  Sum(w, t) <= Sum(w, s)
    <3>1. CASE t = {}
      BY <1>2, <3>1
    <3>2. CASE t # {}
      <4>1. PICK x \in t : TRUE
        BY <3>2
      <4> DEFINE u == s \ {x}
                 v == t \ {x}
      <4>2. u \in SUBSET R /\ v \in SUBSET u /\ v \in SUBSET R /\ Cardinality(u) = n
        BY <1>1, <2>1
      <4>3. Sum(w, s) = w[x] + Sum(w, u) /\ Sum(w, t) = w[x] + Sum(w, v)
        BY <1>2
      <4> HIDE DEF u, v
      <4>4. Sum(w, v) <= Sum(w, u)
        BY <4>2
      <4>5. Sum(w, v) \in Nat /\ Sum(w, u) \in Nat /\ w[x] \in Nat
        BY <1>2, <4>2 DEF Weighs
      <4> QED
        BY <4>3, <4>4, <4>5
    <3> QED
      BY <3>1, <3>2
  <2> QED
    BY <2>1
<1>5. T = Nat
  <2> HIDE DEF T
  <2> QED
    BY <1>3, <1>4, NumberInduction DEF T
<1>6. Below(R)
  <2> HIDE DEF Below
  <2> QED
    BY <1>1, <1>5
<1> QED
  BY <1>1, <1>2, <1>6

\* Among finitely many there is one of the greatest weight: the others are least.
LEMMA Greatest ==
    ASSUME NEW w, NEW R, Weighs(w, R), R # {}
    PROVE  \E x \in R : \A y \in R : w[y] <= w[x]
<1> DEFINE others(x) == Sum(w, R \ {x})
           S == {others(x) : x \in R}
<1>1. \A x \in R : others(x) \in Nat /\ Sum(w, R) = w[x] + others(x) /\ w[x] \in Nat
  BY SumWithout DEF Weighs
<1> HIDE DEF others
<1>2. PICK m \in S : \A n \in S : m <= n
  <2>1. S \in SUBSET Nat /\ S # {}
    BY <1>1
  <2> HIDE DEF S
  <2> QED
    BY <2>1, LeastNumber
<1>3. PICK x \in R : m = others(x)
  OBVIOUS
<1>4. ASSUME NEW y \in R PROVE w[y] <= w[x]
  <2>1. others(x) <= others(y)
    BY <1>2, <1>3
  <2> QED
    BY <1>1, <2>1
<1> QED
  BY <1>4
====

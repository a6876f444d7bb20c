---- MODULE LeaseOrderProofs ----
(***************************************************************************)
(* LeaseOrder and FairQueue for any number of workloads, any queue and any *)
(* bounds: the loop of _Registry.order() serves everybody once and in the  *)
(* rotation, and nobody is bypassed more often than it explains.           *)
(***************************************************************************)
EXTENDS FairQueue, SumLemmas

----
\* Numbers.

\* What % is next to zero, where the rotation needs it.
LEMMA Remainder ==
    ASSUME NEW x \in Int, NEW n \in Nat \ {0}
    PROVE  /\ 0 <= x /\ x < n => x % n = x
           /\ -n <= x /\ x < 0 => x % n = x + n
           /\ x = n => x % n = 0
BY SMTT(20)

----
\* The rotation.

\* The turns until a workload is reached, without %.
LEMMA TurnsAre ==
    ASSUME NEW index \in Kind, NEW k \in Kind
    PROVE  Turns(index, k) = IF index <= k THEN k - index ELSE k - index + NKinds
BY Remainder, NKindsAssumption DEF Turns, Kind

\* The next workload is one, and the first after the last.
LEMMA AfterIs ==
    ASSUME NEW k \in Kind
    PROVE  /\ After(k) \in Kind
           /\ After(k) = IF k = NKinds - 1 THEN 0 ELSE k + 1
BY Remainder, NKindsAssumption DEF After, Kind

\* Two workloads have different turns.  When the rotation goes on behind w, w is
\* the last one and whoever came after it comes sooner.
LEMMA TurnsAdvance ==
    ASSUME NEW index \in Kind, NEW w \in Kind, NEW k \in Kind
    PROVE  /\ Turns(index, k) \in 0 .. NKinds - 1
           /\ Turns(index, k) = Turns(index, w) => k = w
           /\ Turns(After(w), w) = NKinds - 1
           /\ Turns(index, k) > Turns(index, w)
                => Turns(After(w), k) = Turns(index, k) - Turns(index, w) - 1
<1>1. /\ index \in 0 .. NKinds - 1 /\ w \in 0 .. NKinds - 1 /\ k \in 0 .. NKinds - 1
      /\ NKinds \in Nat \ {0} /\ After(w) \in 0 .. NKinds - 1
  BY AfterIs, NKindsAssumption DEF Kind
<1>2. /\ Turns(index, k) = IF index <= k THEN k - index ELSE k - index + NKinds
      /\ Turns(index, w) = IF index <= w THEN w - index ELSE w - index + NKinds
      /\ Turns(After(w), k) = IF After(w) <= k THEN k - After(w) ELSE k - After(w) + NKinds
      /\ Turns(After(w), w) = IF After(w) <= w THEN w - After(w) ELSE w - After(w) + NKinds
      /\ After(w) = IF w = NKinds - 1 THEN 0 ELSE w + 1
  BY TurnsAre, AfterIs
<1> QED
  BY <1>1, <1>2

\* The rotation starts with a workload.
LEMMA StartIsKind ==
    ASSUME NEW k \in Kind \cup {NoKind} PROVE Start(k) \in Kind
BY AfterIs, NKindsAssumption DEF Start, Kind, NoKind

----
\* What a queue is: finitely many requests, each of a workload and numbered.
Queued(items) ==
    IsFiniteSet(items) /\ \A i \in items : i.workload \in Kind /\ i.sequence \in Nat

\* A group that is not empty has an earliest request.
LEMMA EarliestIs ==
    ASSUME NEW items, Queued(items), NEW group \in SUBSET items, group # {}
    PROVE  /\ Earliest(group) \in group
           /\ \A j \in group : Earliest(group).sequence <= j.sequence
<1> DEFINE S == {i.sequence : i \in group}
<1>1. S \in SUBSET Nat /\ S # {}
  BY DEF Queued
<1>2. PICK m \in S : \A n \in S : m <= n
  BY <1>1, LeastNumber
<1>3. \E i \in group : \A j \in group : i.sequence <= j.sequence
  BY <1>2
<1> QED
  BY <1>3 DEF Earliest

\* The loop finds a group that is not empty, and passes only empty ones.
LEMMA NextKindIs ==
    ASSUME NEW items, Queued(items), items # {}, NEW index \in Kind
    PROVE  /\ NextKind(items, index) \in Kind
           /\ Group(items, NextKind(items, index)) # {}
           /\ \A j \in Kind : Group(items, j) # {}
                => Turns(index, NextKind(items, index)) <= Turns(index, j)
<1> DEFINE Waiting == {k \in Kind : Group(items, k) # {}}
           S == {Turns(index, k) : k \in Waiting}
<1>1. S \in SUBSET Nat
  BY TurnsAdvance
<1>2. S # {}
  BY DEF Queued, Group
<1>3. PICK m \in S : \A n \in S : m <= n
  BY <1>1, <1>2, LeastNumber
<1>4. \E k \in Kind : /\ Group(items, k) # {}
                      /\ \A j \in Kind : Group(items, j) # {}
                            => Turns(index, k) <= Turns(index, j)
  BY <1>3
<1> QED
  BY <1>4 DEF NextKind

\* What is popped is the first of its workload, whose turn is before that of
\* every other workload that waits.
LEMMA PoppedIs ==
    ASSUME NEW items, Queued(items), items # {}, NEW index \in Kind
    PROVE  /\ Popped(items, index) \in items
           /\ Popped(items, index).workload \in Kind
           /\ \A j \in items :
                /\ j.workload = Popped(items, index).workload
                     => Popped(items, index).sequence <= j.sequence
                /\ j.workload # Popped(items, index).workload
                     => Turns(index, Popped(items, index).workload) < Turns(index, j.workload)
<1> DEFINE k == NextKind(items, index)
           p == Popped(items, index)
<1>1. /\ k \in Kind /\ Group(items, k) # {}
      /\ \A j \in Kind : Group(items, j) # {} => Turns(index, k) <= Turns(index, j)
  BY NextKindIs
<1>2. p \in Group(items, k) /\ \A j \in Group(items, k) : p.sequence <= j.sequence
  BY <1>1, EarliestIs DEF Popped, Group
<1>3. p \in items /\ p.workload = k
  BY <1>2 DEF Group
<1>4. ASSUME NEW j \in items, j.workload # k PROVE Turns(index, k) < Turns(index, j.workload)
  <2>1. j.workload \in Kind /\ j \in Group(items, j.workload)
    BY <1>4 DEF Queued, Group
  <2>2. Turns(index, k) <= Turns(index, j.workload)
    BY <1>1, <2>1
  <2>3. /\ Turns(index, k) \in 0 .. NKinds - 1 /\ Turns(index, j.workload) \in 0 .. NKinds - 1
        /\ Turns(index, k) # Turns(index, j.workload)
    BY <1>1, <1>4, <2>1, TurnsAdvance
  <2> QED
    BY <2>2, <2>3, NKindsAssumption
<1>5. ASSUME NEW j \in items, j.workload = k PROVE p.sequence <= j.sequence
  BY <1>2, <1>5 DEF Group
<1> HIDE DEF k, p
<1> QED
  BY <1>1, <1>3, <1>4, <1>5 DEF p

----
\* The loop of Order, one round of it and the place that it goes on at.
Body(f, at) ==
    IF at[1] = {} THEN << >>
    ELSE LET item == Popped(at[1], at[2])
         IN <<item>> \o f[<<at[1] \ {item}, After(item.workload)>>]

Then(at) == <<at[1] \ {Popped(at[1], at[2])}, After(Popped(at[1], at[2]).workload)>>

\* A round leaves one request less.
LEMMA Smaller ==
    ASSUME NEW items, Queued(items), NEW at \in (SUBSET items) \X Kind, at[1] # {}
    PROVE  /\ Then(at) \in (SUBSET items) \X Kind
           /\ Cardinality(at[1]) \in Nat
           /\ Cardinality(Then(at)[1]) = Cardinality(at[1]) - 1
<1> DEFINE rest == at[1]
           index == at[2]
           p == Popped(rest, index)
<1>1. Queued(rest) /\ rest \in SUBSET items /\ index \in Kind
  BY FS_Subset DEF Queued
<1>2. p \in rest /\ p.workload \in Kind
  BY <1>1, PoppedIs
<1>3. IsFiniteSet(rest)
  BY <1>1 DEF Queued
<1>4. After(p.workload) \in Kind /\ rest \ {p} \in SUBSET items
  BY <1>1, <1>2, AfterIs
<1>5. Cardinality(rest) \in Nat /\ Cardinality(rest \ {p}) = Cardinality(rest) - 1
  BY <1>2, <1>3, FS_RemoveElement, FS_CardinalityType
<1>6. Then(at) = <<rest \ {p}, After(p.workload)>>
  BY DEF Then
<1> HIDE DEF p
<1> QED
  BY <1>4, <1>5, <1>6

\* The two cases of a round.
LEMMA BodyIs ==
    ASSUME NEW f, NEW at
    PROVE  /\ at[1] = {} => Body(f, at) = << >>
           /\ at[1] # {} => Body(f, at) = <<Popped(at[1], at[2])>> \o f[Then(at)]
BY DEF Body, Then

\* The recursion has a solution: one up to n requests gives one up to n + 1.
LEMMA LoopExists ==
    ASSUME NEW items, Queued(items)
    PROVE  \E f : f = [at \in (SUBSET items) \X Kind |-> Body(f, at)]
<1> DEFINE P == (SUBSET items) \X Kind
           Upto(f, n) == \A at \in P : Cardinality(at[1]) <= n => f[at] = Body(f, at)
           T == {n \in Nat : \E f : Upto(f, n)}
<1>1. \A at \in P : IsFiniteSet(at[1]) /\ Cardinality(at[1]) \in Nat
                       /\ Cardinality(at[1]) <= Cardinality(items)
  <2>1. \A at \in P : at[1] \in SUBSET items
    OBVIOUS
  <2> QED
    BY <2>1, FS_Subset, FS_CardinalityType DEF Queued
<1>2. \A at \in P : at[1] # {} =>
            Then(at) \in P /\ Cardinality(Then(at)[1]) = Cardinality(at[1]) - 1
  BY Smaller
<1> HIDE DEF P
<1>3. 0 \in T
  <2> DEFINE f == [at \in P |-> << >>]
  <2>1. ASSUME NEW at \in P, Cardinality(at[1]) <= 0
        PROVE  f[at] = Body(f, at)
    <3>1. at[1] = {}
      BY <1>1, <2>1, FS_EmptySet
    <3> QED
      BY <3>1, BodyIs
  <2> HIDE DEF f
  <2> QED
    BY <2>1
<1>4. ASSUME NEW n \in T PROVE n + 1 \in T
  <2>1. PICK f : Upto(f, n)
    OBVIOUS
  <2> DEFINE g == [at \in P |-> IF Cardinality(at[1]) <= n THEN f[at] ELSE Body(f, at)]
  <2>2. ASSUME NEW at \in P, Cardinality(at[1]) <= n + 1
        PROVE  g[at] = Body(g, at)
    <3>0. g[at] = Body(f, at)
      BY <2>1
    <3>1. CASE at[1] = {}
      BY <3>0, <3>1, BodyIs
    <3>2. CASE at[1] # {}
      <4>1. Then(at) \in P /\ Cardinality(Then(at)[1]) <= n
        BY <1>1, <1>2, <2>2, <3>2
      <4>2. g[Then(at)] = f[Then(at)]
        BY <4>1
      <4> HIDE DEF g
      <4>3. Body(f, at) = <<Popped(at[1], at[2])>> \o f[Then(at)]
        BY <3>2, BodyIs
      <4>4. Body(g, at) = <<Popped(at[1], at[2])>> \o g[Then(at)]
        BY <3>2, BodyIs
      <4> QED
        BY <3>0, <4>2, <4>3, <4>4
    <3> QED
      BY <3>1, <3>2
  <2> HIDE DEF g
  <2>3. Upto(g, n + 1)
    BY <2>2
  <2> HIDE DEF Upto
  <2> QED
    BY <2>3
<1>5. T = Nat
  <2> HIDE DEF T
  <2> QED
    BY <1>3, <1>4, NumberInduction DEF T
<1>6. Cardinality(items) \in Nat
  BY FS_CardinalityType DEF Queued
<1>7. PICK f : Upto(f, Cardinality(items))
  BY <1>5, <1>6
<1> DEFINE from == [at \in P |-> f[at]]
<1>8. ASSUME NEW at \in P PROVE from[at] = Body(from, at)
  <2>1. from[at] = Body(f, at)
    BY <1>1, <1>7
  <2>2. at[1] # {} => from[Then(at)] = f[Then(at)]
    BY <1>2
  <2> HIDE DEF from
  <2> QED
    BY <2>1, <2>2, BodyIs
<1>9. from = [at \in P |-> Body(from, at)]
  <2>1. from = [at \in P |-> from[at]]
    OBVIOUS
  <2> HIDE DEF from
  <2> QED
    BY <1>8, <2>1
<1> QED
  BY <1>9 DEF P

\* So Order is what the loop computes.
LEMMA OrderIsLoop ==
    ASSUME NEW items, Queued(items)
    PROVE  \E f : /\ \A at \in (SUBSET items) \X Kind : f[at] = Body(f, at)
                  /\ \A k : Order(items, k) = f[<<items, Start(k)>>]
<1> DEFINE from[at \in (SUBSET items) \X Kind] ==
            IF at[1] = {} THEN << >>
            ELSE LET item == Popped(at[1], at[2])
                 IN <<item>> \o from[<<at[1] \ {item}, After(item.workload)>>]
<1>1. \A k : Order(items, k) = from[<<items, Start(k)>>]
  BY DEF Order
<1>2. from = CHOOSE f : f = [at \in (SUBSET items) \X Kind |-> Body(f, at)]
  BY DEF Body
<1> HIDE DEF from
<1>3. from = [at \in (SUBSET items) \X Kind |-> Body(from, at)]
  BY <1>2, LoopExists
<1>4. \A at \in (SUBSET items) \X Kind : from[at] = Body(from, at)
  BY <1>3
<1> QED
  BY <1>1, <1>4

----
\* The first in the order is the one that the loop pops first.
LEMMA HeadIs ==
    ASSUME NEW items, Queued(items), items # {}, NEW k \in Kind \cup {NoKind}
    PROVE  Order(items, k)[1] = Popped(items, Start(k))
<1>1. PICK f : /\ \A at \in (SUBSET items) \X Kind : f[at] = Body(f, at)
               /\ \A j : Order(items, j) = f[<<items, Start(j)>>]
  BY OrderIsLoop
<1> DEFINE at == <<items, Start(k)>>
<1>2. at \in (SUBSET items) \X Kind /\ at[1] = items /\ at[2] = Start(k)
  BY StartIsKind
<1>3. f[at] = <<Popped(at[1], at[2])>> \o f[Then(at)]
  BY <1>1, <1>2, BodyIs
<1> QED
  BY <1>1, <1>2, <1>3

\* Distinct requests have distinct sequences.
Distinct(items) == \A i, j \in items : i.sequence = j.sequence => i = j

\* A rank is a number, and a queue without a request is one.
LEMMA RankIs ==
    ASSUME NEW items, Queued(items), NEW i \in items
    PROVE  /\ Rank(i, items) \in Nat
           /\ \A j \in items : Queued(items \ {j})
<1>1. IsFiniteSet({j \in Group(items, i.workload) : j.sequence < i.sequence})
  BY FS_Subset DEF Group, Queued
<1>2. Rank(i, items) \in Nat
  BY <1>1, FS_CardinalityType DEF Rank
<1>3. ASSUME NEW j \in items PROVE Queued(items \ {j})
  BY FS_Subset DEF Queued
<1> QED
  BY <1>2, <1>3

\* A request that goes lowers the rank of the later ones of its workload by one.
LEMMA RankWithout ==
    ASSUME NEW items, Queued(items), NEW p \in items, NEW i \in items \ {p}
    PROVE  Rank(i, items) = IF p.workload = i.workload /\ p.sequence < i.sequence
                            THEN Rank(i, items \ {p}) + 1 ELSE Rank(i, items \ {p})
<1> DEFINE Before(S) == {j \in Group(S, i.workload) : j.sequence < i.sequence}
<1>1. IsFiniteSet(Before(items)) /\ IsFiniteSet(Before(items \ {p}))
  BY FS_Subset DEF Group, Queued
<1>2. CASE p.workload = i.workload /\ p.sequence < i.sequence
  <2>1. Before(items) = Before(items \ {p}) \cup {p} /\ p \notin Before(items \ {p})
    BY <1>2 DEF Group
  <2> HIDE DEF Before
  <2>2. Cardinality(Before(items)) = Cardinality(Before(items \ {p})) + 1
    BY <1>1, <2>1, FS_AddElement
  <2> QED
    BY <1>2, <2>2 DEF Rank, Before
<1>3. CASE ~(p.workload = i.workload /\ p.sequence < i.sequence)
  <2>1. Before(items) = Before(items \ {p})
    BY <1>3 DEF Group
  <2> QED
    BY <1>3, <2>1 DEF Rank
<1> QED
  BY <1>2, <1>3

\* ServedBefore, at any place of the rotation.
ServedFrom(i, j, items, index) ==
    \/ Rank(i, items) < Rank(j, items)
    \/ /\ Rank(i, items) = Rank(j, items)
       /\ Turns(index, i.workload) < Turns(index, j.workload)

\* The first of a workload has rank 0.
LEMMA RankZero ==
    ASSUME NEW items, Queued(items), NEW p \in items,
           \A j \in items : j.workload = p.workload => p.sequence <= j.sequence
    PROVE  Rank(p, items) = 0
<1>1. {j \in Group(items, p.workload) : j.sequence < p.sequence} = {}
  BY DEF Group, Queued
<1> QED
  BY <1>1, FS_EmptySet DEF Rank

\* What is popped is to be served before everybody else.
LEMMA PoppedIsFirst ==
    ASSUME NEW items, Queued(items), Distinct(items), items # {}, NEW index \in Kind,
           NEW j \in items \ {Popped(items, index)}
    PROVE  ServedFrom(Popped(items, index), j, items, index)
<1> DEFINE p == Popped(items, index)
<1>1. /\ p \in items /\ p.workload \in Kind /\ p.sequence \in Nat /\ j.sequence \in Nat
      /\ \A i \in items :
           /\ i.workload = p.workload => p.sequence <= i.sequence
           /\ i.workload # p.workload => Turns(index, p.workload) < Turns(index, i.workload)
  BY PoppedIs DEF Queued
<1> HIDE DEF p
<1>2. Rank(p, items) = 0
  BY <1>1, RankZero
<1>3. Rank(j, items) \in Nat /\ Queued(items \ {p}) /\ Rank(j, items \ {p}) \in Nat
  BY <1>1, RankIs DEF p
<1>4. CASE j.workload = p.workload
  <2>1. p.sequence < j.sequence
    BY <1>1, <1>4 DEF Distinct, p
  <2>2. Rank(j, items) = Rank(j, items \ {p}) + 1
    BY <1>1, <1>4, <2>1, RankWithout DEF p
  <2> QED
    BY <1>2, <1>3, <2>2 DEF ServedFrom, p
<1>5. CASE j.workload # p.workload
  <2>1. Turns(index, p.workload) < Turns(index, j.workload)
    BY <1>1, <1>5
  <2> QED
    BY <1>2, <1>3, <2>1 DEF ServedFrom, p
<1> QED
  BY <1>4, <1>5

\* Who is to be served first among the others is so before and after the round:
\* the ranks in the popped request's workload and its turn change together.
LEMMA LaterStayLater ==
    ASSUME NEW items, Queued(items), Distinct(items), items # {}, NEW index \in Kind,
           NEW i \in items \ {Popped(items, index)}, NEW j \in items \ {Popped(items, index)},
           ServedFrom(i, j, items \ {Popped(items, index)},
                      After(Popped(items, index).workload))
    PROVE  ServedFrom(i, j, items, index)
<1> DEFINE p == Popped(items, index)
           w == p.workload
           rest == items \ {p}
           ri == Rank(i, rest)
           rj == Rank(j, rest)
           ti == Turns(index, i.workload)
           tj == Turns(index, j.workload)
           tw == Turns(index, w)
           ti2 == Turns(After(w), i.workload)
           tj2 == Turns(After(w), j.workload)
<1>1. /\ p \in items /\ w \in Kind /\ p.sequence \in Nat
      /\ \A k \in items :
           /\ k.workload = w => p.sequence <= k.sequence
           /\ k.workload # w => tw < Turns(index, k.workload)
      /\ i \in items /\ j \in items
      /\ i.workload \in Kind /\ j.workload \in Kind
  BY PoppedIs DEF Queued
<1>2. Queued(rest) /\ ri \in Nat /\ rj \in Nat
  BY <1>1, RankIs
<1>3. /\ tw \in 0 .. NKinds - 1 /\ ti \in 0 .. NKinds - 1 /\ tj \in 0 .. NKinds - 1
      /\ ti2 \in 0 .. NKinds - 1 /\ tj2 \in 0 .. NKinds - 1 /\ NKinds \in Nat \ {0}
  BY <1>1, AfterIs, TurnsAdvance, NKindsAssumption
<1>4. i.workload = w => ti2 = NKinds - 1 /\ ti = tw
  BY <1>1, TurnsAdvance
<1>5. j.workload = w => tj2 = NKinds - 1 /\ tj = tw
  BY <1>1, TurnsAdvance
<1>6. i.workload # w => ti > tw /\ ti2 = ti - tw - 1
  <2>1. i.workload # w => tw < ti
    BY <1>1
  <2> QED
    BY <1>1, <1>3, <2>1, TurnsAdvance
<1>7. j.workload # w => tj > tw /\ tj2 = tj - tw - 1
  <2>1. j.workload # w => tw < tj
    BY <1>1
  <2> QED
    BY <1>1, <1>3, <2>1, TurnsAdvance
<1>8. /\ i.workload # w => Rank(i, items) = ri
      /\ j.workload # w => Rank(j, items) = rj
  BY <1>1, RankWithout
<1>9. /\ i.workload = w => Rank(i, items) = ri + 1
      /\ j.workload = w => Rank(j, items) = rj + 1
  <2>1. i.sequence \in Nat /\ j.sequence \in Nat
    BY <1>1 DEF Queued
  <2>2. i.sequence # p.sequence /\ j.sequence # p.sequence
    BY <1>1 DEF Distinct
  <2>3. /\ i.workload = w => p.sequence < i.sequence
        /\ j.workload = w => p.sequence < j.sequence
    BY <1>1, <2>1, <2>2
  <2> QED
    BY <1>1, <2>3, RankWithout
<1>10. ri < rj \/ (ri = rj /\ ti2 < tj2)
  BY DEF ServedFrom
<1> HIDE DEF ri, rj, ti, tj, tw, ti2, tj2, w, p, rest
<1>11. \/ Rank(i, items) < Rank(j, items)
       \/ Rank(i, items) = Rank(j, items) /\ ti < tj
  BY <1>2, <1>3, <1>4, <1>5, <1>6, <1>7, <1>8, <1>9, <1>10
<1> QED
  BY <1>11 DEF ServedFrom, ti, tj

----
\* An order of a queue that serves everybody once, by rank and then by turn.
Rotates(order, items, index) ==
    /\ order \in Seq(items)
    /\ Len(order) = Cardinality(items)
    /\ \A i \in items : \E n \in DOMAIN order : order[n] = i
    /\ \A m, n \in DOMAIN order : m < n => ServedFrom(order[m], order[n], items, index)

\* A sequence with an element before it.
LEMMA Prepended ==
    ASSUME NEW items, NEW p \in items, NEW order \in Seq(items \ {p})
    PROVE  /\ <<p>> \o order \in Seq(items)
           /\ Len(<<p>> \o order) = Len(order) + 1
           /\ DOMAIN (<<p>> \o order) = 1 .. Len(order) + 1
           /\ (<<p>> \o order)[1] = p
           /\ \A n \in DOMAIN order : (<<p>> \o order)[n + 1] = order[n]
           /\ \A n \in 2 .. Len(order) + 1 :
                n - 1 \in DOMAIN order /\ (<<p>> \o order)[n] = order[n - 1]
<1>1. order \in Seq(items) /\ <<p>> \in Seq(items) /\ Len(<<p>>) = 1 /\ Len(order) \in Nat
  <2>1. PICK n \in Nat : order \in [1 .. n -> items \ {p}]
    OBVIOUS
  <2>2. order \in [1 .. n -> items]
    BY <2>1
  <2>3. order \in Seq(items)
    BY <2>2
  <2> QED
    BY <2>3
<1>2. DOMAIN order = 1 .. Len(order)
  BY <1>1
<1> QED
  BY <1>1, <1>2

\* One round before an order of the others.
LEMMA PoppedRotates ==
    ASSUME NEW items, Queued(items), Distinct(items), items # {}, NEW index \in Kind,
           NEW order, Rotates(order, items \ {Popped(items, index)},
                              After(Popped(items, index).workload))
    PROVE  Rotates(<<Popped(items, index)>> \o order, items, index)
<1> DEFINE p == Popped(items, index)
           rest == items \ {p}
           all == <<p>> \o order
<1>1. p \in items /\ IsFiniteSet(items)
  BY PoppedIs DEF Queued
<1>2. /\ order \in Seq(rest) /\ Len(order) = Cardinality(rest) /\ Len(order) \in Nat
      /\ \A i \in rest : \E n \in DOMAIN order : order[n] = i
      /\ DOMAIN order = 1 .. Len(order)
      /\ \A n \in DOMAIN order : order[n] \in rest
  <2> HIDE DEF rest
  <2>1. /\ order \in Seq(rest) /\ Len(order) = Cardinality(rest)
        /\ \A i \in rest : \E n \in DOMAIN order : order[n] = i
    BY DEF Rotates, rest
  <2> QED
    BY <2>1
<1>3. \A m, n \in DOMAIN order : m < n =>
         ServedFrom(order[m], order[n], rest, After(p.workload))
  BY DEF Rotates
<1>4. /\ all \in Seq(items) /\ Len(all) = Len(order) + 1 /\ DOMAIN all = 1 .. Len(order) + 1
      /\ all[1] = p
      /\ \A n \in DOMAIN order : all[n + 1] = order[n]
      /\ \A n \in 2 .. Len(order) + 1 : n - 1 \in DOMAIN order /\ all[n] = order[n - 1]
  <2>1. order \in Seq(items \ {p})
    BY <1>2
  <2> HIDE DEF p, rest
  <2> QED
    BY <1>1, <2>1, Prepended
<1>5. \A i \in rest : ServedFrom(p, i, items, index)
  BY PoppedIsFirst
<1>6. \A i, j \in rest :
         ServedFrom(i, j, rest, After(p.workload)) => ServedFrom(i, j, items, index)
  BY LaterStayLater
<1>7. Cardinality(items) = Cardinality(rest) + 1
  <2> HIDE DEF p
  <2>1. Cardinality(items) \in Nat /\ Cardinality(rest) = Cardinality(items) - 1
    BY <1>1, FS_RemoveElement, FS_CardinalityType
  <2> QED
    BY <2>1
<1> HIDE DEF p, rest, all
<1>8. ASSUME NEW i \in items PROVE \E n \in DOMAIN all : all[n] = i
  <2>1. CASE i = p
    BY <1>2, <1>4, <2>1
  <2>2. CASE i \in rest
    <3>1. PICK n \in DOMAIN order : order[n] = i
      BY <1>2, <2>2
    <3>2. n + 1 \in DOMAIN all /\ all[n + 1] = i
      BY <1>2, <1>4, <3>1
    <3> QED
      BY <3>2
  <2> QED
    BY <2>1, <2>2 DEF rest
<1>9. ASSUME NEW m \in DOMAIN all, NEW n \in DOMAIN all, m < n
      PROVE  ServedFrom(all[m], all[n], items, index)
  <2>1. n \in 2 .. Len(order) + 1 /\ n - 1 \in DOMAIN order /\ all[n] = order[n - 1]
        /\ all[n] \in rest
    BY <1>2, <1>4, <1>9
  <2>2. CASE m = 1
    BY <1>4, <1>5, <2>1, <2>2
  <2>3. CASE m # 1
    <3>1. m - 1 \in DOMAIN order /\ all[m] = order[m - 1] /\ all[m] \in rest /\ m - 1 < n - 1
      BY <1>2, <1>4, <1>9, <2>1, <2>3
    <3>2. ServedFrom(order[m - 1], order[n - 1], rest, After(p.workload))
      BY <1>3, <2>1, <3>1
    <3> QED
      BY <1>6, <2>1, <3>1, <3>2
  <2> QED
    BY <2>2, <2>3
<1>10. Len(all) = Cardinality(items)
  BY <1>2, <1>4, <1>7
<1>11. Rotates(all, items, index)
  BY <1>4, <1>8, <1>9, <1>10 DEF Rotates
<1> QED
  BY <1>11 DEF all, p

\* The whole loop, by induction over the number of requests.
LEMMA LoopRotates ==
    ASSUME NEW items, Queued(items), Distinct(items), NEW f,
           \A at \in (SUBSET items) \X Kind : f[at] = Body(f, at)
    PROVE  \A index \in Kind : Rotates(f[<<items, index>>], items, index)
<1> DEFINE P == (SUBSET items) \X Kind
           T == {n \in Nat : \A at \in P :
                              Cardinality(at[1]) = n => Rotates(f[at], at[1], at[2])}
<1>1. \A at \in P : /\ Queued(at[1]) /\ Distinct(at[1]) /\ IsFiniteSet(at[1])
                    /\ at[1] \in SUBSET items /\ at[2] \in Kind
                    /\ f[at] = Body(f, at)
  BY FS_Subset DEF Queued, Distinct
<1>2. 0 \in T
  <2>1. ASSUME NEW at \in P, Cardinality(at[1]) = 0 PROVE Rotates(f[at], at[1], at[2])
    <3>1. at[1] = {} /\ f[at] = << >>
      <4>1. at[1] = {}
        BY <1>1, <2>1, FS_EmptySet
      <4> QED
        BY <1>1, <4>1, BodyIs
    <3> QED
      BY <2>1, <3>1 DEF Rotates
  <2> HIDE DEF P
  <2> QED
    BY <2>1
<1>3. ASSUME NEW n \in T PROVE n + 1 \in T
  <2>1. ASSUME NEW at \in P, Cardinality(at[1]) = n + 1 PROVE Rotates(f[at], at[1], at[2])
    <3>1. at[1] # {} /\ at[1] \in SUBSET items /\ at[2] \in Kind
          /\ Queued(at[1]) /\ Distinct(at[1])
      BY <1>1, <2>1, FS_EmptySet
    <3>2. Then(at) \in P /\ Cardinality(Then(at)[1]) = n
      BY <2>1, <3>1, Smaller
    <3>3. Rotates(f[Then(at)], Then(at)[1], Then(at)[2])
      BY <3>2
    <3>4. f[at] = <<Popped(at[1], at[2])>> \o f[Then(at)]
      BY <1>1, <3>1, BodyIs
    <3>5. /\ Then(at)[1] = at[1] \ {Popped(at[1], at[2])}
          /\ Then(at)[2] = After(Popped(at[1], at[2]).workload)
      BY DEF Then
    <3> QED
      BY <3>1, <3>3, <3>4, <3>5, PoppedRotates
  <2> HIDE DEF P
  <2> QED
    BY <2>1
<1>4. T = Nat
  <2> HIDE DEF T
  <2> QED
    BY <1>2, <1>3, NumberInduction DEF T
<1>5. Cardinality(items) \in Nat
  BY FS_CardinalityType DEF Queued
<1>6. ASSUME NEW index \in Kind PROVE Rotates(f[<<items, index>>], items, index)
  <2> DEFINE at == <<items, index>>
  <2>1. at \in P /\ at[1] = items /\ at[2] = index
    OBVIOUS
  <2> HIDE DEF at, P
  <2>2. Rotates(f[at], at[1], at[2])
    BY <1>4, <1>5, <2>1
  <2> QED
    BY <2>1, <2>2 DEF at
<1> QED
  BY <1>6

\* _Registry.order() on every queue, whatever was granted last, is the rotation:
\* everybody once, by rank in the own workload and then by the workload's turn.
THEOREM OrderRotates ==
    ASSUME NEW items, Queued(items), Distinct(items), NEW k \in Kind \cup {NoKind}
    PROVE  Rotates(Order(items, k), items, Start(k))
<1>1. PICK f : /\ \A at \in (SUBSET items) \X Kind : f[at] = Body(f, at)
               /\ \A j : Order(items, j) = f[<<items, Start(j)>>]
  BY OrderIsLoop
<1>2. \A index \in Kind : Rotates(f[<<items, index>>], items, index)
  BY <1>1, LoopRotates
<1> QED
  BY <1>1, <1>2, StartIsKind

----
\* FairQueue.

\* The first in the declarative order is the one that the loop pops: there is
\* no other one, since nobody is before the popped request.
LEMMA FirstIsPopped ==
    ASSUME Queued(queue), Distinct(queue), last \in Kind \cup {NoKind}, NEW i \in queue
    PROVE  First(i) <=> i = Popped(queue, Start(last))
<1> DEFINE p == Popped(queue, Start(last))
<1>1. Start(last) \in Kind /\ queue # {}
  BY StartIsKind
<1>2. p \in queue
  BY <1>1, PoppedIs
<1>3. \A j \in queue \ {p} : ServedBefore(p, j, queue, last)
  BY <1>1, PoppedIsFirst DEF ServedBefore, ServedFrom
<1> HIDE DEF p
<1>4. ASSUME i # p, First(i) PROVE FALSE
  <2>1. ServedBefore(i, p, queue, last) /\ ServedBefore(p, i, queue, last)
    BY <1>2, <1>3, <1>4 DEF First
  <2>2. /\ Rank(i, queue) \in Nat /\ Rank(p, queue) \in Nat
        /\ i.workload \in Kind /\ p.workload \in Kind
    BY <1>2, RankIs DEF Queued
  <2>3. Turns(Start(last), i.workload) \in Int /\ Turns(Start(last), p.workload) \in Int
    BY <1>1, <2>2, TurnsAdvance
  <2> QED
    BY <2>1, <2>2, <2>3 DEF ServedBefore
<1> QED
  BY <1>2, <1>3, <1>4 DEF First, p

\* The grants that a request may have to see go to others from now on: before
\* each of its own workload that is ahead of it every other workload may have
\* one, and before itself those whose turn comes first.
Due(i) == Rank(i, queue) * NKinds + Turns(Start(last), i.workload)

\* The types, and sequences that are told apart.
FairShape ==
    /\ next \in Nat /\ last \in Kind \cup {NoKind}
    /\ Queued(queue) /\ Distinct(queue)
    /\ \A i \in queue : i.sequence < next
    /\ patience \in [queue -> Int]

\* Nobody's patience is less than what may still come: BypassBounded only says
\* that it is not used up, which does not survive a grant by itself.
Patient == \A i \in queue : patience[i] >= Due(i)

FairInv == FairShape /\ Patient

\* What is due is a number.
LEMMA DueIs ==
    ASSUME FairShape, NEW i \in queue
    PROVE  /\ Rank(i, queue) \in Nat /\ i.workload \in Kind /\ Start(last) \in Kind
           /\ Turns(Start(last), i.workload) \in 0 .. NKinds - 1
           /\ Due(i) \in Nat
<1>1. Queued(queue) /\ i.workload \in Kind /\ Start(last) \in Kind /\ NKinds \in Nat
  BY StartIsKind, NKindsAssumption DEF FairShape, Queued
<1>2. Rank(i, queue) \in Nat /\ Turns(Start(last), i.workload) \in 0 .. NKinds - 1
  BY <1>1, RankIs, TurnsAdvance
<1>3. Rank(i, queue) * NKinds \in Nat
  BY <1>1, <1>2
<1> QED
  BY <1>1, <1>2, <1>3 DEF Due

\* Nobody waits.
LEMMA FairInit == Init => FairInv
<1> SUFFICES ASSUME Init PROVE FairInv
  OBVIOUS
<1>1. Queued(queue) /\ Distinct(queue)
  BY FS_EmptySet DEF Init, Queued, Distinct
<1> QED
  BY <1>1 DEF Init, FairInv, FairShape, Patient

\* What is left of the queue keeps its shape and its patience.
LEMMA RemovalKeeps ==
    ASSUME FairInv, NEW n \in Nat, queue' \in SUBSET queue, Watch(n), next' = next,
           last' \in Kind \cup {NoKind},
           \A i \in queue' : Due(i)' \in Int /\ Due(i)' <= Due(i) - n
    PROVE  FairInv'
<1>1. FairShape /\ Patient /\ Queued(queue)
  BY DEF FairInv, FairShape
<1>2. Queued(queue')
  BY <1>1, FS_Subset DEF Queued
<1>3. patience' = [i \in queue' |-> patience[i] - n]
  BY DEF Watch
<1>4. FairShape'
  BY <1>1, <1>2, <1>3 DEF FairShape, Distinct
<1>5. ASSUME NEW i \in queue' PROVE patience'[i] >= Due(i)'
  <2>1. patience[i] >= Due(i) /\ patience[i] \in Int /\ Due(i) \in Nat
    BY <1>1, DueIs DEF Patient, FairShape
  <2>2. Due(i)' \in Int /\ Due(i)' <= Due(i) - n /\ patience'[i] = patience[i] - n
    BY <1>3
  <2> QED
    BY <2>1, <2>2
<1> QED
  BY <1>4, <1>5 DEF FairInv, Patient

\* A request that joins is the last of its workload, and changes no other's rank.
LEMMA RankJoins ==
    ASSUME NEW items, Queued(items), NEW p, p \notin items,
           p.workload \in Kind, p.sequence \in Nat, \A i \in items : i.sequence < p.sequence
    PROVE  /\ Queued(items \cup {p})
           /\ Rank(p, items \cup {p}) = Cardinality(Group(items, p.workload))
           /\ \A i \in items : Rank(i, items \cup {p}) = Rank(i, items)
<1>1. Queued(items \cup {p})
  BY FS_AddElement DEF Queued
<1>2. {j \in Group(items \cup {p}, p.workload) : j.sequence < p.sequence}
        = Group(items, p.workload)
  BY DEF Group
<1>3. ASSUME NEW i \in items PROVE Rank(i, items \cup {p}) = Rank(i, items)
  <2>1. i.sequence \in Nat /\ i.sequence < p.sequence
    BY DEF Queued
  <2>2. {j \in Group(items \cup {p}, i.workload) : j.sequence < i.sequence}
          = {j \in Group(items, i.workload) : j.sequence < i.sequence}
    BY <2>1 DEF Group
  <2> QED
    BY <2>2 DEF Rank
<1> QED
  BY <1>1, <1>2, <1>3 DEF Rank

\* The newcomer's allowance is what is due to it, and nobody else's changes.
LEMMA JoinKeeps == ASSUME FairInv, NEW t, NEW k \in Kind, Join(t, k) PROVE FairInv'
<1> DEFINE p == [ticket |-> t, workload |-> k, sequence |-> next]
<1>1. FairShape /\ Patient /\ Queued(queue) /\ next \in Nat
  BY DEF FairInv, FairShape
<1>2. /\ queue' = queue \cup {p} /\ next' = next + 1 /\ last' = last
      /\ p.workload = k /\ p.sequence = next
      /\ patience' = [i \in queue' |-> IF i \in queue THEN patience[i] - 0
                                                      ELSE Allowance(i.workload)]
  BY DEF Join, Watch
<1> HIDE DEF p
<1>3. \A i \in queue : i.sequence < next /\ i.sequence \in Nat
  BY <1>1 DEF FairShape, Queued
<1>4. p \notin queue
  BY <1>1, <1>2, <1>3
<1>5. /\ Queued(queue') /\ Rank(p, queue') = Cardinality(Group(queue, k))
      /\ \A i \in queue : Rank(i, queue') = Rank(i, queue)
  BY <1>1, <1>2, <1>3, <1>4, RankJoins
<1>6. Cardinality(Group(queue, k)) \in Nat
  BY <1>1, FS_Subset, FS_CardinalityType DEF Queued, Group
<1>7. NKinds \in Nat \ {0} /\ Cardinality(Group(queue, k)) * NKinds \in Nat
  BY <1>6, NKindsAssumption
<1>8. /\ patience'[p] = Allowance(k) /\ Allowance(k) \in Int
      /\ \A i \in queue : patience'[i] = patience[i] /\ patience[i] \in Int
  BY <1>1, <1>2, <1>4, <1>7 DEF Allowance, FairShape
<1>9. patience' \in [queue' -> Int]
  BY <1>2, <1>8
<1>10. FairShape'
  BY <1>1, <1>2, <1>3, <1>5, <1>9 DEF FairShape, Distinct
<1>11. ASSUME NEW i \in queue' PROVE patience'[i] >= Due(i)'
  <2>1. CASE i = p
    <3>1. Turns(Start(last), k) \in 0 .. NKinds - 1
      BY <1>1, StartIsKind, TurnsAdvance DEF FairShape
    <3>2. Due(i)' = Cardinality(Group(queue, k)) * NKinds + Turns(Start(last), k)
      BY <1>2, <1>5, <2>1 DEF Due
    <3> QED
      BY <1>7, <1>8, <2>1, <3>1, <3>2 DEF Allowance
  <2>2. CASE i \in queue
    <3>1. Due(i)' = Due(i)
      BY <1>2, <1>5, <2>2 DEF Due
    <3> QED
      BY <1>1, <1>8, <2>2, <3>1 DEF Patient
  <2> QED
    BY <1>2, <2>1, <2>2
<1> QED
  BY <1>10, <1>11 DEF FairInv, Patient

\* In a part of the queue a rank is no higher.
LEMMA RankInPart ==
    ASSUME NEW items, Queued(items), NEW rest \in SUBSET items, NEW i \in rest
    PROVE  /\ Rank(i, rest) \in Nat /\ Rank(i, items) \in Nat
           /\ Rank(i, rest) <= Rank(i, items)
<1> DEFINE Before(S) == {j \in Group(S, i.workload) : j.sequence < i.sequence}
<1>1. IsFiniteSet(Before(items)) /\ Before(rest) \subseteq Before(items)
  BY FS_Subset DEF Group, Queued
<1> HIDE DEF Before
<1>2. /\ Cardinality(Before(rest)) \in Nat /\ Cardinality(Before(items)) \in Nat
      /\ Cardinality(Before(rest)) <= Cardinality(Before(items))
  BY <1>1, FS_Subset, FS_CardinalityType
<1> QED
  BY <1>2 DEF Rank, Before

\* Who leaves makes nobody wait longer.
LEMMA LeaveKeeps == ASSUME FairInv, Leave PROVE FairInv'
<1>1. queue' \in SUBSET queue /\ last' = last /\ next' = next /\ Watch(0)
  BY DEF Leave
<1>2. FairShape /\ Queued(queue) /\ last \in Kind \cup {NoKind}
  BY DEF FairInv, FairShape
<1>3. ASSUME NEW i \in queue' PROVE Due(i)' \in Int /\ Due(i)' <= Due(i) - 0
  <2> DEFINE r == Rank(i, queue)
             r2 == Rank(i, queue')
             t == Turns(Start(last), i.workload)
  <2>1. t \in Nat /\ NKinds \in Nat
    BY <1>1, <1>2, DueIs, NKindsAssumption
  <2>2. r \in Nat /\ r2 \in Nat /\ r2 <= r
    BY <1>1, <1>2, RankInPart
  <2>3. Due(i)' = r2 * NKinds + t /\ Due(i) = r * NKinds + t
    BY <1>1 DEF Due
  <2> HIDE DEF r, r2, t
  <2>4. r2 * NKinds \in Nat /\ r * NKinds \in Nat /\ (r - r2) * NKinds \in Nat
    BY <2>1, <2>2
  <2>5. (r - r2) * NKinds = r * NKinds - r2 * NKinds
    BY <2>1, <2>2
  <2> QED
    BY <2>1, <2>3, <2>4, <2>5
<1> QED
  BY <1>1, <1>2, <1>3, RemovalKeeps

\* A grant brings every other request one nearer: those of the granted workload
\* by their rank, which outweighs the turns their workload now has to wait, the
\* others by the rotation.
LEMMA GrantKeeps == ASSUME FairInv, Grant PROVE FairInv'
<1>1. PICK p \in queue : /\ First(p) /\ queue' = queue \ {p} /\ Watch(1)
                         /\ last' = p.workload /\ next' = next
  BY DEF Grant
<1>2. FairShape /\ Queued(queue) /\ last \in Kind \cup {NoKind} /\ Start(last) \in Kind
      /\ queue # {} /\ p.workload \in Kind
  BY <1>1, StartIsKind DEF FairInv, FairShape, Queued
<1>3. p = Popped(queue, Start(last))
  BY <1>1, <1>2, FirstIsPopped DEF FairShape
<1>4. \A j \in queue :
        /\ j.workload = p.workload => p.sequence <= j.sequence
        /\ j.workload # p.workload =>
             Turns(Start(last), p.workload) < Turns(Start(last), j.workload)
  BY <1>2, <1>3, PoppedIs
<1>5. ASSUME NEW i \in queue \ {p} PROVE Due(i)' \in Int /\ Due(i)' <= Due(i) - 1
  <2> DEFINE r == Rank(i, queue)
             r2 == Rank(i, queue \ {p})
             t == Turns(Start(last), i.workload)
             tp == Turns(Start(last), p.workload)
             t2 == Turns(After(p.workload), i.workload)
  <2>1. r \in Nat /\ t \in Nat /\ NKinds \in Nat \ {0} /\ i.workload \in Kind
    BY <1>2, DueIs, NKindsAssumption
  <2>2. tp \in Nat /\ t2 \in Nat
    BY <1>2, <2>1, AfterIs, TurnsAdvance
  <2>3. p.workload # NoKind
    BY <1>2, NKindsAssumption DEF Kind, NoKind
  <2>4. Due(i)' = r2 * NKinds + t2 /\ Due(i) = r * NKinds + t
    BY <1>1, <2>3 DEF Due, Start
  <2>5. CASE i.workload = p.workload
    <3>1. p.sequence < i.sequence
      BY <1>2, <1>4, <2>5 DEF FairShape, Distinct, Queued
    <3>2. r = r2 + 1 /\ r2 \in Nat
      BY <1>2, <2>5, <3>1, RankIs, RankWithout
    <3>3. t2 = NKinds - 1
      BY <1>2, <2>5, TurnsAdvance
    <3> HIDE DEF r, r2, t, tp, t2
    <3>4. r * NKinds = r2 * NKinds + NKinds /\ r2 * NKinds \in Nat
      BY <2>1, <3>2
    <3> QED
      BY <2>1, <2>4, <3>3, <3>4
  <2>6. CASE i.workload # p.workload
    <3>1. r = r2
      BY <1>2, <2>6, RankWithout
    <3>2. tp < t
      BY <1>4, <2>6
    <3>3. t2 = t - tp - 1
      BY <1>2, <2>1, <2>2, <3>2, TurnsAdvance
    <3> HIDE DEF r, r2, t, tp, t2
    <3>4. r * NKinds \in Nat
      BY <2>1
    <3> QED
      BY <2>1, <2>2, <2>4, <3>1, <3>3, <3>4
  <2> QED
    BY <2>5, <2>6
<1> QED
  BY <1>1, <1>2, <1>5, RemovalKeeps

\* The inductive invariant.
THEOREM FairInvariant == Spec => []FairInv
<1>1. FairInv /\ [Next]_vars => FairInv'
  <2> SUFFICES ASSUME FairInv, [Next]_vars PROVE FairInv'
    OBVIOUS
  <2>1. ASSUME NEW t \in Ticket, NEW k \in Kind, Join(t, k) PROVE FairInv'
    BY <2>1, JoinKeeps
  <2>2. CASE Grant
    BY <2>2, GrantKeeps
  <2>3. CASE Leave
    BY <2>3, LeaveKeeps
  <2>4. CASE UNCHANGED vars
    BY <2>4 DEF vars, FairInv, FairShape, Patient, Due
  <2> QED
    BY <2>1, <2>2, <2>3, <2>4 DEF Next
<1> QED
  BY <1>1, FairInit, PTL DEF Spec

\* No workload starves another one: nobody is bypassed more often than the
\* requests ahead of it and the rotation explain.
THEOREM BypassIsBounded == Spec => []BypassBounded
<1>1. FairInv => BypassBounded
  <2> SUFFICES ASSUME FairInv, NEW i \in queue PROVE patience[i] >= 0
    BY DEF BypassBounded
  <2>1. patience[i] \in Int /\ patience[i] >= Due(i) /\ Due(i) \in Nat
    BY DueIs DEF FairInv, FairShape, Patient
  <2> QED
    BY <2>1
<1> QED
  BY <1>1, FairInvariant, PTL

\* The loop agrees with the declarative order in every state of the queue.
THEOREM OrderAlwaysRotates == Spec => []OrderIsRotation
<1>1. FairInv => OrderIsRotation
  <2> SUFFICES ASSUME FairInv PROVE OrderIsRotation
    OBVIOUS
  <2> DEFINE order == Order(queue, last)
  <2>1. Rotates(order, queue, Start(last))
    BY OrderRotates DEF FairInv, FairShape
  <2> HIDE DEF order
  <2>2. /\ Len(order) = Cardinality(queue)
        /\ \A i \in queue : \E n \in DOMAIN order : order[n] = i
        /\ \A n \in DOMAIN order : order[n] \in queue
    BY <2>1 DEF Rotates
  <2>3. {order[n] : n \in DOMAIN order} = queue
    BY <2>2
  <2>4. \A m, n \in DOMAIN order : m < n => ServedBefore(order[m], order[n], queue, last)
    BY <2>1 DEF Rotates, ServedFrom, ServedBefore
  <2> QED
    BY <2>2, <2>3, <2>4 DEF OrderIsRotation, order
<1> QED
  BY <1>1, FairInvariant, PTL
====

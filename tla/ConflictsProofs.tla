--------------------------- MODULE ConflictsProofs --------------------------
(***************************************************************************)
(* Proofs about Conflicts, for any devices, envelopes, relays and proofs,  *)
(* any quorum above the number of Byzantine relays, and any order in which *)
(* slots and proofs arrive.                                                *)
(***************************************************************************)
EXTENDS Conflicts, FiniteSetTheorems, TLAPS

\* less is a strict total order on S
StrictOrder(S, less) ==
    /\ \A x \in S : <<x, x>> \notin less
    /\ \A x, y, z \in S : <<x, y>> \in less /\ <<y, z>> \in less => <<x, z>> \in less
    /\ \A x, y \in S : x = y \/ <<x, y>> \in less \/ <<y, x>> \in less

\* Sorted lists every member of a finite ordered set once, in that order: each
\* member has a rank of its own, and there are as many ranks as members.
LEMMA SortedLists ==
    ASSUME NEW S, IsFiniteSet(S), NEW less, StrictOrder(S, less)
    PROVE  LET n == Cardinality(S)
               s == Sorted(S, less)
           IN /\ n \in Nat
              /\ s \in [1..n -> S]
              /\ \A x \in S : \E i \in 1..n : s[i] = x
              /\ \A i, j \in 1..n : i < j <=> <<s[i], s[j]>> \in less
<1> DEFINE n == Cardinality(S)
           below(x) == {y \in S : <<y, x>> \in less}
           rank == [x \in S |-> Cardinality(below(x))]
<1>1. n \in Nat
  BY FS_CardinalityType
<1>2. \A x \in S : IsFiniteSet(below(x)) /\ Cardinality(below(x)) \in Nat
                   /\ Cardinality(below(x)) < n
  <2> SUFFICES ASSUME NEW x \in S
               PROVE  IsFiniteSet(below(x)) /\ Cardinality(below(x)) \in Nat
                      /\ Cardinality(below(x)) < n
    OBVIOUS
  <2>1. below(x) \subseteq S /\ x \notin below(x)
    BY DEF StrictOrder
  <2> HIDE DEF below
  <2>2. IsFiniteSet(below(x)) /\ Cardinality(below(x)) =< n
        /\ (Cardinality(below(x)) = n <=> below(x) = S)
    BY <2>1, FS_Subset
  <2>3. Cardinality(below(x)) \in Nat
    BY <2>2, FS_CardinalityType
  <2> QED
    BY <1>1, <2>1, <2>2, <2>3
<1>3. \A x, y \in S : <<x, y>> \in less => Cardinality(below(x)) < Cardinality(below(y))
  <2> SUFFICES ASSUME NEW x \in S, NEW y \in S, <<x, y>> \in less
               PROVE  Cardinality(below(x)) < Cardinality(below(y))
    OBVIOUS
  <2>1. below(x) \subseteq below(y) /\ x \in below(y) /\ x \notin below(x)
    BY DEF StrictOrder
  <2> HIDE DEF below
  <2>2. Cardinality(below(x)) =< Cardinality(below(y))
        /\ (Cardinality(below(x)) = Cardinality(below(y)) <=> below(x) = below(y))
    BY <1>2, <2>1, FS_Subset
  <2> QED
    BY <1>2, <2>1, <2>2
<1> HIDE DEF n, below
<1>4. rank \in [S -> 0..(n - 1)]
  BY <1>1, <1>2
<1>5. \A x, y \in S : rank[x] = rank[y] => x = y
  <2> SUFFICES ASSUME NEW x \in S, NEW y \in S, x # y
               PROVE  Cardinality(below(x)) # Cardinality(below(y))
    OBVIOUS
  <2>1. <<x, y>> \in less \/ <<y, x>> \in less
    BY DEF StrictOrder
  <2> QED
    BY <1>2, <1>3, <2>1
<1>6. \A x \in S : rank[x] = Cardinality(below(x))
  OBVIOUS
<1> HIDE DEF rank
<1>7. rank \in Injection(S, 0..(n - 1))
  BY <1>4, <1>5 DEF Injection, IsInjective
<1>8. IsFiniteSet(0..(n - 1)) /\ Cardinality(0..(n - 1)) = n
  <2>1. 0 \in Int /\ n - 1 \in Int
    BY <1>1
  <2>2. IsFiniteSet(0..(n - 1)) /\ Cardinality(0..(n - 1)) = IF 0 > n - 1 THEN 0 ELSE (n - 1) - 0 + 1
    BY <2>1, FS_Interval
  <2> QED
    BY <1>1, <2>2
<1>9. rank \in Surjection(S, 0..(n - 1))
  BY <1>7, <1>8, FS_Injection DEF n
<1>10. \A i \in 1..n : \E x \in S : rank[x] = i - 1
  <2> SUFFICES ASSUME NEW i \in 1..n PROVE \E x \in S : rank[x] = i - 1
    OBVIOUS
  <2>1. i - 1 \in 0..(n - 1)
    BY <1>1
  <2> QED
    BY <1>9, <2>1 DEF Surjection
<1> DEFINE s == Sorted(S, less)
<1>11. s = [i \in 1..n |-> CHOOSE x \in S : rank[x] = i - 1]
  BY <1>6 DEF Sorted, n, below
<1> HIDE DEF s
<1>12. \A i \in 1..n : s[i] \in S /\ rank[s[i]] = i - 1
  BY <1>10, <1>11
<1>13. \A x \in S : \E i \in 1..n : s[i] = x
  <2> SUFFICES ASSUME NEW x \in S PROVE \E i \in 1..n : s[i] = x
    OBVIOUS
  <2>1. rank[x] + 1 \in 1..n /\ (rank[x] + 1) - 1 = rank[x]
    BY <1>1, <1>4
  <2>2. s[rank[x] + 1] = x
    BY <1>5, <1>12, <2>1
  <2> QED
    BY <2>1, <2>2
<1>14. \A i, j \in 1..n : i < j <=> <<s[i], s[j]>> \in less
  <2> SUFFICES ASSUME NEW i \in 1..n, NEW j \in 1..n
               PROVE  i < j <=> <<s[i], s[j]>> \in less
    OBVIOUS
  <2>1. /\ s[i] \in S /\ rank[s[i]] = i - 1 /\ s[j] \in S /\ rank[s[j]] = j - 1
    BY <1>12
  <2>2. <<s[i], s[j]>> \in less => i - 1 < j - 1
    BY <1>3, <1>6, <2>1
  <2>3. <<s[j], s[i]>> \in less => j - 1 < i - 1
    BY <1>3, <1>6, <2>1
  <2>4. s[i] = s[j] => i - 1 = j - 1
    BY <2>1
  <2>5. s[i] = s[j] \/ <<s[i], s[j]>> \in less \/ <<s[j], s[i]>> \in less
    BY <2>1 DEF StrictOrder
  <2> QED
    BY <2>2, <2>3, <2>4, <2>5
<1>15. s \in [1..n -> S]
  BY <1>11, <1>12
<1> QED
  BY <1>1, <1>13, <1>14, <1>15 DEF n, s

-----------------------------------------------------------------------------
(* The detector.                                                           *)

\* Numbers are strictly ordered.
LEMMA IdsAreOrdered == ASSUME NEW S \in SUBSET Nat PROVE StrictOrder(S, IdOrder(S))
<1>1. \A x, y \in S : <<x, y>> \in IdOrder(S) <=> x < y
  BY DEF IdOrder
<1>2. \A x \in S : x \in Nat
  OBVIOUS
<1> QED
  BY <1>1, <1>2 DEF StrictOrder

\* Pairs of numbers are, by their first and then their second member.
LEMMA PairsAreOrdered == ASSUME NEW S \in SUBSET (Nat \X Nat) PROVE StrictOrder(S, PairOrder(S))
<1>1. \A p, q \in S : <<p, q>> \in PairOrder(S) <=>
         p[1] < q[1] \/ (p[1] = q[1] /\ p[2] < q[2])
  BY DEF PairOrder
<1>2. \A p \in S : p[1] \in Nat /\ p[2] \in Nat /\ p = <<p[1], p[2]>>
  OBVIOUS
<1>3. \A x \in S : <<x, x>> \notin PairOrder(S)
  BY <1>1, <1>2
<1>4. \A x, y, z \in S : <<x, y>> \in PairOrder(S) /\ <<y, z>> \in PairOrder(S)
                          => <<x, z>> \in PairOrder(S)
  BY <1>1, <1>2
<1>5. \A x, y \in S : x = y \/ <<x, y>> \in PairOrder(S) \/ <<y, x>> \in PairOrder(S)
  <2> SUFFICES ASSUME NEW x \in S, NEW y \in S, x # y
               PROVE  <<x, y>> \in PairOrder(S) \/ <<y, x>> \in PairOrder(S)
    OBVIOUS
  <2>1. x = <<x[1], x[2]>> /\ y = <<y[1], y[2]>>
    BY <1>2
  <2>2. x[1] # y[1] \/ x[2] # y[2]
    BY <2>1
  <2>3. x[1] \in Nat /\ y[1] \in Nat /\ x[2] \in Nat /\ y[2] \in Nat
    BY <1>2
  <2>4. \/ x[1] < y[1] \/ (x[1] = y[1] /\ x[2] < y[2])
        \/ y[1] < x[1] \/ (y[1] = x[1] /\ y[2] < x[2])
    BY <2>2, <2>3
  <2> QED
    BY <1>1, <2>4
<1> QED
  BY <1>3, <1>4, <1>5 DEF StrictOrder

\* Positions are, by the id they hold and then their number.
LEMMA PositionsAreOrdered ==
    ASSUME NEW ids, NEW S \in SUBSET Nat, \A i \in S : ids[i] \in Nat
    PROVE  StrictOrder(S, ById(ids, S))
<1>1. \A i, j \in S : <<i, j>> \in ById(ids, S) <=>
         ids[i] < ids[j] \/ (ids[i] = ids[j] /\ i < j)
  BY DEF ById
<1>2. \A i \in S : i \in Nat /\ ids[i] \in Nat
  OBVIOUS
<1> QED
  BY <1>1, <1>2 DEF StrictOrder

\* A set of numbers has a least one.
LEMMA LeastOf ==
    ASSUME NEW S \in SUBSET Nat, S # {}
    PROVE  \E m \in S : \A n \in S : m =< n
<1> DEFINE R == OpToRel(<, Nat)
<1>1. \A x, y \in Nat : <<x, y>> \in R <=> x < y
  BY DEF OpToRel
<1>2. IsWellFoundedOn(R, Nat)
  BY NatLessThanWellFounded
<1> HIDE DEF R
<1>3. PICK m \in S : \A n \in S : ~(<<n, m>> \in R)
  BY <1>2, WFMin
<1>4. \A n \in S : ~(n < m) /\ n \in Nat /\ m \in Nat
  BY <1>1, <1>3
<1> QED
  BY <1>3, <1>4

\* Dropping an id that equals the one before it leaves a sorted list without
\* repetitions, and loses none of the ids in it: the first of each is kept.
LEMMA DedupedLists ==
    ASSUME NEW n \in Nat, NEW S \in SUBSET Nat, NEW ids \in [1..n -> S],
           \A i, j \in 1..n : i < j => ids[i] =< ids[j]
    PROVE  LET C == Range(ids)
               g == Deduped(ids)
               m == Cardinality(C)
           IN /\ m \in Nat /\ g \in [1..m -> C] /\ Len(g) = m /\ Range(g) = C
              /\ \A i, j \in 1..m : i < j <=> g[i] < g[j]
<1> DEFINE C == Range(ids)
           g == Deduped(ids)
           kept == {k \in 1..n : k = 1 \/ ids[k] # ids[k - 1]}
           order == Sorted(kept, IdOrder(kept))
           m == Cardinality(kept)
<1>1. kept \in SUBSET Nat /\ kept \subseteq 1..n /\ IsFiniteSet(kept)
  <2>1. IsFiniteSet(1..n) /\ kept \subseteq 1..n
    BY FS_Interval
  <2>2. IsFiniteSet(kept)
    BY <2>1, FS_Subset
  <2> QED
    BY <2>1, <2>2
<1>2. \A i \in 1..n : ids[i] \in Nat
  OBVIOUS
<1>3. \A i, j \in kept : i < j => ids[i] < ids[j]
  <2> SUFFICES ASSUME NEW i \in kept, NEW j \in kept, i < j PROVE ids[i] < ids[j]
    OBVIOUS
  <2>1. i \in 1..n /\ j \in 1..n /\ j - 1 \in 1..n /\ j # 1 /\ (i = j - 1 \/ i < j - 1)
    BY <1>1
  <2>2. ids[j] # ids[j - 1] /\ ids[j - 1] =< ids[j]
    BY <2>1
  <2>3. ids[i] =< ids[j - 1]
    BY <1>2, <2>1
  <2> QED
    BY <1>2, <2>1, <2>2, <2>3
<1>4. \A i \in 1..n : \E k \in kept : ids[k] = ids[i]
  <2> SUFFICES ASSUME NEW i \in 1..n PROVE \E k \in kept : ids[k] = ids[i]
    OBVIOUS
  <2> DEFINE equal == {k \in 1..n : ids[k] = ids[i]}
  <2>1. equal \in SUBSET Nat /\ i \in equal
    OBVIOUS
  <2>2. PICK k \in equal : \A l \in equal : k =< l
    BY <2>1, LeastOf
  <2>3. k \in 1..n /\ ids[k] = ids[i]
    BY <2>2
  <2>4. k = 1 \/ ids[k] # ids[k - 1]
    <3> SUFFICES ASSUME k # 1, ids[k] = ids[k - 1] PROVE FALSE
      OBVIOUS
    <3>1. k - 1 \in 1..n
      BY <2>3
    <3>2. k - 1 \in equal
      BY <2>3, <3>1
    <3> QED
      BY <2>2, <2>3, <3>2
  <2> QED
    BY <2>3, <2>4
<1>5. g = [k \in 1..m |-> ids[order[k]]]
  BY DEF Deduped
<1> HIDE DEF kept
<1>6. /\ m \in Nat /\ order \in [1..m -> kept]
      /\ \A x \in kept : \E i \in 1..m : order[i] = x
      /\ \A i, j \in 1..m : i < j <=> <<order[i], order[j]>> \in IdOrder(kept)
  BY <1>1, IdsAreOrdered, SortedLists
<1>7. \A i, j \in 1..m : i < j <=> order[i] < order[j]
  BY <1>6 DEF IdOrder
<1> HIDE DEF order, m, g
<1>8. g \in [1..m -> C] /\ Len(g) = m
  <2>1. \A i \in 1..m : order[i] \in 1..n
    BY <1>1, <1>6
  <2>2. g \in [1..m -> C]
    BY <1>5, <2>1 DEF Range
  <2>3. g \in Seq(C)
    BY <1>6, <2>2
  <2> QED
    BY <1>6, <2>2, <2>3
<1>9. \A i, j \in 1..m : i < j <=> g[i] < g[j]
  <2> SUFFICES ASSUME NEW i \in 1..m, NEW j \in 1..m PROVE i < j <=> g[i] < g[j]
    OBVIOUS
  <2> DEFINE a == order[i]
             b == order[j]
  <2>1. g[i] = ids[a] /\ g[j] = ids[b] /\ a \in kept /\ b \in kept
    BY <1>5, <1>6
  <2>2. a \in 1..n /\ b \in 1..n
    BY <1>1, <2>1
  <2>3. (i < j <=> a < b) /\ (j < i <=> b < a)
    BY <1>7
  <2>4. (a < b => ids[a] < ids[b]) /\ (b < a => ids[b] < ids[a])
    BY <1>3, <2>1
  <2>5. ids[a] \in Nat /\ ids[b] \in Nat
    BY <1>2, <2>2
  <2> HIDE DEF a, b
  <2>6. (a = b) \/ (a < b) \/ (b < a)
    BY <2>2
  <2> QED
    BY <2>1, <2>3, <2>4, <2>5, <2>6
<1>10. Range(g) = C
  <2>1. \A c \in C : \E i \in 1..m : g[i] = c
    <3> SUFFICES ASSUME NEW p \in 1..n PROVE \E i \in 1..m : g[i] = ids[p]
      BY DEF Range
    <3>1. PICK k \in kept : ids[k] = ids[p]
      BY <1>4
    <3>2. PICK i \in 1..m : order[i] = k
      BY <1>6
    <3> QED
      BY <1>5, <3>1, <3>2
  <2> HIDE DEF C
  <2> QED
    BY <1>8, <2>1 DEF Range
<1>11. Cardinality(C) = m
  <2>1. IsFiniteSet(1..m) /\ Cardinality(1..m) = m
    BY <1>6, FS_Interval
  <2>2. \A i, j \in 1..m : g[i] = g[j] => i = j
    <3> SUFFICES ASSUME NEW i \in 1..m, NEW j \in 1..m, g[i] = g[j] PROVE i = j
      OBVIOUS
    <3>1. g[i] \in Nat /\ g[j] \in Nat
      <4>1. C \subseteq Nat
        BY DEF Range
      <4> HIDE DEF C
      <4> QED
        BY <1>8, <4>1
    <3>2. ~(i < j) /\ ~(j < i)
      BY <1>9, <3>1
    <3> QED
      BY <3>2
  <2> HIDE DEF C
  <2>3. g \in Bijection(1..m, C)
    BY <1>8, <1>10, <2>2 DEF Bijection, Injection, Surjection, IsInjective, Range
  <2> QED
    BY <2>1, <2>3, FS_Bijection DEF ExistsBijection
<1> QED
  BY <1>6, <1>8, <1>9, <1>10, <1>11 DEF C, g

\* The ids that claim a slot, in ascending order, each once.
Claims(heard, key) == {id \in Range(heard) : SlotOf[id] = key}

LEMMA GroupFacts ==
    ASSUME NEW heard \in Seq(Envelopes), NEW key
    PROVE  LET C == Claims(heard, key)
               g == Group(heard, key)
               n == Cardinality(C)
           IN /\ C \subseteq Envelopes /\ IsFiniteSet(C) /\ n \in Nat
              /\ g \in [1..n -> C] /\ Len(g) = n /\ Range(g) = C
              /\ \A i, j \in 1..n : i < j <=> g[i] < g[j]
<1> DEFINE C == Claims(heard, key)
           g == Group(heard, key)
           claims == {i \in DOMAIN heard : SlotOf[heard[i]] = key}
           order == Sorted(claims, ById(heard, claims))
           m == Cardinality(claims)
           ids == [k \in 1..m |-> heard[order[k]]]
<1>1. C \subseteq Envelopes /\ Envelopes \subseteq Nat /\ IsFiniteSet(Envelopes)
  BY ConflictsAssumption DEF Claims, Range
<1>2. IsFiniteSet(C) /\ C \in SUBSET Nat
  BY <1>1, FS_Subset
<1>3. g = Deduped(ids)
  BY DEF Group
<1>4. claims \in SUBSET Nat /\ IsFiniteSet(claims)
  <2>1. DOMAIN heard = 1..Len(heard) /\ Len(heard) \in Nat
    OBVIOUS
  <2>2. IsFiniteSet(1..Len(heard))
    BY <2>1, FS_Interval
  <2>3. claims \subseteq 1..Len(heard)
    BY <2>1
  <2>4. 1..Len(heard) \subseteq Nat
    OBVIOUS
  <2> HIDE DEF claims
  <2> QED
    BY <2>2, <2>3, <2>4, FS_Subset
<1>5. \A i \in claims : heard[i] \in C /\ heard[i] \in Nat
  BY <1>1 DEF Claims, Range
<1>6. \A c \in C : \E i \in claims : heard[i] = c
  BY DEF Claims, Range
<1> HIDE DEF claims, C, g
<1>7. /\ m \in Nat /\ order \in [1..m -> claims]
      /\ \A x \in claims : \E i \in 1..m : order[i] = x
      /\ \A i, j \in 1..m : i < j <=> <<order[i], order[j]>> \in ById(heard, claims)
  BY <1>4, <1>5, PositionsAreOrdered, SortedLists
<1> HIDE DEF m, order
<1>8. ids \in [1..m -> C] /\ Range(ids) = C
  <2>1. ids \in [1..m -> C]
    BY <1>5, <1>7
  <2>2. \A c \in C : \E i \in 1..m : ids[i] = c
    BY <1>6, <1>7
  <2> QED
    BY <2>1, <2>2 DEF Range
<1>9. \A i, j \in 1..m : i < j => ids[i] =< ids[j]
  <2> SUFFICES ASSUME NEW i \in 1..m, NEW j \in 1..m, i < j
               PROVE  heard[order[i]] =< heard[order[j]]
    OBVIOUS
  <2>1. <<order[i], order[j]>> \in ById(heard, claims)
    BY <1>7
  <2>2. order[i] \in claims /\ order[j] \in claims
    BY <1>7
  <2>3. heard[order[i]] \in Nat /\ heard[order[j]] \in Nat
    BY <1>5, <2>2
  <2> QED
    BY <2>1, <2>3 DEF ById
<1> HIDE DEF ids
<1>10. /\ Cardinality(C) \in Nat /\ g \in [1..Cardinality(C) -> C]
       /\ Len(g) = Cardinality(C) /\ Range(g) = C
       /\ \A i, j \in 1..Cardinality(C) : i < j <=> g[i] < g[j]
  BY <1>2, <1>3, <1>7, <1>8, <1>9, DedupedLists
<1> QED
  BY <1>1, <1>2, <1>10 DEF C, g

\* The pairs detect_conflicts takes from a group are the ascending ones.
LEMMA PairsOfGroup ==
    ASSUME NEW heard \in Seq(Envelopes), NEW key
    PROVE  PairsOf(Group(heard, key)) =
             {p \in Claims(heard, key) \X Claims(heard, key) : p[1] < p[2]}
<1> DEFINE C == Claims(heard, key)
           g == Group(heard, key)
           n == Cardinality(C)
<1>1. /\ n \in Nat /\ g \in [1..n -> C] /\ Range(g) = C
      /\ \A i, j \in 1..n : i < j <=> g[i] < g[j]
  BY GroupFacts
<1> HIDE DEF C, g, n
<1>2. PairsOf(g) = {<<g[p[1]], g[p[2]]>> : p \in {q \in (1..n) \X (1..n) : q[1] < q[2]}}
  BY <1>1 DEF PairsOf
<1>3. \A p \in PairsOf(g) : p \in C \X C /\ p[1] < p[2]
  BY <1>1, <1>2
<1>4. ASSUME NEW a \in C, NEW b \in C, a < b PROVE <<a, b>> \in PairsOf(g)
  <2>1. PICK i \in 1..n, j \in 1..n : g[i] = a /\ g[j] = b
    BY <1>1 DEF Range
  <2>2. i < j
    BY <1>1, <1>4, <2>1
  <2>3. <<i, j>> \in {q \in (1..n) \X (1..n) : q[1] < q[2]}
    BY <2>2
  <2>4. <<g[<<i, j>>[1]], g[<<i, j>>[2]]>> \in PairsOf(g)
    BY <1>2, <2>3
  <2> QED
    BY <2>1, <2>4
<1>5. \A p \in C \X C : p[1] < p[2] => p \in PairsOf(g)
  BY <1>4
<1> QED
  BY <1>3, <1>5 DEF C, g

\* detect_conflicts reports the conflicting pairs of what it is given.
Conflicting(ids) == {p \in ids \X ids : p[1] < p[2] /\ ConflictsBetween(p[1], p[2])}

LEMMA DetectConflictsFacts ==
    ASSUME NEW heard \in Seq(Envelopes)
    PROVE  LET found == Conflicting(Range(heard))
           IN /\ DetectConflicts(heard) = Sorted(found, PairOrder(found))
              /\ Range(DetectConflicts(heard)) = found
<1> DEFINE ids == Range(heard)
           found == Conflicting(ids)
           pairs == UNION {PairsOf(Group(heard, key)) : key \in Keys}
<1>1. ids \subseteq Envelopes /\ Envelopes \subseteq Nat /\ IsFiniteSet(Envelopes)
  BY ConflictsAssumption DEF Range
<1>2. \A p \in pairs : p \in found
  <2> SUFFICES ASSUME NEW key \in Keys, NEW p \in PairsOf(Group(heard, key)) PROVE p \in found
    OBVIOUS
  <2>1. p \in Claims(heard, key) \X Claims(heard, key) /\ p[1] < p[2]
    BY PairsOfGroup
  <2>2. /\ p \in ids \X ids /\ SlotOf[p[1]] = SlotOf[p[2]]
        /\ p[1] \in Nat /\ p[2] \in Nat
    BY <1>1, <2>1 DEF Claims
  <2> QED
    BY <2>1, <2>2 DEF Conflicting, ConflictsBetween
<1>3. \A p \in found : p \in pairs
  <2> SUFFICES ASSUME NEW p \in found PROVE p \in pairs
    OBVIOUS
  <2>1. p \in ids \X ids /\ p[1] < p[2] /\ SlotOf[p[1]] = SlotOf[p[2]]
    BY DEF Conflicting, ConflictsBetween
  <2>2. p[1] \in ids /\ p[2] \in ids
    BY <2>1
  <2> DEFINE key == SlotOf[p[1]]
  <2>3. key \in Keys
    BY <1>1, <2>2 DEF Keys
  <2>4. p \in Claims(heard, key) \X Claims(heard, key)
    BY <2>1, <2>2 DEF Claims
  <2>5. p \in PairsOf(Group(heard, key))
    BY <2>1, <2>4, PairsOfGroup
  <2> QED
    BY <2>3, <2>5
<1>4. pairs = found
  BY <1>2, <1>3
<1> HIDE DEF pairs
<1>5. DetectConflicts(heard) = Sorted(found, PairOrder(found))
  BY <1>4 DEF DetectConflicts, pairs
<1>6. IsFiniteSet(found) /\ found \in SUBSET (Nat \X Nat)
  <2>1. found \subseteq Envelopes \X Envelopes
    BY <1>1 DEF Conflicting
  <2>2. IsFiniteSet(Envelopes \X Envelopes)
    BY <1>1, FS_Product
  <2> QED
    BY <1>1, <2>1, <2>2, FS_Subset
<1> HIDE DEF found, ids
<1> DEFINE s == Sorted(found, PairOrder(found))
           n == Cardinality(found)
<1>7. /\ n \in Nat /\ s \in [1..n -> found]
      /\ \A x \in found : \E i \in 1..n : s[i] = x
  BY <1>6, PairsAreOrdered, SortedLists
<1> HIDE DEF s, n
<1>8. Range(s) = found
  BY <1>7 DEF Range
<1> QED
  BY <1>5, <1>8 DEF s, found, ids

\* detect_nway_conflicts reports every slot that two or more ids claim, with
\* all of them.
LEMMA DetectNwayFacts ==
    ASSUME NEW heard \in Seq(Envelopes)
    PROVE  /\ Range(DetectNway(heard)) =
                 {g \in {Group(heard, key) : key \in Keys} : Len(g) >= 2}
           /\ \A g \in Range(DetectNway(heard)) : \E key \in Keys :
                 Range(g) = Claims(heard, key) /\ Cardinality(Claims(heard, key)) >= 2
           /\ \A key \in Keys : Cardinality(Claims(heard, key)) >= 2 =>
                 \E g \in Range(DetectNway(heard)) : Range(g) = Claims(heard, key)
<1> DEFINE groups == {g \in {Group(heard, key) : key \in Keys} : Len(g) >= 2}
<1>1. Envelopes \subseteq Nat /\ IsFiniteSet(Envelopes)
  BY ConflictsAssumption
<1>2. IsFiniteSet(groups)
  <2>1. IsFiniteSet(Keys)
    <3> DEFINE slot == [e \in Envelopes |-> SlotOf[e]]
    <3>1. slot \in Surjection(Envelopes, Keys)
      BY DEF Surjection, Keys
    <3> QED
      BY <1>1, <3>1, FS_Surjection
  <2> DEFINE group == [key \in Keys |-> Group(heard, key)]
  <2>2. group \in Surjection(Keys, {Group(heard, key) : key \in Keys})
    BY DEF Surjection
  <2>3. IsFiniteSet({Group(heard, key) : key \in Keys})
    BY <2>1, <2>2, FS_Surjection
  <2> QED
    BY <2>3, FS_Subset
<1>3. \A g \in groups : \E key \in Keys :
         /\ g = Group(heard, key) /\ Range(g) = Claims(heard, key)
         /\ Cardinality(Claims(heard, key)) = Len(g) /\ Len(g) \in Nat /\ Len(g) >= 2
         /\ g[1] \in Envelopes /\ SlotOf[g[1]] = key
  <2> SUFFICES ASSUME NEW key \in Keys, Len(Group(heard, key)) >= 2
               PROVE  LET g == Group(heard, key)
                      IN /\ Range(g) = Claims(heard, key)
                         /\ Cardinality(Claims(heard, key)) = Len(g) /\ Len(g) \in Nat
                         /\ g[1] \in Envelopes /\ SlotOf[g[1]] = key
    OBVIOUS
  <2> DEFINE g == Group(heard, key)
             C == Claims(heard, key)
             n == Cardinality(C)
  <2>1. /\ C \subseteq Envelopes /\ n \in Nat
        /\ g \in [1..n -> C] /\ Len(g) = n /\ Range(g) = C
    BY GroupFacts
  <2>2. 1 \in 1..n
    BY <2>1
  <2>3. g[1] \in C
    BY <2>1, <2>2
  <2> QED
    BY <2>1, <2>3 DEF Claims
<1>4. StrictOrder(groups, GroupOrder(groups))
  <2>1. \A g, h \in groups : <<g, h>> \in GroupOrder(groups) <=> g[1] < h[1]
    BY DEF GroupOrder
  <2>2. \A g \in groups : g[1] \in Nat
    BY <1>1, <1>3
  <2>3. \A g, h \in groups : g[1] = h[1] => g = h
    BY <1>3
  <2> HIDE DEF groups
  <2>4. \A g, h \in groups : g = h \/ g[1] < h[1] \/ h[1] < g[1]
    BY <2>2, <2>3
  <2> QED
    BY <2>1, <2>2, <2>4 DEF StrictOrder
<1>5. DetectNway(heard) = Sorted(groups, GroupOrder(groups))
  BY DEF DetectNway
<1>6. \A key \in Keys : Cardinality(Claims(heard, key)) >= 2 =>
         Group(heard, key) \in groups /\ Range(Group(heard, key)) = Claims(heard, key)
  BY GroupFacts
<1> HIDE DEF groups
<1> DEFINE s == Sorted(groups, GroupOrder(groups))
           n == Cardinality(groups)
<1>7. /\ n \in Nat /\ s \in [1..n -> groups]
      /\ \A x \in groups : \E i \in 1..n : s[i] = x
  BY <1>2, <1>4, SortedLists
<1> HIDE DEF s, n
<1>8. Range(s) = groups
  BY <1>7 DEF Range
<1>9. Range(DetectNway(heard)) = groups
  BY <1>5, <1>8 DEF s
<1> QED
  BY <1>3, <1>6, <1>9 DEF groups
\* A set of two is two different members.
LEMMA TwoMembers ==
    ASSUME NEW T, IsFiniteSet(T)
    PROVE  Cardinality(T) = 2 <=> \E a, b \in T : a # b /\ T = {a, b}
<1>1. ASSUME Cardinality(T) = 2 PROVE \E a, b \in T : a # b /\ T = {a, b}
  <2>1. PICK a : a \in T
    BY <1>1, FS_EmptySet
  <2>2. IsFiniteSet(T \ {a}) /\ Cardinality(T \ {a}) = Cardinality(T) - 1
    BY <2>1, FS_RemoveElement
  <2>3. PICK b : T \ {a} = {b}
    <3>1. Cardinality(T \ {a}) = 1
      BY <1>1, <2>2
    <3> QED
      BY <2>2, <3>1, FS_Singleton
  <2> QED
    BY <2>1, <2>3
<1>2. ASSUME NEW a \in T, NEW b \in T, a # b, T = {a, b} PROVE Cardinality(T) = 2
  <2>1. IsFiniteSet({a}) /\ Cardinality({a}) = 1
    BY FS_Singleton
  <2>2. Cardinality({a} \cup {b}) = 2
    BY <1>2, <2>1, FS_AddElement
  <2> QED
    BY <1>2, <2>2
<1> QED
  BY <1>1, <1>2

-----------------------------------------------------------------------------
(* What the devices hold.                                                  *)

\* Every device holds well-formed slots, at least one, and proofs.
Held == TypeOK /\ \A d \in Devices : slots[d] # <<>>

Slot == [id : Envelopes, at : Nat]

LEMMA HeldInitially == Init => Held
<1> SUFFICES ASSUME Init PROVE Held
  OBVIOUS
<1>1. PICK order \in SetToSeqs(Raced), first \in Devices :
        slots = [d \in Devices |->
            IF d = first THEN <<[id |-> order[1], at |-> 0]>>
            ELSE [i \in 1..(Len(order) - 1) |-> [id |-> order[i + 1], at |-> 0]]]
  BY DEF Init
<1> DEFINE n == Cardinality(Raced)
<1>2. Raced \subseteq Envelopes /\ n >= 2 /\ n \in Nat
  <2>1. IsFiniteSet(Raced) /\ n >= 2 /\ Raced \subseteq Envelopes
    BY ConflictsAssumption, FS_Subset
  <2> QED
    BY <2>1, FS_CardinalityType
<1>3. order \in [1..n -> Raced]
  BY DEF SetToSeqs
<1> HIDE DEF n
<1>4. Len(order) = n
  BY <1>2, <1>3
<1>5. \A i \in 1..n : order[i] \in Envelopes
  BY <1>2, <1>3
<1>6. [id |-> order[1], at |-> 0] \in Slot
  BY <1>2, <1>5 DEF Slot
<1> DEFINE rest == [i \in 1..(n - 1) |-> [id |-> order[i + 1], at |-> 0]]
<1>7. rest \in Seq(Slot) /\ rest # <<>>
  <2>1. \A i \in 1..(n - 1) : [id |-> order[i + 1], at |-> 0] \in Slot
    BY <1>2, <1>5 DEF Slot
  <2>2. n - 1 \in Nat /\ 1 \in 1..(n - 1)
    BY <1>2
  <2>3. rest \in [1..(n - 1) -> Slot]
    BY <2>1
  <2> HIDE DEF rest
  <2>4. rest \in Seq(Slot) /\ Len(rest) = n - 1
    BY <2>2, <2>3
  <2> QED
    BY <2>2, <2>4
<1>8. <<[id |-> order[1], at |-> 0]>> \in Seq(Slot)
      /\ <<[id |-> order[1], at |-> 0]>> # <<>>
  BY <1>6
<1>9. slots = [d \in Devices |->
            IF d = first THEN <<[id |-> order[1], at |-> 0]>> ELSE rest]
  BY <1>1, <1>4
<1> HIDE DEF rest
<1>10. slots \in [Devices -> Seq(Slot)] /\ \A d \in Devices : slots[d] # <<>>
  BY <1>7, <1>8, <1>9
<1>11. /\ observations \in [Devices -> [Envelopes -> SUBSET Proofs]]
       /\ open \in [Devices -> SUBSET Envelopes]
       /\ verdict \in [Devices -> Envelopes \cup {Unresolved}]
       /\ events \in 0..MaxEvents
  BY ConflictsAssumption DEF Init
<1> QED
  BY <1>10, <1>11 DEF Held, TypeOK, Slot

\* The ids of the slots a device holds.
LEMMA IdsFacts ==
    ASSUME Held, NEW d \in Devices
    PROVE  /\ Ids(slots[d]) \in Seq(Envelopes)
           /\ Range(Ids(slots[d])) = Heard(d)
           /\ Heard(d) \subseteq Envelopes
<1>1. slots[d] \in Seq(Slot)
  BY DEF Held, TypeOK, Slot
<1> DEFINE s == slots[d]
           n == Len(s)
<1>2. n \in Nat /\ DOMAIN s = 1..n /\ \A i \in 1..n : s[i] \in Slot
  BY <1>1
<1> HIDE DEF n, s
<1>3. \A i \in 1..n : s[i].id \in Envelopes
  BY <1>2 DEF Slot
<1>4. Ids(s) = [i \in 1..n |-> s[i].id]
  BY <1>2 DEF Ids
<1>5. Ids(s) \in [1..n -> Envelopes]
  BY <1>3, <1>4
<1>6. Ids(s) \in Seq(Envelopes)
  BY <1>2, <1>5
<1>7. Heard(d) = {s[i].id : i \in 1..n}
  BY <1>2 DEF Heard, s
<1>8. Range(Ids(s)) = {s[i].id : i \in 1..n}
  BY <1>4 DEF Range
<1> QED
  BY <1>3, <1>6, <1>7, <1>8 DEF s

\* What resolve_nway_conflict returns is one of its candidates, or nothing.
LEMMA NwayAnswer ==
    ASSUME NEW candidates, NEW evidence
    PROVE  ResolveNway(candidates, evidence) \in candidates \cup {Unresolved}
BY DEF ResolveNway

\* The relays whose proofs count are relays.
LEMMA SupportIsANumber ==
    ASSUME NEW evidence, NEW e, evidence[e] \in SUBSET Proofs
    PROVE  /\ DistinctValidRelays(evidence[e], e) \subseteq Relays
           /\ IsFiniteSet(DistinctValidRelays(evidence[e], e))
           /\ Support(evidence, e) \in Nat
<1>1. DistinctValidRelays(evidence[e], e) \subseteq Relays
  BY DEF DistinctValidRelays, Proofs
<1>2. IsFiniteSet(DistinctValidRelays(evidence[e], e))
  BY <1>1, ConflictsAssumption, FS_Subset
<1> QED
  BY <1>1, <1>2, FS_CardinalityType DEF Support

\* A proof counts for the envelope it is filed with.
Counts(p, e) == p.sequence = SlotOf[e].sequence /\ Verifies(p, e)

\* What arrives is proofs, and one that verifies for the envelope and the
\* sequence it is filed with is one its relay signed.
FilesProofs(d) == \E e \in Envelopes : \E proofs \in SUBSET Proofs :
    /\ File(d, e, proofs) /\ IsFiniteSet(proofs)
    /\ \A p \in proofs : Counts(p, e) => <<p.relay, e>> \in Carried

LEMMA OneProofFiled ==
    ASSUME NEW d, NEW e \in Envelopes, NEW p \in Proofs, File(d, e, {p}),
           Counts(p, e) => <<p.relay, e>> \in Carried
    PROVE  FilesProofs(d)
<1> DEFINE proofs == {p}
<1>1. IsFiniteSet(proofs) /\ proofs \in SUBSET Proofs
  BY FS_Singleton
<1>2. File(d, e, proofs) /\ \A q \in proofs : Counts(q, e) => <<q.relay, e>> \in Carried
  OBVIOUS
<1> HIDE DEF proofs
<1> QED
  BY <1>1, <1>2 DEF FilesProofs

LEMMA Filed ==
    ASSUME NEW d \in Devices, Attest(d) \/ ForgedProof(d) \/ Replay(d)
    PROVE  FilesProofs(d)
<1> USE DEF FilesProofs
<1>0. \A e \in Envelopes : SlotOf[e].sequence \in Int
  BY ConflictsAssumption
<1>1. \A r \in Relays, e \in Envelopes : Proof(r, e) \in Proofs
  BY <1>0 DEF Proof, Proofs
<1>2. ASSUME Attest(d) PROVE FilesProofs(d)
  <2>1. PICK e \in Envelopes :
           \E signers \in SUBSET {r \in Relays : <<r, e>> \in Carried} :
              File(d, e, {Proof(r, e) : r \in signers})
    BY <1>2 DEF Attest
  <2>4. PICK signers \in SUBSET {r \in Relays : <<r, e>> \in Carried} :
           File(d, e, {Proof(r, e) : r \in signers})
    BY <2>1
  <2>2. {Proof(r, e) : r \in signers} \in SUBSET Proofs
    BY <1>1
  <2>3. \A p \in {Proof(r, e) : r \in signers} : <<p.relay, e>> \in Carried
    BY DEF Proof
  <2>5. IsFiniteSet({Proof(r, e) : r \in signers})
    <3> DEFINE proof == [r \in signers |-> Proof(r, e)]
    <3>1. IsFiniteSet(signers)
      BY ConflictsAssumption, FS_Subset
    <3>2. proof \in Surjection(signers, {Proof(r, e) : r \in signers})
      BY DEF Surjection
    <3> QED
      BY <3>1, <3>2, FS_Surjection
  <2> QED
    BY <2>2, <2>3, <2>4, <2>5
<1>3. ASSUME ForgedProof(d) PROVE FilesProofs(d)
  <2>1. CASE \E r \in Relays, e, under \in Envelopes :
               /\ <<r, e, under>> \in Forged
               /\ File(d, under, {[Proof(r, e) EXCEPT !.intact = (e # under)]})
    <3>1. PICK r \in Relays, e \in Envelopes, under \in Envelopes :
             File(d, under, {[Proof(r, e) EXCEPT !.intact = (e # under)]})
      BY <2>1
    <3> DEFINE p == [Proof(r, e) EXCEPT !.intact = (e # under)]
    <3>2. p = [relay |-> r, tx |-> e, sequence |-> SlotOf[e].sequence,
               chain |-> 1, intact |-> (e # under)]
      BY DEF Proof
    <3>3. p \in Proofs
      BY <1>0, <3>2 DEF Proofs
    <3>4. ~Verifies(p, under)
      BY <3>2 DEF Verifies
    <3>5. ~Counts(p, under)
      BY <3>4 DEF Counts
    <3> QED
      BY <3>1, <3>3, <3>5, OneProofFiled
  <2>2. CASE \E r \in Byzantine, e \in Envelopes :
               /\ <<r, e>> \in Carried
               /\ File(d, e, {[Proof(r, e) EXCEPT !.chain = 2]})
    <3>1. PICK r \in Byzantine, e \in Envelopes :
             /\ <<r, e>> \in Carried
             /\ File(d, e, {[Proof(r, e) EXCEPT !.chain = 2]})
      BY <2>2
    <3> DEFINE p == [Proof(r, e) EXCEPT !.chain = 2]
    <3>2. Proof(r, e) \in Proofs /\ Proof(r, e).relay = r
      BY <1>1, ConflictsAssumption DEF Proof
    <3>3. p \in Proofs
      BY <3>2 DEF Proofs
    <3>4. p.relay = r
      BY <3>2 DEF Proofs
    <3>5. File(d, e, {p}) /\ <<p.relay, e>> \in Carried
      BY <3>1, <3>4
    <3> HIDE DEF p
    <3> QED
      BY <3>3, <3>5, OneProofFiled
  <2> QED
    BY <1>3, <2>1, <2>2 DEF ForgedProof
<1>4. ASSUME Replay(d) PROVE FilesProofs(d)
  <2>1. PICK r \in Relays, e \in Envelopes :
           File(d, e, {[Proof(r, e) EXCEPT !.sequence = @ + 1]})
    BY <1>4 DEF Replay
  <2> DEFINE p == [Proof(r, e) EXCEPT !.sequence = @ + 1]
  <2>2. Proof(r, e) \in Proofs /\ Proof(r, e).sequence = SlotOf[e].sequence
    BY <1>1 DEF Proof
  <2>3. p \in Proofs
    BY <2>2 DEF Proofs
  <2>4. p.sequence = SlotOf[e].sequence + 1
    BY <2>2 DEF Proofs
  <2>5. File(d, e, {p}) /\ ~Counts(p, e)
    BY <1>0, <2>1, <2>4 DEF Counts
  <2> HIDE DEF p
  <2> QED
    BY <2>3, <2>5, OneProofFiled
<1> QED
  BY <1>2, <1>3, <1>4

LEMMA HeldKept == Held /\ [Next]_vars => Held'
<1> SUFFICES ASSUME Held, [Next]_vars PROVE Held'
  OBVIOUS
<1> USE DEF Held, TypeOK
<1>1. CASE UNCHANGED vars
  BY <1>1 DEF vars
<1>2. CASE Next
  <2>1. PICK d \in Devices :
          \/ \E e \in Envelopes : Hear(d, e)
          \/ Attest(d) \/ ForgedProof(d) \/ Replay(d)
          \/ Detect(d)
          \/ Resolve(d)
    BY <1>2 DEF Next
  <2>2. CASE \E e \in Envelopes : Hear(d, e)
    <3>1. PICK e \in Envelopes, later \in {0, 1} :
            /\ events < MaxEvents /\ events' = events + 1
            /\ slots' = [slots EXCEPT ![d] =
                  Append(@, [id |-> e, at |-> Last(@).at + later])]
            /\ UNCHANGED <<observations, open, verdict>>
      BY <2>2 DEF Hear, Message
    <3>2. slots[d] \in Seq(Slot) /\ slots[d] # <<>>
      BY DEF Slot
    <3>3. Last(slots[d]) \in Slot
      BY <3>2 DEF Last
    <3>4. [id |-> e, at |-> Last(slots[d]).at + later] \in Slot
      BY <3>3 DEF Slot
    <3> DEFINE heard == Append(slots[d], [id |-> e, at |-> Last(slots[d]).at + later])
    <3>5. heard \in Seq(Slot) /\ heard # <<>>
      <4>1. /\ heard \in Seq(Slot)
            /\ Len(heard) = Len(slots[d]) + 1 /\ Len(slots[d]) \in Nat
        BY <3>2, <3>4
      <4>2. Len(heard) # 0
        BY <4>1
      <4> HIDE DEF heard
      <4> QED
        BY <4>1, <4>2
    <3>6. slots' \in [Devices -> Seq(Slot)] /\ \A c \in Devices : slots'[c] # <<>>
      BY <3>1, <3>5 DEF Slot
    <3>7. events' \in 0..MaxEvents
      BY <3>1, ConflictsAssumption
    <3> QED
      BY <3>1, <3>6, <3>7 DEF Slot
  <2>3. CASE Attest(d) \/ ForgedProof(d) \/ Replay(d)
    <3>1. PICK e \in Envelopes : \E proofs \in SUBSET Proofs : File(d, e, proofs)
      BY <2>3, Filed DEF FilesProofs
    <3>3. PICK proofs \in SUBSET Proofs : File(d, e, proofs)
      BY <3>1
    <3>2. events' \in 0..MaxEvents
      BY <3>3, ConflictsAssumption DEF File, Message
    <3> QED
      BY <3>2, <3>3 DEF File
  <2>4. CASE Detect(d)
    <3>1. PICK i \in DOMAIN DetectNway(Ids(slots[d])) :
            open' = [open EXCEPT ![d] = Range(DetectNway(Ids(slots[d]))[i])]
      BY <2>4 DEF Detect
    <3>2. Range(DetectNway(Ids(slots[d]))[i]) \subseteq Envelopes
      <4>1. Ids(slots[d]) \in Seq(Envelopes) /\ Heard(d) \subseteq Envelopes
            /\ Range(Ids(slots[d])) = Heard(d)
        BY IdsFacts
      <4>2. DetectNway(Ids(slots[d]))[i] \in Range(DetectNway(Ids(slots[d])))
        BY DEF Range
      <4>3. PICK key \in Keys :
               Range(DetectNway(Ids(slots[d]))[i]) = Claims(Ids(slots[d]), key)
        BY <4>1, <4>2, DetectNwayFacts
      <4> QED
        BY <4>1, <4>3 DEF Claims
    <3> QED
      BY <2>4, <3>1, <3>2 DEF Detect
  <2>5. CASE Resolve(d)
    <3>1. PICK v \in Envelopes \cup {Unresolved} : verdict' = [verdict EXCEPT ![d] = v]
      BY <2>5, NwayAnswer DEF Resolve
    <3> QED
      BY <2>5, <3>1 DEF Resolve
  <2> QED
    BY <2>1, <2>2, <2>3, <2>4, <2>5
<1> QED
  BY <1>1, <1>2
-----------------------------------------------------------------------------
(* Detection.                                                              *)

\* Every two ids of a group conflict, and every conflicting pair is in one.
LEMMA PairsAreGroups ==
    ASSUME NEW heard \in Seq(Envelopes)
    PROVE  {{p[1], p[2]} : p \in Conflicting(Range(heard))}
             = UNION {kSubset(2, Range(g)) : g \in Range(DetectNway(heard))}
<1> DEFINE ids == Range(heard)
           groups == Range(DetectNway(heard))
<1>1. ids \subseteq Envelopes /\ Envelopes \subseteq Nat
  BY ConflictsAssumption DEF Range
<1>2. \A key : IsFiniteSet(Claims(heard, key)) /\ Cardinality(Claims(heard, key)) \in Nat
               /\ Claims(heard, key) \subseteq Envelopes
  BY GroupFacts
<1>3. ASSUME NEW p \in Conflicting(ids)
      PROVE  \E g \in groups : {p[1], p[2]} \in kSubset(2, Range(g))
  <2>1. /\ p[1] \in ids /\ p[2] \in ids /\ p[1] < p[2]
        /\ SlotOf[p[1]] = SlotOf[p[2]]
    BY DEF Conflicting, ConflictsBetween
  <2> DEFINE key == SlotOf[p[1]]
             T == {p[1], p[2]}
             C == Claims(heard, key)
  <2>2. T \subseteq C /\ key \in Keys /\ p[1] # p[2]
    <3>1. T \subseteq C /\ key \in Keys
      BY <1>1, <2>1 DEF Claims, Keys
    <3>2. p[1] \in Nat /\ p[2] \in Nat
      BY <1>1, <2>1
    <3> QED
      BY <2>1, <3>1, <3>2
  <2>3. IsFiniteSet(C) /\ Cardinality(C) \in Nat
    BY <1>2
  <2>4. IsFiniteSet(T) /\ Cardinality(T) =< Cardinality(C)
    BY <2>2, <2>3, FS_Subset
  <2>5. Cardinality(T) = 2
    BY <2>2, <2>4, TwoMembers
  <2>6. PICK g \in groups : Range(g) = C
    BY <2>2, <2>3, <2>4, <2>5, DetectNwayFacts
  <2> QED
    BY <2>2, <2>5, <2>6 DEF kSubset
<1>4. ASSUME NEW g \in groups, NEW T \in kSubset(2, Range(g))
      PROVE  \E p \in Conflicting(ids) : T = {p[1], p[2]}
  <2>1. PICK key \in Keys : Range(g) = Claims(heard, key)
    BY DetectNwayFacts
  <2>2. T \subseteq Claims(heard, key) /\ Cardinality(T) = 2
    BY <2>1 DEF kSubset
  <2>3. IsFiniteSet(T)
    BY <1>2, <2>2, FS_Subset
  <2>4. PICK a \in T, b \in T : a # b /\ T = {a, b}
    BY <2>2, <2>3, TwoMembers
  <2>5. /\ a \in ids /\ b \in ids /\ a \in Nat /\ b \in Nat
        /\ SlotOf[a] = SlotOf[b]
    BY <1>1, <2>2 DEF Claims
  <2>8. a < b \/ b < a
    BY <2>4, <2>5
  <2>6. CASE a < b
    <3>1. <<a, b>> \in Conflicting(ids)
      BY <2>4, <2>5, <2>6 DEF Conflicting, ConflictsBetween
    <3> QED
      BY <2>4, <3>1
  <2>7. CASE b < a
    <3>1. <<b, a>> \in Conflicting(ids)
      BY <2>4, <2>5, <2>7 DEF Conflicting, ConflictsBetween
    <3> QED
      BY <2>4, <3>1
  <2> QED
    BY <2>6, <2>7, <2>8
<1> HIDE DEF ids, groups
<1> QED
  BY <1>3, <1>4 DEF ids, groups

LEMMA DetectionOfAView == Held => DetectionIgnoresArrival
<1> SUFFICES ASSUME Held, NEW d \in Devices
             PROVE  LET pairs  == DetectConflicts(Ids(slots[d]))
                        groups == DetectNway(Ids(slots[d]))
                        found  == Conflicting(Heard(d))
                    IN /\ pairs = Sorted(found, PairOrder(found))
                       /\ {{p[1], p[2]} : p \in Range(pairs)}
                            = UNION {kSubset(2, Range(g)) : g \in Range(groups)}
  BY DEF DetectionIgnoresArrival, Conflicting
<1>1. Ids(slots[d]) \in Seq(Envelopes) /\ Range(Ids(slots[d])) = Heard(d)
  BY IdsFacts
<1> QED
  BY <1>1, DetectConflictsFacts, PairsAreGroups

LEMMA DetectionOfTheMerge == Held => MergeFindsEveryConflict
<1> SUFFICES ASSUME Held PROVE MergeFindsEveryConflict
  OBVIOUS
<1> DEFINE ids == UNION {Heard(d) : d \in Devices}
           n == Cardinality(ids)
<1>1. ids \subseteq Envelopes
  BY IdsFacts
<1>2. IsFiniteSet(Envelopes) /\ Envelopes \subseteq Nat
  BY ConflictsAssumption
<1>3. MergedSlots = Sorted(ids, IdOrder(ids))
  BY DEF MergedSlots
<1> HIDE DEF ids
<1>4. IsFiniteSet(ids) /\ ids \in SUBSET Nat
  BY <1>1, <1>2, FS_Subset
<1>5. /\ n \in Nat /\ MergedSlots \in [1..n -> ids]
      /\ \A x \in ids : \E i \in 1..n : MergedSlots[i] = x
  BY <1>3, <1>4, IdsAreOrdered, SortedLists
<1> HIDE DEF n
<1>6. MergedSlots \in [1..n -> Envelopes]
  BY <1>1, <1>5
<1>7. MergedSlots \in Seq(Envelopes)
  BY <1>5, <1>6
<1>8. Range(MergedSlots) = ids
  BY <1>5 DEF Range
<1>9. Range(DetectConflicts(MergedSlots)) = Conflicting(ids)
  BY <1>7, <1>8, DetectConflictsFacts
<1> DEFINE same == {pair \in kSubset(2, ids) : \A e, f \in pair : SlotOf[e] = SlotOf[f]}
<1>10. ASSUME NEW p \in Conflicting(ids) PROVE {p[1], p[2]} \in same
  <2>1. /\ p[1] \in ids /\ p[2] \in ids /\ p[1] # p[2]
        /\ SlotOf[p[1]] = SlotOf[p[2]]
    BY DEF Conflicting, ConflictsBetween
  <2>2. {p[1], p[2]} \subseteq ids
    BY <2>1
  <2>3. IsFiniteSet({p[1], p[2]})
    BY <1>4, <2>2, FS_Subset
  <2>4. Cardinality({p[1], p[2]}) = 2
    BY <2>1, <2>3, TwoMembers
  <2> QED
    BY <2>1, <2>2, <2>4 DEF kSubset
<1>11. ASSUME NEW T \in same PROVE \E p \in Conflicting(ids) : T = {p[1], p[2]}
  <2>1. T \subseteq ids /\ Cardinality(T) = 2 /\ \A e, f \in T : SlotOf[e] = SlotOf[f]
    BY DEF kSubset
  <2>2. IsFiniteSet(T)
    BY <1>4, <2>1, FS_Subset
  <2>3. PICK a \in T, b \in T : a # b /\ T = {a, b}
    BY <2>1, <2>2, TwoMembers
  <2>4. a \in ids /\ b \in ids /\ a \in Nat /\ b \in Nat /\ SlotOf[a] = SlotOf[b]
    BY <1>4, <2>1
  <2>5. CASE a < b
    <3>1. <<a, b>> \in Conflicting(ids)
      BY <2>3, <2>4, <2>5 DEF Conflicting, ConflictsBetween
    <3> QED
      BY <2>3, <3>1
  <2>6. CASE b < a
    <3>1. <<b, a>> \in Conflicting(ids)
      BY <2>3, <2>4, <2>6 DEF Conflicting, ConflictsBetween
    <3> QED
      BY <2>3, <3>1
  <2> QED
    BY <2>3, <2>4, <2>5, <2>6
<1> HIDE DEF same
<1>12. {{p[1], p[2]} : p \in Conflicting(ids)} = same
  BY <1>10, <1>11
<1> QED
  BY <1>9, <1>12 DEF MergeFindsEveryConflict, same, ids

-----------------------------------------------------------------------------
(* Resolution.                                                             *)

\* MIN_QUORUM is not zero: it exceeds a number of relays.
LEMMA QuorumIsPositive ==
    /\ MinQuorum \in Nat /\ MinQuorum >= 1
    /\ IsFiniteSet(Byzantine) /\ Cardinality(Byzantine) \in Nat
    /\ Cardinality(Byzantine) < MinQuorum
<1>1. IsFiniteSet(Byzantine)
  BY ConflictsAssumption, FS_Subset
<1>2. Cardinality(Byzantine) \in Nat
  BY <1>1, FS_CardinalityType
<1> QED
  BY <1>1, <1>2, ConflictsAssumption

\* resolve_nway_conflict names the candidate that has a quorum and more
\* support than every other one, and nobody when there is none.
LEMMA NwayFacts ==
    ASSUME NEW candidates \in SUBSET Envelopes, NEW evidence, DOMAIN evidence = candidates,
           \A e \in candidates : Support(evidence, e) \in Nat
    PROVE  \A w \in candidates :
             ResolveNway(candidates, evidence) = w <=>
               /\ Support(evidence, w) >= MinQuorum
               /\ \A e \in candidates \ {w} : Support(evidence, e) < Support(evidence, w)
<1> DEFINE top == {e \in candidates : \A f \in candidates :
                     Support(evidence, e) >= Support(evidence, f)}
           R == ResolveNway(candidates, evidence)
<1>1. R = IF \E e \in top : top = {e} /\ Support(evidence, e) >= MinQuorum
          THEN CHOOSE e \in top : TRUE
          ELSE Unresolved
  BY DEF ResolveNway
<1>2. ASSUME NEW w \in candidates, R = w
      PROVE  /\ Support(evidence, w) >= MinQuorum
             /\ \A e \in candidates \ {w} : Support(evidence, e) < Support(evidence, w)
  <2> HIDE DEF top, R
  <2>1. R # Unresolved
    BY <1>2, UnresolvedAssumption
  <2>2. PICK e \in top : top = {e} /\ Support(evidence, e) >= MinQuorum
    BY <1>1, <2>1
  <2>3. (CHOOSE x \in top : TRUE) = e
    BY <2>2
  <2>4. w = e
    BY <1>1, <1>2, <2>2, <2>3
  <2>5. \A f \in candidates \ {w} : Support(evidence, f) < Support(evidence, w)
    <3> SUFFICES ASSUME NEW f \in candidates \ {w}
                 PROVE  Support(evidence, f) < Support(evidence, w)
      OBVIOUS
    <3>1. f \notin top /\ w \in top
      BY <2>2, <2>4
    <3>2. PICK g \in candidates : ~(Support(evidence, f) >= Support(evidence, g))
      BY <3>1 DEF top
    <3>3. Support(evidence, w) >= Support(evidence, g)
      BY <3>1 DEF top
    <3>4. /\ Support(evidence, f) \in Nat /\ Support(evidence, g) \in Nat
          /\ Support(evidence, w) \in Nat
      OBVIOUS
    <3> QED
      BY <3>2, <3>3, <3>4
  <2> QED
    BY <2>2, <2>4, <2>5
<1>3. ASSUME NEW w \in candidates, Support(evidence, w) >= MinQuorum,
             \A e \in candidates \ {w} : Support(evidence, e) < Support(evidence, w)
      PROVE  R = w
  <2>1. \A e \in candidates : Support(evidence, w) >= Support(evidence, e)
    <3> SUFFICES ASSUME NEW e \in candidates
                 PROVE  Support(evidence, w) >= Support(evidence, e)
      OBVIOUS
    <3>1. Support(evidence, w) \in Nat /\ Support(evidence, e) \in Nat
      OBVIOUS
    <3> QED
      BY <1>3, <3>1
  <2>2. \A e \in candidates \ {w} : ~(Support(evidence, e) >= Support(evidence, w))
    <3> SUFFICES ASSUME NEW e \in candidates \ {w}
                 PROVE  ~(Support(evidence, e) >= Support(evidence, w))
      OBVIOUS
    <3>1. Support(evidence, w) \in Nat /\ Support(evidence, e) \in Nat
      OBVIOUS
    <3> QED
      BY <1>3, <3>1
  <2>3. top = {w}
    BY <2>1, <2>2
  <2> HIDE DEF top, R
  <2> QED
    BY <1>1, <1>3, <2>3
<1> QED
  BY <1>2, <1>3

\* A quorum of relays holds one that is not Byzantine.
LEMMA QuorumHasHonest ==
    ASSUME NEW Q \in SUBSET Relays, Cardinality(Q) >= MinQuorum
    PROVE  \E r \in Q : r \notin Byzantine
<1> SUFFICES ASSUME Q \subseteq Byzantine PROVE FALSE
  OBVIOUS
<1>1. IsFiniteSet(Q) /\ Cardinality(Q) =< Cardinality(Byzantine)
  BY QuorumIsPositive, FS_Subset
<1>2. Cardinality(Q) \in Nat
  BY <1>1, FS_CardinalityType
<1> QED
  BY <1>1, <1>2, QuorumIsPositive

\* A relay is counted for an envelope only when it signed a proof of it.
SignedOnly == \A d \in Devices, e \in Envelopes :
    \A p \in observations[d][e] : Counts(p, e) => <<p.relay, e>> \in Carried

Inv == Held /\ SignedOnly /\ HonestRelayBehindWinner

LEMMA InvInitially == Init => Inv
<1> SUFFICES ASSUME Init PROVE Inv
  OBVIOUS
<1>1. Held
  BY HeldInitially
<1>2. SignedOnly
  BY DEF Init, SignedOnly
<1>3. HonestRelayBehindWinner
  BY DEF Init, HonestRelayBehindWinner
<1> QED
  BY <1>1, <1>2, <1>3 DEF Inv

\* Proofs only arrive by File, and those that count are signed.
LEMMA SignedKept == Held /\ SignedOnly /\ [Next]_vars => SignedOnly'
<1> SUFFICES ASSUME Held, SignedOnly, [Next]_vars PROVE SignedOnly'
  OBVIOUS
<1>1. CASE observations' = observations
  BY <1>1 DEF SignedOnly
<1>2. CASE \E d \in Devices : Attest(d) \/ ForgedProof(d) \/ Replay(d)
  <2>1. PICK d \in Devices : FilesProofs(d)
    BY <1>2, Filed
  <2>2. PICK e \in Envelopes : \E proofs \in SUBSET Proofs :
           /\ File(d, e, proofs)
           /\ \A p \in proofs : Counts(p, e) => <<p.relay, e>> \in Carried
    BY <2>1 DEF FilesProofs
  <2>3. PICK proofs \in SUBSET Proofs :
           /\ observations' = [observations EXCEPT ![d][e] = @ \cup proofs]
           /\ \A p \in proofs : Counts(p, e) => <<p.relay, e>> \in Carried
    BY <2>2 DEF File
  <2>4. \A c \in Devices, f \in Envelopes : \A p \in observations'[c][f] :
           p \in observations[c][f] \/ (f = e /\ p \in proofs)
    BY <2>3 DEF Held, TypeOK
  <2> QED
    BY <2>3, <2>4 DEF SignedOnly
<1> QED
  BY <1>1, <1>2 DEF Next, vars, Hear, Detect, Resolve

\* A quorum for a candidate has a relay in it that is honest and signed.
LEMMA HonestKept == Inv /\ [Next]_vars => HonestRelayBehindWinner'
<1> SUFFICES ASSUME Inv, [Next]_vars, NEW d \in Devices, verdict'[d] # Unresolved
             PROVE  \E r \in Relays \ Byzantine : <<r, verdict'[d]>> \in Carried
  BY DEF HonestRelayBehindWinner
<1>1. CASE verdict'[d] = verdict[d]
  BY <1>1 DEF Inv, HonestRelayBehindWinner
<1>2. CASE verdict'[d] # verdict[d]
  <2>1. Resolve(d)
    <3>1. ~(UNCHANGED verdict)
      BY <1>2
    <3>2. PICK c \in Devices : Detect(c) \/ Resolve(c)
      BY <3>1 DEF Next, vars, Hear, File, Attest, ForgedProof, Replay
    <3>3. verdict \in [Devices -> Envelopes \cup {Unresolved}]
      BY DEF Inv, Held, TypeOK
    <3>4. c = d
      BY <1>2, <3>2, <3>3 DEF Detect, Resolve
    <3>5. ~Detect(d)
      BY <3>3 DEF Detect
    <3> QED
      BY <3>2, <3>4, <3>5
  <2> DEFINE key == SlotOf[CHOOSE e \in open[d] : TRUE]
             evidence == [e \in Contenders(d, key) |-> observations[d][e]]
             w == ResolveNway(open[d], evidence)
  <2>2. verdict'[d] = w
    BY <2>1 DEF Resolve, Inv, Held, TypeOK
  <2>3. w \in open[d] /\ w # Unresolved
    BY <2>2, NwayAnswer
  <2>4. open[d] \subseteq Envelopes
    BY DEF Inv, Held, TypeOK
  <2>5. DOMAIN evidence = open[d]
    BY <2>3 DEF ResolveNway
  <2>6. \A e \in open[d] : evidence[e] = observations[d][e] /\ evidence[e] \in SUBSET Proofs
    BY <2>4, <2>5 DEF Inv, Held, TypeOK
  <2> HIDE DEF evidence
  <2>7. \A e \in open[d] : /\ Support(evidence, e) \in Nat
                           /\ DistinctValidRelays(evidence[e], e) \subseteq Relays
    BY <2>6, SupportIsANumber
  <2>8. w \in open[d] /\ Support(evidence, w) >= MinQuorum
    BY <2>3, <2>4, <2>5, <2>7, NwayFacts
  <2>9. PICK r \in DistinctValidRelays(evidence[w], w) : r \notin Byzantine
    BY <2>7, <2>8, QuorumHasHonest DEF Support
  <2>10. PICK p \in observations[d][w] : p.relay = r /\ Counts(p, w)
    BY <2>6, <2>8 DEF DistinctValidRelays, Counts
  <2>11. <<r, w>> \in Carried
    BY <2>4, <2>8, <2>10 DEF Inv, SignedOnly
  <2> QED
    BY <2>2, <2>7, <2>8, <2>9, <2>11
<1> QED
  BY <1>1, <1>2

LEMMA InvKept == Inv /\ [Next]_vars => Inv'
BY HeldKept, SignedKept, HonestKept DEF Inv

LEMMA Invariance == Spec => []Inv
BY InvInitially, InvKept, PTL DEF Spec
\* With more relays behind one side of a pair, a quorum of them, that side
\* wins; with neither ahead and at a quorum, nobody does.
LEMMA PairFacts ==
    ASSUME NEW a, NEW b, NEW evidence, a # b, a # Unresolved, b # Unresolved,
           Support(evidence, a) \in Nat, Support(evidence, b) \in Nat
    PROVE  LET nA == Support(evidence, a)
               nB == Support(evidence, b)
               R  == ResolveConflict(a, b, evidence)
           IN /\ R = a <=> nA >= MinQuorum /\ nA > nB
              /\ R = b <=> nB >= MinQuorum /\ nB > nA
              /\ R \in {a, b, Unresolved}
<1> DEFINE nA == Support(evidence, a)
           nB == Support(evidence, b)
<1>1. CASE nA >= MinQuorum /\ nA > nB
  BY <1>1 DEF ResolveConflict
<1>2. CASE nB >= MinQuorum /\ nB > nA
  BY <1>2 DEF ResolveConflict
<1>3. CASE ~(nA >= MinQuorum /\ nA > nB) /\ ~(nB >= MinQuorum /\ nB > nA)
  BY <1>3 DEF ResolveConflict
<1> QED
  BY <1>1, <1>2, <1>3

LEMMA NwayAndPairs == Held => NwayAgreesWithPairs
<1> SUFFICES ASSUME Held, NEW d \in Devices, NEW key \in Keys
             PROVE  LET candidates == Contenders(d, key)
                        evidence   == [e \in candidates |-> observations[d][e]]
                        winner     == ResolveNway(candidates, evidence)
                    IN /\ winner # Unresolved => \A e \in candidates \ {winner} :
                              /\ ResolveConflict(winner, e, evidence) = winner
                              /\ ResolveConflict(e, winner, evidence) = winner
                       /\ \A e, f \in candidates : (e # f /\ candidates = {e, f}) =>
                              winner = ResolveConflict(e, f, evidence)
  BY DEF NwayAgreesWithPairs
<1> DEFINE candidates == Contenders(d, key)
           evidence   == [e \in candidates |-> observations[d][e]]
           winner     == ResolveNway(candidates, evidence)
<1>1. candidates \in SUBSET Envelopes
  BY IdsFacts DEF Contenders
<1>2. DOMAIN evidence = candidates
      /\ \A e \in candidates : evidence[e] = observations[d][e]
  OBVIOUS
<1>3. \A e \in candidates : evidence[e] \in SUBSET Proofs
  BY <1>1, <1>2 DEF Held, TypeOK
<1> HIDE DEF candidates, evidence
<1>4. \A e \in candidates : Support(evidence, e) \in Nat
  BY <1>3, SupportIsANumber
<1>5. \A w \in candidates : winner = w <=>
         /\ Support(evidence, w) >= MinQuorum
         /\ \A e \in candidates \ {w} : Support(evidence, e) < Support(evidence, w)
  BY <1>1, <1>2, <1>4, NwayFacts
<1>6. winner \in candidates \cup {Unresolved}
  BY NwayAnswer
<1> HIDE DEF winner
<1>7. \A e \in candidates : e # Unresolved
  BY <1>1, UnresolvedAssumption
<1>8. ASSUME winner # Unresolved, NEW e \in candidates \ {winner}
      PROVE  /\ ResolveConflict(winner, e, evidence) = winner
             /\ ResolveConflict(e, winner, evidence) = winner
  <2>1. /\ winner \in candidates /\ Support(evidence, winner) >= MinQuorum
        /\ Support(evidence, e) < Support(evidence, winner)
    BY <1>5, <1>6, <1>8
  <2>2. Support(evidence, winner) \in Nat /\ Support(evidence, e) \in Nat
    BY <1>4, <2>1
  <2>3. Support(evidence, winner) > Support(evidence, e)
    BY <2>1, <2>2
  <2> QED
    BY <1>7, <1>8, <2>1, <2>2, <2>3, PairFacts
<1>9. ASSUME NEW e \in candidates, NEW f \in candidates, e # f, candidates = {e, f}
      PROVE  winner = ResolveConflict(e, f, evidence)
  <2> DEFINE nE == Support(evidence, e)
             nF == Support(evidence, f)
             R  == ResolveConflict(e, f, evidence)
  <2>1. nE \in Nat /\ nF \in Nat
    BY <1>4
  <2>2. /\ R = e <=> nE >= MinQuorum /\ nE > nF
        /\ R = f <=> nF >= MinQuorum /\ nF > nE
        /\ R \in {e, f, Unresolved}
    BY <1>7, <1>9, <2>1, PairFacts
  <2>3. candidates \ {e} = {f} /\ candidates \ {f} = {e}
    BY <1>9
  <2>4. /\ winner = e <=> nE >= MinQuorum /\ nF < nE
        /\ winner = f <=> nF >= MinQuorum /\ nE < nF
    BY <1>5, <2>3
  <2> HIDE DEF nE, nF, R
  <2>5. (nE > nF <=> nF < nE) /\ (nF > nE <=> nE < nF)
    BY <2>1
  <2>6. (winner = e <=> R = e) /\ (winner = f <=> R = f)
    BY <2>2, <2>4, <2>5
  <2>7. winner \in {e, f, Unresolved}
    BY <1>6, <1>9
  <2> QED
    BY <2>2, <2>6, <2>7 DEF R
<1> QED
  BY <1>8, <1>9 DEF candidates, evidence, winner

\* A device knows the second in which it first saw each envelope it holds.
LEMMA FirstSeenIsANumber ==
    ASSUME Held, NEW d \in Devices, NEW e \in Heard(d)
    PROVE  FirstSeen(d)[e] \in Nat
<1> DEFINE s == slots[d]
           n == Len(s)
           held == {i \in 1..n : s[i].id = e}
<1>1. n \in Nat /\ DOMAIN s = 1..n /\ \A i \in 1..n : s[i] \in Slot
  <2>1. s \in Seq(Slot)
    BY DEF Held, TypeOK, Slot
  <2> QED
    BY <2>1
<1>2. Heard(d) = {s[i].id : i \in 1..n}
  BY <1>1 DEF Heard
<1>3. FirstSeen(d)[e] = s[CHOOSE i \in 1..n :
                             s[i].id = e /\ \A j \in 1..(i - 1) : s[j].id # e].at
  BY <1>1 DEF FirstSeen
<1> HIDE DEF s, n
<1>4. held \in SUBSET Nat /\ held # {}
  BY <1>2
<1>5. PICK i \in held : \A j \in held : i =< j
  BY <1>4, LeastOf
<1>6. \A j \in 1..(i - 1) : s[j].id # e
  <2> SUFFICES ASSUME NEW j \in 1..(i - 1), s[j].id = e PROVE FALSE
    OBVIOUS
  <2>1. i \in 1..n /\ j \in 1..n /\ j < i
    BY <1>1, <1>5
  <2>2. j \in held
    BY <2>1
  <2> QED
    BY <1>5, <2>1, <2>2
<1>7. \E k \in 1..n : s[k].id = e /\ \A j \in 1..(k - 1) : s[j].id # e
  BY <1>5, <1>6
<1>8. (CHOOSE k \in 1..n : s[k].id = e /\ \A j \in 1..(k - 1) : s[j].id # e) \in 1..n
  BY <1>7
<1> QED
  BY <1>1, <1>3, <1>8 DEF Slot

LEMMA Disputes == Held => SameOrderSameDispute
<1> SUFFICES ASSUME Held, NEW c \in Devices, NEW d \in Devices,
                    NEW e \in Heard(c) \cap Heard(d), NEW f \in Heard(c) \cap Heard(d),
                    e # f,
                    FirstSeen(c)[e] < FirstSeen(c)[f],
                    FirstSeen(d)[e] < FirstSeen(d)[f]
             PROVE  /\ BuildEscalation(e, f, FirstSeen(c)).initiator = e
                    /\ BuildEscalation(f, e, FirstSeen(d)) =
                         BuildEscalation(e, f, FirstSeen(c))
  BY DEF SameOrderSameDispute, ConflictsBetween
<1>1. /\ FirstSeen(c)[e] \in Nat /\ FirstSeen(c)[f] \in Nat
      /\ FirstSeen(d)[e] \in Nat /\ FirstSeen(d)[f] \in Nat
  BY FirstSeenIsANumber
<1>2. FirstSeen(c)[e] =< FirstSeen(c)[f] /\ ~(FirstSeen(d)[f] =< FirstSeen(d)[e])
  BY <1>1
<1>3. BuildEscalation(e, f, FirstSeen(c)) = [initiator |-> e, respondent |-> f, tx |-> e]
  BY <1>2 DEF BuildEscalation
<1>4. BuildEscalation(f, e, FirstSeen(d)) = [initiator |-> e, respondent |-> f, tx |-> e]
  BY <1>2 DEF BuildEscalation
<1> QED
  BY <1>3, <1>4

\* An announced winner was compared with every contender the device holds.
WinnerStep == \A d \in Devices :
    (verdict'[d] # verdict[d] /\ verdict'[d] # Unresolved) =>
        \A e \in Contenders(d, SlotOf[verdict'[d]]) \ {verdict'[d]} :
            Support(observations[d], e) < Support(observations[d], verdict'[d])

LEMMA WinnerStepHolds == Held /\ [Next]_vars => WinnerStep
<1> SUFFICES ASSUME Held, [Next]_vars, NEW d \in Devices,
                    verdict'[d] # verdict[d], verdict'[d] # Unresolved,
                    NEW e \in Contenders(d, SlotOf[verdict'[d]]) \ {verdict'[d]}
             PROVE  Support(observations[d], e) < Support(observations[d], verdict'[d])
  BY DEF WinnerStep
<1>1. Resolve(d)
  <2>1. ~(UNCHANGED verdict)
    OBVIOUS
  <2>2. PICK c \in Devices : Detect(c) \/ Resolve(c)
    BY <2>1 DEF Next, vars, Hear, File, Attest, ForgedProof, Replay
  <2>3. verdict \in [Devices -> Envelopes \cup {Unresolved}]
    BY DEF Held, TypeOK
  <2>4. c = d
    BY <2>2, <2>3 DEF Detect, Resolve
  <2>5. ~Detect(d)
    BY <2>3 DEF Detect
  <2> QED
    BY <2>2, <2>4, <2>5
<1> DEFINE key == SlotOf[CHOOSE x \in open[d] : TRUE]
           evidence == [x \in Contenders(d, key) |-> observations[d][x]]
           w == ResolveNway(open[d], evidence)
<1>2. verdict'[d] = w
  BY <1>1 DEF Resolve, Held, TypeOK
<1>3. w \in open[d] /\ w # Unresolved
  BY <1>2, NwayAnswer
<1>4. open[d] \in SUBSET Envelopes
  BY DEF Held, TypeOK
<1>5. open[d] = Contenders(d, key)
  BY <1>3 DEF ResolveNway
<1>6. \A x \in open[d] : evidence[x] = observations[d][x]
  BY <1>5
<1>7. DOMAIN evidence = open[d]
  BY <1>5
<1>8. SlotOf[w] = key
  BY <1>3, <1>5 DEF Contenders
<1>9. e \in open[d] \ {w}
  BY <1>2, <1>5, <1>8
<1> HIDE DEF evidence, key
<1>10. \A x \in open[d] : evidence[x] \in SUBSET Proofs
  BY <1>4, <1>6 DEF Held, TypeOK
<1>11. \A x \in open[d] : Support(evidence, x) \in Nat
  BY <1>10, SupportIsANumber
<1>12. Support(evidence, e) < Support(evidence, w)
  BY <1>3, <1>4, <1>7, <1>9, <1>11, NwayFacts
<1>13. \A x \in open[d] : Support(evidence, x) = Support(observations[d], x)
  BY <1>6 DEF Support
<1> QED
  BY <1>2, <1>3, <1>9, <1>12, <1>13
\* One more proof adds at most one relay to an envelope's support.
LEMMA OneMoreProof ==
    ASSUME NEW old, NEW new, NEW e, NEW p \in Proofs, old[e] \in SUBSET Proofs,
           new[e] = old[e] \cup {p}
    PROVE  /\ Support(old, e) \in Nat
           /\ Support(new, e) \in {Support(old, e), Support(old, e) + 1}
<1> DEFINE before == DistinctValidRelays(old[e], e)
           after  == DistinctValidRelays(new[e], e)
<1>1. after = before \/ after = before \cup {p.relay}
  BY DEF DistinctValidRelays
<1>2. IsFiniteSet(before) /\ Support(old, e) \in Nat
  BY SupportIsANumber
<1>3. Support(old, e) = Cardinality(before) /\ Support(new, e) = Cardinality(after)
  BY DEF Support
<1> HIDE DEF before, after
<1>4. Cardinality(before \cup {p.relay}) \in {Cardinality(before), Cardinality(before) + 1}
  BY <1>2, FS_AddElement
<1> QED
  BY <1>1, <1>2, <1>3, <1>4

\* A proof arrived for g, and x is g or has what it had.
GainsOne(old, new, g, x) ==
    /\ x # g => new[x] = old[x]
    /\ x = g => Support(new, x) \in {Support(old, x), Support(old, x) + 1}

\* A lead of one is lost to one more proof, but not turned round.
LEMMA NoFlip ==
    ASSUME NEW old, NEW new, NEW g, NEW a, NEW b,
           a # b, a # Unresolved, b # Unresolved,
           Support(old, a) \in Nat, Support(old, b) \in Nat,
           GainsOne(old, new, g, a), GainsOne(old, new, g, b),
           ResolveConflict(a, b, old) # Unresolved
    PROVE  /\ ResolveConflict(a, b, new) \in {ResolveConflict(a, b, old), Unresolved}
           /\ new[ResolveConflict(a, b, old)] # old[ResolveConflict(a, b, old)]
                 => ResolveConflict(a, b, new) = ResolveConflict(a, b, old)
<1> DEFINE nA == Support(old, a)
           nB == Support(old, b)
           mA == Support(new, a)
           mB == Support(new, b)
           before == ResolveConflict(a, b, old)
           after  == ResolveConflict(a, b, new)
<1>0. /\ a # g => new[a] = old[a]
      /\ b # g => new[b] = old[b]
  BY DEF GainsOne
<1>1. /\ a # g => mA = nA
      /\ b # g => mB = nB
  BY <1>0 DEF Support
<1>2. mA \in {nA, nA + 1} /\ mB \in {nB, nB + 1}
  BY <1>1 DEF GainsOne
<1>3. nA \in Nat /\ nB \in Nat
  OBVIOUS
<1>4. mA \in Nat /\ mB \in Nat
  BY <1>2, <1>3
<1>5. /\ before = a <=> nA >= MinQuorum /\ nA > nB
      /\ before = b <=> nB >= MinQuorum /\ nB > nA
      /\ before \in {a, b}
  BY <1>3, PairFacts
<1>6. /\ after = a <=> mA >= MinQuorum /\ mA > mB
      /\ after = b <=> mB >= MinQuorum /\ mB > mA
      /\ after \in {a, b, Unresolved}
  BY <1>4, PairFacts
<1>7. MinQuorum \in Nat
  BY QuorumIsPositive
<1> HIDE DEF nA, nB, mA, mB, before, after
<1>8. CASE before = a
  <2>1. nA >= MinQuorum /\ nA > nB
    BY <1>5, <1>8
  <2>2. mA = nA \/ mB = nB
    BY <1>1
  <2>3. ~(mB > mA)
    BY <1>2, <1>3, <2>1, <2>2
  <2>4. mB = nB => mA >= MinQuorum /\ mA > mB
    BY <1>2, <1>3, <1>7, <2>1
  <2>5. new[a] # old[a] => mB = nB
    BY <1>0, <1>1
  <2> QED
    BY <1>6, <1>8, <2>3, <2>4, <2>5 DEF before, after
<1>9. CASE before = b
  <2>1. nB >= MinQuorum /\ nB > nA
    BY <1>5, <1>9
  <2>2. mA = nA \/ mB = nB
    BY <1>1
  <2>3. ~(mA > mB)
    BY <1>2, <1>3, <2>1, <2>2
  <2>4. mA = nA => mB >= MinQuorum /\ mB > mA
    BY <1>2, <1>3, <1>7, <2>1
  <2>5. new[b] # old[b] => mA = nA
    BY <1>0, <1>1
  <2> QED
    BY <1>6, <1>9, <2>3, <2>4, <2>5 DEF before, after
<1> QED
  BY <1>5, <1>8, <1>9 DEF before, after

\* The step of NoDirectFlip.
FlipStep == \A d \in Devices : \A e, f \in Envelopes :
    LET before == ResolveConflict(e, f, observations[d])
        after  == ResolveConflict(e, f, observations'[d])
    IN (/\ ConflictsBetween(e, f)
        /\ before # Unresolved
        /\ Cardinality(UNION {observations'[d][g] \ observations[d][g] :
                              g \in Envelopes}) = 1) =>
        /\ after \in {before, Unresolved}
        /\ observations'[d][before] # observations[d][before]
               => after = before

LEMMA FlipStepHolds == Held /\ [Next]_vars => FlipStep
<1> SUFFICES ASSUME Held, [Next]_vars, NEW d \in Devices,
                    NEW e \in Envelopes, NEW f \in Envelopes,
                    e # f, ResolveConflict(e, f, observations[d]) # Unresolved,
                    Cardinality(UNION {observations'[d][g] \ observations[d][g] :
                                       g \in Envelopes}) = 1
             PROVE  LET before == ResolveConflict(e, f, observations[d])
                        after  == ResolveConflict(e, f, observations'[d])
                    IN /\ after \in {before, Unresolved}
                       /\ observations'[d][before] # observations[d][before]
                              => after = before
  BY DEF FlipStep, ConflictsBetween
<1> DEFINE old == observations[d]
           new == observations'[d]
           added == UNION {new[x] \ old[x] : x \in Envelopes}
<1>1. observations \in [Devices -> [Envelopes -> SUBSET Proofs]]
  BY DEF Held, TypeOK
<1>2. new # old
  <2>1. ASSUME new = old PROVE added = {}
    BY <2>1
  <2>2. Cardinality({}) = 0
    BY FS_EmptySet
  <2> QED
    BY <2>1, <2>2
<1>3. PICK c \in Devices : FilesProofs(c)
  <2>1. observations' # observations
    BY <1>2
  <2> QED
    BY <2>1, Filed DEF Next, vars, Hear, Detect, Resolve
<1>4. PICK h \in Envelopes : \E proofs \in SUBSET Proofs :
         File(c, h, proofs) /\ IsFiniteSet(proofs)
  BY <1>3 DEF FilesProofs
<1>5. PICK proofs \in SUBSET Proofs :
         /\ observations' = [observations EXCEPT ![c][h] = @ \cup proofs]
         /\ IsFiniteSet(proofs)
  BY <1>4 DEF File
<1>6. c = d
  BY <1>1, <1>2, <1>5
<1>7. /\ new[h] = old[h] \cup proofs
      /\ \A x \in Envelopes \ {h} : new[x] = old[x]
      /\ old \in [Envelopes -> SUBSET Proofs]
  BY <1>1, <1>5, <1>6
<1> HIDE DEF old, new
<1>8. added = proofs \ old[h]
  BY <1>7
<1>9. IsFiniteSet(added)
  BY <1>5, <1>8, FS_Subset
<1>10. PICK p : added = {p}
  <2>1. Cardinality(added) = 1
    BY DEF old, new
  <2> QED
    BY <1>9, <2>1, FS_Singleton
<1>11. new[h] = old[h] \cup {p} /\ p \in Proofs
  BY <1>5, <1>7, <1>8, <1>10
<1> HIDE DEF added
<1>12. Support(new, h) \in {Support(old, h), Support(old, h) + 1}
  BY <1>7, <1>11, OneMoreProof
<1>13. Support(old, e) \in Nat /\ Support(old, f) \in Nat
  BY <1>7, SupportIsANumber
<1>14. e # Unresolved /\ f # Unresolved
  BY UnresolvedAssumption
<1>15. ResolveConflict(e, f, old) # Unresolved
  BY DEF old
<1>16. GainsOne(old, new, h, e) /\ GainsOne(old, new, h, f)
  BY <1>7, <1>12 DEF GainsOne
<1>17. /\ ResolveConflict(e, f, new) \in {ResolveConflict(e, f, old), Unresolved}
       /\ new[ResolveConflict(e, f, old)] # old[ResolveConflict(e, f, old)]
             => ResolveConflict(e, f, new) = ResolveConflict(e, f, old)
  BY <1>13, <1>14, <1>15, <1>16, NoFlip
<1> QED
  BY <1>17 DEF old, new

-----------------------------------------------------------------------------
(* The theorems.                                                           *)

\* detect_conflicts and detect_nway_conflicts depend on the set of ids a
\* device holds only: not on the order they came in, nor on how often.
THEOREM DetectionDependsOnTheSet == Spec => []DetectionIgnoresArrival
BY Invariance, DetectionOfAView, PTL DEF Inv

\* A scan of merged_slots over all devices reports exactly the pairs of ids,
\* known to any of them, that claim one slot.
THEOREM MergeIsComplete == Spec => []MergeFindsEveryConflict
BY Invariance, DetectionOfTheMerge, PTL DEF Inv

\* resolve_nway_conflict never announces an envelope that Byzantine relays
\* alone put forward, whatever they forge, replay or mint twice.
THEOREM WinnersHaveAnHonestRelay == Spec => []HonestRelayBehindWinner
BY Invariance, PTL DEF Inv

\* resolve_nway_conflict and resolve_conflict agree on every slot.
THEOREM OnePassAgreesWithPairs == Spec => []NwayAgreesWithPairs
BY Invariance, NwayAndPairs, PTL DEF Inv

\* build_escalation names the same initiator on every device that saw the
\* two envelopes in the same order, whichever way round it is called.
THEOREM DisputesAgree == Spec => []SameOrderSameDispute
BY Invariance, Disputes, PTL DEF Inv

\* A verdict is announced on all the contenders a device holds, or not at all.
THEOREM NoContenderIsLeftOut == Spec => WinnerBeatEveryContender
<1>1. Inv /\ [Next]_vars => [WinnerStep]_vars
  BY WinnerStepHolds DEF Inv
<1> QED
  BY <1>1, Invariance, PTL DEF Spec, WinnerBeatEveryContender, WinnerStep

\* A single proof more never replaces the winner of a pair by its rival.
THEOREM VerdictsDoNotFlip == Spec => NoDirectFlip
<1>1. Inv /\ [Next]_vars => [FlipStep]_vars
  BY FlipStepHolds DEF Inv
<1> QED
  BY <1>1, Invariance, PTL DEF Spec, NoDirectFlip, FlipStep
=============================================================================

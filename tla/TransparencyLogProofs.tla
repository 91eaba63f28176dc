------------------------ MODULE TransparencyLogProofs -------------------------
(***************************************************************************)
(* What the Merkle log's proofs show, for a log of any length: an accepted *)
(* inclusion proof is of the entry in its place, and an auditor accepts a  *)
(* consistency proof only of a log that begins with what was audited. The  *)
(* recursive functions of TransparencyLog are shown to obey their          *)
(* equations first, by induction over sets of numbers.                     *)
(***************************************************************************)
EXTENDS TransparencyLog, WellFoundedInduction, TLAPS

\* Induction over a set of numbers: a set that holds a number whenever it holds
\* the smaller ones holds them all.
LEMMA AllNumbers ==
    ASSUME NEW S \in SUBSET Nat,
           \A n \in Nat : (\A k \in 0..(n - 1) : k \in S) => n \in S
    PROVE  S = Nat
<1> SUFFICES ASSUME NEW n \in Nat \ S PROVE FALSE
  OBVIOUS
<1> DEFINE R == OpToRel(<, Nat)
<1>1. \A x, y \in Nat : <<x, y>> \in R <=> x < y
  BY DEF OpToRel
<1>2. IsWellFoundedOn(R, Nat)
  BY NatLessThanWellFounded
<1> DEFINE rest == Nat \ S
<1> HIDE DEF R
<1>3. PICK m \in rest : \A k \in rest : ~(<<k, m>> \in R)
  BY <1>2, WFMin
<1>4. m \in Nat /\ m \notin S
  OBVIOUS
<1>5. ASSUME NEW k \in 0..(m - 1) PROVE k \in S
  <2>1. k \in Nat /\ k < m
    BY <1>4
  <2>2. k \notin rest
    BY <1>1, <1>3, <1>4, <2>1
  <2> QED
    BY <2>1, <2>2
<1> QED
  BY <1>4, <1>5

-----------------------------------------------------------------------------
(* The largest power of two.                                               *)

\* f is LargestPowerUpTo for the numbers up to N.
IsPower(f, N) == f = [n \in 1..N |-> IF n = 1 THEN 1 ELSE 2 * f[n \div 2]]

\* The function LargestPowerUpTo chooses exists up to every bound,
LEMMA PowersUpTo == \A N \in Nat : \E f : IsPower(f, N)
<1> DEFINE S == {N \in Nat : \E f : IsPower(f, N)}
<1>1. ASSUME NEW N \in Nat, \A k \in 0..(N - 1) : k \in S PROVE N \in S
  <2>1. CASE N = 0
    <3> DEFINE f == [n \in 1..0 |-> 1]
    <3>1. IsPower(f, 0)
      BY DEF IsPower
    <3> QED
      BY <2>1, <3>1
  <2>2. CASE N # 0
    <3>1. N - 1 \in S
      BY <1>1, <2>2
    <3>2. PICK g : IsPower(g, N - 1)
      BY <3>1
    <3> DEFINE f == [n \in 1..N |-> IF n = 1 THEN 1
                        ELSE IF n = N THEN 2 * g[N \div 2] ELSE g[n]]
    <3>3. \A n \in 1..(N - 1) : f[n] = g[n]
      <4> TAKE n \in 1..(N - 1)
      <4>1. g[n] = IF n = 1 THEN 1 ELSE 2 * g[n \div 2]
        BY <3>2 DEF IsPower
      <4> QED
        BY <4>1, <2>2
    <3>4. \A n \in 1..N : f[n] = IF n = 1 THEN 1 ELSE 2 * f[n \div 2]
      <4> TAKE n \in 1..N
      <4>1. CASE n = 1
        BY <4>1
      <4>2. CASE n # 1
        <5>1. n \div 2 \in 1..(N - 1)
          BY <4>2
        <5>2. f[n \div 2] = g[n \div 2]
          BY <3>3, <5>1
        <5>3. CASE n = N
          BY <4>2, <5>2, <5>3
        <5>4. CASE n # N
          <6>1. g[n] = 2 * g[n \div 2]
            BY <3>2, <4>2, <5>4 DEF IsPower
          <6>2. n \in 1..(N - 1)
            BY <5>4
          <6>3. f[n] = g[n]
            BY <3>3, <6>2
          <6> QED
            BY <6>1, <6>3, <5>2, <4>2
        <5> QED
          BY <5>3, <5>4
      <4> QED
        BY <4>1, <4>2
    <3>5. IsPower(f, N)
      BY <3>4 DEF IsPower
    <3> QED
      BY <3>5
  <2> QED
    BY <2>1, <2>2
<1> HIDE DEF S
<1>2. S \in SUBSET Nat
  BY DEF S
<1>3. S = Nat
  BY <1>1, <1>2, AllNumbers
<1> QED
  BY <1>3 DEF S

\* and functions for two bounds agree below both.
LEMMA PowersAgree ==
    ASSUME NEW f, NEW g, NEW M \in Nat, NEW N \in Nat, IsPower(f, M), IsPower(g, N)
    PROVE  \A n \in Nat : n \in 1..M /\ n \in 1..N => f[n] = g[n]
<1> DEFINE S == {n \in Nat : n \in 1..M /\ n \in 1..N => f[n] = g[n]}
<1>1. ASSUME NEW n \in Nat, \A k \in 0..(n - 1) : k \in S PROVE n \in S
  <2> SUFFICES ASSUME n \in 1..M, n \in 1..N PROVE f[n] = g[n]
    OBVIOUS
  <2>1. /\ f[n] = IF n = 1 THEN 1 ELSE 2 * f[n \div 2]
        /\ g[n] = IF n = 1 THEN 1 ELSE 2 * g[n \div 2]
    BY DEF IsPower
  <2>2. CASE n = 1
    BY <2>1, <2>2
  <2>3. CASE n # 1
    <3>1. n \div 2 \in 0..(n - 1) /\ n \div 2 \in 1..M /\ n \div 2 \in 1..N
      BY <2>3
    <3>2. f[n \div 2] = g[n \div 2]
      BY <1>1, <3>1
    <3> QED
      BY <2>1, <2>3, <3>2
  <2> QED
    BY <2>2, <2>3
<1> HIDE DEF S
<1>2. S \in SUBSET Nat
  BY DEF S
<1>3. S = Nat
  BY <1>1, <1>2, AllNumbers
<1> QED
  BY <1>3 DEF S

\* LargestPowerUpTo has the value its recursion says.
LEMMA PowerRecursion ==
    \A n \in Nat \ {0} : LargestPowerUpTo[n] =
        IF n = 1 THEN 1 ELSE 2 * LargestPowerUpTo[n \div 2]
<1> DEFINE g(N) == CHOOSE f : IsPower(f, N)
           P == [n \in Nat \ {0} |-> g(n)[n]]
<1>1. \A N \in Nat : IsPower(g(N), N)
  BY PowersUpTo
<1> HIDE DEF g
<1>2. \A n \in Nat \ {0} : P[n] = IF n = 1 THEN 1 ELSE 2 * P[n \div 2]
  <2> TAKE n \in Nat \ {0}
  <2>1. IsPower(g(n), n)
    BY <1>1
  <2>2. g(n)[n] = IF n = 1 THEN 1 ELSE 2 * g(n)[n \div 2]
    BY <2>1 DEF IsPower
  <2>3. CASE n = 1
    BY <2>2, <2>3
  <2>4. CASE n # 1
    <3>1. /\ n \div 2 \in Nat \ {0} /\ n \div 2 \in 1..n
          /\ n \div 2 \in 1..(n \div 2)
      BY <2>4
    <3>2. IsPower(g(n \div 2), n \div 2)
      BY <1>1, <3>1
    <3>3. g(n)[n \div 2] = g(n \div 2)[n \div 2]
      BY <2>1, <3>1, <3>2, PowersAgree
    <3> QED
      BY <2>2, <2>4, <3>1, <3>3
  <2> QED
    BY <2>3, <2>4
<1>3. P = [n \in Nat \ {0} |-> IF n = 1 THEN 1 ELSE 2 * P[n \div 2]]
  BY <1>2
<1> HIDE DEF P
<1>4. \E f : f = [n \in Nat \ {0} |-> IF n = 1 THEN 1 ELSE 2 * f[n \div 2]]
  BY <1>3
<1> DEFINE Q == CHOOSE f : f = [n \in Nat \ {0} |-> IF n = 1 THEN 1 ELSE 2 * f[n \div 2]]
<1>5. Q = [n \in Nat \ {0} |-> IF n = 1 THEN 1 ELSE 2 * Q[n \div 2]]
  BY <1>4
<1>6. LargestPowerUpTo = Q
  BY DEF LargestPowerUpTo
<1> HIDE DEF Q
<1> QED
  BY <1>5, <1>6
\* The operator the lemmas are stated about.
Power(n) == LargestPowerUpTo[n]

\* What the halves say of it.
LEMMA PowerFacts ==
    /\ Power(1) = 1
    /\ \A n \in Nat \ {0} : Power(2 * n) = 2 * Power(n)
    /\ \A n \in Nat \ {0} : Power(2 * n + 1) = 2 * Power(n)
    /\ \A n \in Nat \ {0} : Power(n) \in 1..n
<1>1. \A n \in Nat \ {0} : Power(n) = IF n = 1 THEN 1 ELSE 2 * Power(n \div 2)
  BY PowerRecursion DEF Power
<1>2. Power(1) = 1
  BY <1>1
<1>3. \A n \in Nat \ {0} : Power(2 * n) = 2 * Power(n)
  <2> TAKE n \in Nat \ {0}
  <2>1. 2 * n \in Nat \ {0} /\ 2 * n # 1 /\ (2 * n) \div 2 = n
    OBVIOUS
  <2> QED
    BY <1>1, <2>1
<1>4. \A n \in Nat \ {0} : Power(2 * n + 1) = 2 * Power(n)
  <2> TAKE n \in Nat \ {0}
  <2>1. 2 * n + 1 \in Nat \ {0} /\ 2 * n + 1 # 1 /\ (2 * n + 1) \div 2 = n
    OBVIOUS
  <2> QED
    BY <1>1, <2>1
<1> DEFINE S == {n \in Nat : n # 0 => Power(n) \in 1..n}
<1>5. ASSUME NEW n \in Nat, \A k \in 0..(n - 1) : k \in S PROVE n \in S
  <2> SUFFICES ASSUME n # 0 PROVE Power(n) \in 1..n
    OBVIOUS
  <2>1. CASE n = 1
    BY <1>2, <2>1
  <2>2. CASE n # 1
    <3>1. n \div 2 \in 0..(n - 1) /\ n \div 2 # 0 /\ n \div 2 \in Nat
          /\ 2 * (n \div 2) <= n
      BY <2>2
    <3>2. n \div 2 \in S
      BY <1>5, <3>1
    <3>3. Power(n \div 2) \in 1..(n \div 2)
      BY <3>1, <3>2
    <3>4. Power(n) = 2 * Power(n \div 2)
      BY <1>1, <2>2
    <3> QED
      BY <3>1, <3>3, <3>4
  <2> QED
    BY <2>1, <2>2
<1> HIDE DEF S
<1>6. S \in SUBSET Nat
  BY DEF S
<1>7. S = Nat
  BY <1>5, <1>6, AllNumbers
<1> QED
  BY <1>2, <1>3, <1>4, <1>7 DEF S

\* Every number above one is twice a smaller one, or one more than that.
LEMMA Halves ==
    \A n \in Nat \ {0, 1} : \E k \in Nat \ {0} : k < n /\ (n = 2 * k \/ n = 2 * k + 1)
<1> TAKE n \in Nat \ {0, 1}
<1>1. /\ n \div 2 \in Nat \ {0} /\ n \div 2 < n
      /\ n = 2 * (n \div 2) \/ n = 2 * (n \div 2) + 1
  OBVIOUS
<1> QED
  BY <1>1

\* Below a number that is not a power itself, the largest power is the same.
LEMMA PowerBelow ==
    \A n \in Nat \ {0, 1} : Power(n) < n => Power(n - 1) = Power(n)
<1> DEFINE S == {n \in Nat : n \in Nat \ {0, 1} /\ Power(n) < n => Power(n - 1) = Power(n)}
<1>1. ASSUME NEW n \in Nat, \A k \in 0..(n - 1) : k \in S PROVE n \in S
  <2> SUFFICES ASSUME n \in Nat \ {0, 1}, Power(n) < n PROVE Power(n - 1) = Power(n)
    OBVIOUS
  <2>1. PICK k \in Nat \ {0} : k < n /\ (n = 2 * k \/ n = 2 * k + 1)
    BY Halves
  <2>2. CASE n = 2 * k + 1
    <3>1. n - 1 = 2 * k
      BY <2>2
    <3> QED
      BY <2>2, <3>1, PowerFacts
  <2>3. CASE n = 2 * k
    <3>1. Power(n) = 2 * Power(k) /\ Power(k) \in 1..k
      BY <2>3, PowerFacts
    <3>2. Power(k) < k /\ k # 1
      BY <2>3, <3>1
    <3>3. k \in S
      BY <1>1, <2>1
    <3>4. Power(k - 1) = Power(k)
      BY <3>2, <3>3
    <3>5. n - 1 = 2 * (k - 1) + 1 /\ k - 1 \in Nat \ {0}
      BY <2>3, <3>2
    <3>6. Power(n - 1) = 2 * Power(k - 1)
      BY <3>5, PowerFacts
    <3> QED
      BY <3>1, <3>4, <3>6
  <2> QED
    BY <2>1, <2>2, <2>3
<1> HIDE DEF S
<1>2. S \in SUBSET Nat
  BY DEF S
<1>3. S = Nat
  BY <1>1, <1>2, AllNumbers
<1> QED
  BY <1>3 DEF S

-----------------------------------------------------------------------------
(* Levels.                                                                 *)

\* X is a list of n elements; nothing is said of the elements.
IsList(X, n) == X = [i \in 1..n |-> X[i]]

\* A list of n elements has length n, whatever its elements are.
LEMMA ListLength ==
    ASSUME NEW n \in Nat, NEW X, IsList(X, n)
    PROVE  Len(X) = n /\ DOMAIN X = 1..n
<1> DEFINE V == {X[i] : i \in 1..n}
<1>1. DOMAIN X = 1..n
  BY DEF IsList
<1>2. X \in [1..n -> V]
  BY DEF IsList
<1>3. X \in Seq(V)
  BY <1>2
<1> QED
  BY <1>1, <1>3

\* The number of nodes above n of them.
Half(n) == (n + 1) \div 2

\* A level of n nodes has Half(n) above it: fewer, unless it is the root's.
LEMMA HalfFacts ==
    /\ \A n \in Nat : Half(n) \in Nat /\ Half(n) <= n
    /\ \A n \in Nat \ {0} : Half(n) # 0
    /\ \A n \in Nat \ {0, 1} : Half(n) < n
    /\ \A n \in Nat : n = 2 * Half(n) \/ n = 2 * Half(n) - 1
BY DEF Half

\* The next level of a list, node by node.
LEMMA NextLevelFacts ==
    ASSUME NEW n \in Nat, NEW X, IsList(X, n)
    PROVE  /\ IsList(NextLevel(X), Half(n))
           /\ \A k \in 1..Half(n) : NextLevel(X)[k] =
                 IF 2 * k <= n THEN NodeHash(X[2 * k - 1], X[2 * k]) ELSE X[2 * k - 1]
<1>1. Len(X) = n
  BY ListLength
<1>2. NextLevel(X) = [k \in 1..Half(n) |->
          IF 2 * k <= n THEN NodeHash(X[2 * k - 1], X[2 * k]) ELSE X[2 * k - 1]]
  BY <1>1 DEF NextLevel, Half
<1> QED
  BY <1>2 DEF IsList

\* f holds the levels of the tree over X up to height H.
IsLevels(f, X, H) == f = [h \in 0..H |-> IF h = 0 THEN X ELSE NextLevel(f[h - 1])]

\* The function TreeLevel chooses exists up to every height,
LEMMA LevelsUpTo == ASSUME NEW X PROVE \A H \in Nat : \E f : IsLevels(f, X, H)
<1> DEFINE S == {H \in Nat : \E f : IsLevels(f, X, H)}
<1>1. ASSUME NEW H \in Nat, \A k \in 0..(H - 1) : k \in S PROVE H \in S
  <2>1. CASE H = 0
    <3> DEFINE f == [h \in 0..0 |-> X]
    <3>1. IsLevels(f, X, 0)
      BY DEF IsLevels
    <3> QED
      BY <2>1, <3>1
  <2>2. CASE H # 0
    <3>1. H - 1 \in S
      BY <1>1, <2>2
    <3>2. PICK g : IsLevels(g, X, H - 1)
      BY <3>1
    <3> DEFINE f == [h \in 0..H |-> IF h = H THEN NextLevel(g[H - 1]) ELSE g[h]]
    <3>3. \A h \in 0..(H - 1) : /\ g[h] = IF h = 0 THEN X ELSE NextLevel(g[h - 1])
                                /\ f[h] = g[h]
      BY <2>2, <3>2 DEF IsLevels
    <3>4. \A h \in 0..H : f[h] = IF h = 0 THEN X ELSE NextLevel(f[h - 1])
      <4> TAKE h \in 0..H
      <4>1. CASE h = H
        <5>1. H - 1 \in 0..(H - 1) /\ f[H] = NextLevel(g[H - 1])
          BY <2>2
        <5> HIDE DEF f
        <5> QED
          BY <2>2, <3>3, <4>1, <5>1
      <4>2. CASE h # H
        <5>1. h \in 0..(H - 1) /\ (h # 0 => h - 1 \in 0..(H - 1))
          BY <4>2
        <5> HIDE DEF f
        <5> QED
          BY <3>3, <5>1
      <4> QED
        BY <4>1, <4>2
    <3>5. f = [h \in 0..H |-> f[h]]
      OBVIOUS
    <3> HIDE DEF f
    <3>6. IsLevels(f, X, H)
      BY <3>4, <3>5 DEF IsLevels
    <3> QED
      BY <3>6
  <2> QED
    BY <2>1, <2>2
<1> HIDE DEF S
<1>2. S \in SUBSET Nat
  BY DEF S
<1>3. S = Nat
  BY <1>1, <1>2, AllNumbers
<1> QED
  BY <1>3 DEF S

\* and functions for two heights agree below both.
LEMMA LevelsAgree ==
    ASSUME NEW X, NEW f, NEW g, NEW G \in Nat, NEW H \in Nat,
           IsLevels(f, X, G), IsLevels(g, X, H)
    PROVE  \A h \in Nat : h <= G /\ h <= H => f[h] = g[h]
<1> DEFINE S == {h \in Nat : h <= G /\ h <= H => f[h] = g[h]}
<1>1. ASSUME NEW h \in Nat, \A k \in 0..(h - 1) : k \in S PROVE h \in S
  <2> SUFFICES ASSUME h <= G, h <= H PROVE f[h] = g[h]
    OBVIOUS
  <2>1. /\ f[h] = IF h = 0 THEN X ELSE NextLevel(f[h - 1])
        /\ g[h] = IF h = 0 THEN X ELSE NextLevel(g[h - 1])
    BY DEF IsLevels
  <2>2. h # 0 => f[h - 1] = g[h - 1]
    BY <1>1
  <2> QED
    BY <2>1, <2>2
<1> HIDE DEF S
<1>2. S \in SUBSET Nat
  BY DEF S
<1>3. S = Nat
  BY <1>1, <1>2, AllNumbers
<1> QED
  BY <1>3 DEF S

\* TreeLevel goes up one NextLevel at a time.
LEMMA LevelRecursion ==
    ASSUME NEW X
    PROVE  /\ TreeLevel(X, 0) = X
           /\ \A h \in Nat : TreeLevel(X, h + 1) = NextLevel(TreeLevel(X, h))
<1> DEFINE g(H) == CHOOSE f : IsLevels(f, X, H)
<1>1. \A H \in Nat : IsLevels(g(H), X, H)
  BY LevelsUpTo
<1>2. \A H \in Nat : TreeLevel(X, H) = g(H)[H]
  BY DEF TreeLevel, IsLevels
<1> HIDE DEF g
<1>3. g(0)[0] = X
  BY <1>1 DEF IsLevels
<1>4. ASSUME NEW h \in Nat PROVE TreeLevel(X, h + 1) = NextLevel(TreeLevel(X, h))
  <2>1. IsLevels(g(h), X, h) /\ IsLevels(g(h + 1), X, h + 1)
    BY <1>1
  <2>2. g(h + 1)[h + 1] = NextLevel(g(h + 1)[h])
    BY <2>1 DEF IsLevels
  <2>3. g(h + 1)[h] = g(h)[h]
    BY <2>1, LevelsAgree
  <2> QED
    BY <1>2, <2>2, <2>3
<1> QED
  BY <1>2, <1>3, <1>4

\* The number of nodes of a level.
Width(X, h) == Len(TreeLevel(X, h))

\* Each level is a list with half as many nodes, rounded up, as the one below.
LEMMA Widths ==
    ASSUME NEW n \in Nat \ {0}, NEW X, IsList(X, n)
    PROVE  /\ Width(X, 0) = n
           /\ \A h \in Nat : /\ Width(X, h) \in Nat \ {0}
                             /\ IsList(TreeLevel(X, h), Width(X, h))
                             /\ Width(X, h + 1) = Half(Width(X, h))
<1> DEFINE Good(h) == /\ Width(X, h) \in Nat \ {0}
                      /\ IsList(TreeLevel(X, h), Width(X, h))
           S == {h \in Nat : Good(h)}
<1>1. Width(X, 0) = n
  BY ListLength, LevelRecursion DEF Width
<1>2. ASSUME NEW h \in Nat, Good(h) PROVE Good(h + 1) /\ Width(X, h + 1) = Half(Width(X, h))
  <2> DEFINE A == TreeLevel(X, h)
             B == TreeLevel(X, h + 1)
             w == Width(X, h)
  <2>1. w \in Nat \ {0} /\ IsList(A, w)
    BY <1>2
  <2>2. B = NextLevel(A)
    BY LevelRecursion
  <2> HIDE DEF A, B, w
  <2>3. IsList(B, Half(w))
    BY <2>1, <2>2, NextLevelFacts
  <2>4. Half(w) \in Nat \ {0}
    BY <2>1, HalfFacts
  <2>5. Len(B) = Half(w)
    BY <2>3, <2>4, ListLength
  <2> QED
    BY <2>3, <2>4, <2>5 DEF B, w, Width
<1>3. ASSUME NEW h \in Nat, \A k \in 0..(h - 1) : k \in S PROVE h \in S
  <2>1. CASE h = 0
    BY <1>1, <2>1, LevelRecursion
  <2>2. CASE h # 0
    <3>1. h - 1 \in S /\ h - 1 \in Nat /\ (h - 1) + 1 = h
      BY <1>3, <2>2
    <3>2. Good(h - 1)
      BY <3>1
    <3>3. Good((h - 1) + 1)
      BY <1>2, <3>1, <3>2
    <3> QED
      BY <3>1, <3>3
  <2> QED
    BY <2>1, <2>2
<1> HIDE DEF S
<1>4. S \in SUBSET Nat
  BY DEF S
<1>5. S = Nat
  BY <1>3, <1>4, AllNumbers
<1>6. \A h \in Nat : Good(h)
  BY <1>5 DEF S
<1> QED
  BY <1>1, <1>2, <1>6

\* The tree of a list ends in a level with one node.
LEMMA HeightFacts ==
    ASSUME NEW n \in Nat \ {0}, NEW X, IsList(X, n)
    PROVE  /\ Height(X) \in Nat
           /\ Width(X, Height(X)) = 1
           /\ \A h \in 0..(Height(X) - 1) : Width(X, h) > 1
<1> DEFINE S == {h \in Nat : Width(X, h) + h <= n \/ \E k \in 0..h : Width(X, k) = 1}
           T == {h \in Nat : Width(X, h) # 1}
<1>1. \A h \in Nat : Width(X, h) \in Nat \ {0} /\ Width(X, h + 1) = Half(Width(X, h))
  BY Widths
<1>2. Width(X, 0) = n
  BY Widths
<1>3. ASSUME NEW h \in Nat, \A k \in 0..(h - 1) : k \in S PROVE h \in S
  <2>1. CASE h = 0
    BY <1>2, <2>1
  <2>2. CASE h # 0
    <3>1. h - 1 \in S /\ h - 1 \in Nat /\ (h - 1) + 1 = h
      BY <1>3, <2>2
    <3>2. CASE \E k \in 0..(h - 1) : Width(X, k) = 1
      BY <3>2
    <3>3. CASE ~\E k \in 0..(h - 1) : Width(X, k) = 1
      <4>1. Width(X, h - 1) + (h - 1) <= n /\ Width(X, h - 1) # 1
        BY <3>1, <3>3
      <4>2. Width(X, h) = Half(Width(X, h - 1)) /\ Width(X, h - 1) \in Nat \ {0}
        BY <1>1, <3>1
      <4>3. Half(Width(X, h - 1)) < Width(X, h - 1) /\ Half(Width(X, h - 1)) \in Nat
        BY <4>1, <4>2, HalfFacts
      <4>4. Width(X, h) + h <= n
        BY <4>1, <4>2, <4>3, <3>1
      <4> QED
        BY <4>4
    <3> QED
      BY <3>2, <3>3
  <2> QED
    BY <2>1, <2>2
<1> HIDE DEF S
<1>4. S \in SUBSET Nat
  BY DEF S
<1>5. S = Nat
  BY <1>3, <1>4, AllNumbers
<1>6. PICK k \in 0..n : Width(X, k) = 1
  <2>1. Width(X, n) \in Nat \ {0}
    BY <1>1
  <2>2. n \in S
    BY <1>5
  <2>3. ~(Width(X, n) + n <= n)
    BY <2>1
  <2> QED
    BY <2>2, <2>3 DEF S
<1>7. \E h \in 0..n : Width(X, h) = 1 /\ \A lower \in 0..(h - 1) : Width(X, lower) # 1
  <2> SUFFICES ASSUME \A h \in 0..n : Width(X, h) = 1 =>
                          \E lower \in 0..(h - 1) : Width(X, lower) = 1
               PROVE  FALSE
    OBVIOUS
  <2> DEFINE U == {h \in Nat : h <= n => Width(X, h) # 1}
  <2>1. ASSUME NEW h \in Nat, \A l \in 0..(h - 1) : l \in U PROVE h \in U
    <3> SUFFICES ASSUME h <= n, Width(X, h) = 1 PROVE FALSE
      OBVIOUS
    <3>1. PICK lower \in 0..(h - 1) : Width(X, lower) = 1
      OBVIOUS
    <3>2. lower \in U /\ lower <= n /\ lower \in Nat
      BY <2>1
    <3> QED
      BY <3>1, <3>2
  <2> HIDE DEF U
  <2>2. U \in SUBSET Nat
    BY DEF U
  <2>3. U = Nat
    BY <2>1, <2>2, AllNumbers
  <2> QED
    BY <2>3, <1>6 DEF U
<1>8. Len(X) = n
  BY ListLength
<1>9. \E h \in 0..n : Width(X, h) = 1 /\ \A lower \in 0..(h - 1) : Width(X, lower) > 1
  <2>1. PICK h \in 0..n :
            Width(X, h) = 1 /\ \A lower \in 0..(h - 1) : Width(X, lower) # 1
    BY <1>7
  <2>2. \A lower \in 0..(h - 1) : Width(X, lower) \in Nat \ {0}
    BY <1>1
  <2>3. \A lower \in 0..(h - 1) : Width(X, lower) > 1
    BY <2>1, <2>2
  <2> QED
    BY <2>1, <2>3
<1>10. Height(X) = CHOOSE h \in 0..n :
           Width(X, h) = 1 /\ \A lower \in 0..(h - 1) : Width(X, lower) > 1
  BY <1>8 DEF Height, Width
<1> QED
  BY <1>9, <1>10

\* Trees over equally many leaves have the same shape.
LEMMA SameShape ==
    ASSUME NEW n \in Nat \ {0}, NEW X, NEW Y, IsList(X, n), IsList(Y, n)
    PROVE  /\ \A h \in Nat : Width(X, h) = Width(Y, h)
           /\ Height(X) = Height(Y)
<1> DEFINE S == {h \in Nat : Width(X, h) = Width(Y, h)}
<1>1. ASSUME NEW h \in Nat, \A k \in 0..(h - 1) : k \in S PROVE h \in S
  <2>1. CASE h = 0
    BY <2>1, Widths
  <2>2. CASE h # 0
    <3>1. h - 1 \in S /\ h - 1 \in Nat /\ (h - 1) + 1 = h
      BY <1>1, <2>2
    <3>2. /\ Width(X, (h - 1) + 1) = Half(Width(X, h - 1))
          /\ Width(Y, (h - 1) + 1) = Half(Width(Y, h - 1))
      BY <3>1, Widths
    <3> QED
      BY <3>1, <3>2
  <2> QED
    BY <2>1, <2>2
<1> HIDE DEF S
<1>2. S \in SUBSET Nat
  BY DEF S
<1>3. S = Nat
  BY <1>1, <1>2, AllNumbers
<1>4. \A h \in Nat : Width(X, h) = Width(Y, h)
  BY <1>3 DEF S
<1>5. /\ Height(X) \in Nat /\ Width(X, Height(X)) = 1
      /\ \A h \in 0..(Height(X) - 1) : Width(X, h) > 1
  BY HeightFacts
<1>6. /\ Height(Y) \in Nat /\ Width(Y, Height(Y)) = 1
      /\ \A h \in 0..(Height(Y) - 1) : Width(Y, h) > 1
  BY HeightFacts
<1>7. ~(Height(X) < Height(Y)) /\ ~(Height(Y) < Height(X))
  BY <1>4, <1>5, <1>6
<1> QED
  BY <1>4, <1>5, <1>6, <1>7

\* A level tells the level below it, of known width.
LEMMA NextLevelBinds ==
    ASSUME NEW n \in Nat, NEW X, NEW Y, IsList(X, n), IsList(Y, n),
           NextLevel(X) = NextLevel(Y)
    PROVE  X = Y
<1>1. \A i \in 1..n : X[i] = Y[i]
  <2> TAKE i \in 1..n
  <2> DEFINE k == Half(i)
  <2>1. k \in 1..Half(n) /\ (i = 2 * k \/ i = 2 * k - 1)
    BY DEF Half
  <2>2. /\ NextLevel(X)[k] = IF 2 * k <= n THEN NodeHash(X[2 * k - 1], X[2 * k])
                                           ELSE X[2 * k - 1]
        /\ NextLevel(Y)[k] = IF 2 * k <= n THEN NodeHash(Y[2 * k - 1], Y[2 * k])
                                           ELSE Y[2 * k - 1]
    BY <2>1, NextLevelFacts
  <2> HIDE DEF k
  <2>3. CASE 2 * k <= n
    <3>1. NodeHash(X[2 * k - 1], X[2 * k]) = NodeHash(Y[2 * k - 1], Y[2 * k])
      BY <2>2, <2>3
    <3>2. X[2 * k - 1] = Y[2 * k - 1] /\ X[2 * k] = Y[2 * k]
      BY <3>1 DEF NodeHash
    <3> QED
      BY <2>1, <3>2
  <2>4. CASE ~(2 * k <= n)
    <3>1. X[2 * k - 1] = Y[2 * k - 1] /\ i = 2 * k - 1
      BY <2>1, <2>2, <2>4
    <3> QED
      BY <3>1
  <2> QED
    BY <2>3, <2>4
<1> QED
  BY <1>1 DEF IsList

\* A root is the one node of the last level.
LEMMA RootIsTop ==
    ASSUME NEW n \in Nat \ {0}, NEW X, IsList(X, n)
    PROVE  Root(X) = TreeLevel(X, Height(X))[1]
<1>1. Len(X) = n
  BY ListLength
<1>2. Len(<<>>) = 0
  OBVIOUS
<1>3. X # <<>>
  BY <1>1, <1>2
<1> QED
  BY <1>3 DEF Root

\* The root of a list of known length tells the list.
LEMMA RootBinds ==
    ASSUME NEW n \in Nat \ {0}, NEW X, NEW Y, IsList(X, n), IsList(Y, n),
           Root(X) = Root(Y)
    PROVE  X = Y
<1> DEFINE S == {h \in Nat : TreeLevel(X, h) = TreeLevel(Y, h) => X = Y}
<1>1. ASSUME NEW h \in Nat, \A k \in 0..(h - 1) : k \in S PROVE h \in S
  <2>1. CASE h = 0
    BY <2>1, LevelRecursion
  <2>2. CASE h # 0
    <3> SUFFICES ASSUME TreeLevel(X, h) = TreeLevel(Y, h) PROVE X = Y
      OBVIOUS
    <3>1. h - 1 \in S /\ h - 1 \in Nat /\ (h - 1) + 1 = h
      BY <1>1, <2>2
    <3> DEFINE A == TreeLevel(X, h - 1)
               B == TreeLevel(Y, h - 1)
               w == Width(X, h - 1)
    <3>2. NextLevel(A) = NextLevel(B)
      BY <3>1, LevelRecursion
    <3>3. w \in Nat /\ IsList(A, w)
      BY <3>1, Widths
    <3>4. IsList(B, w)
      <4>1. w = Width(Y, h - 1)
        BY <3>1, SameShape
      <4> QED
        BY <3>1, <4>1, Widths
    <3> HIDE DEF A, B, w
    <3>5. A = B
      BY <3>2, <3>3, <3>4, NextLevelBinds
    <3> QED
      BY <3>1, <3>5 DEF A, B
  <2> QED
    BY <2>1, <2>2
<1> HIDE DEF S
<1>2. S \in SUBSET Nat
  BY DEF S
<1>3. S = Nat
  BY <1>1, <1>2, AllNumbers
<1> DEFINE H == Height(X)
<1>4. H \in Nat /\ Width(X, H) = 1 /\ Height(Y) = H /\ Width(Y, H) = 1
  BY HeightFacts, SameShape
<1>5. TreeLevel(X, H)[1] = TreeLevel(Y, H)[1]
  BY <1>4, RootIsTop
<1>6. IsList(TreeLevel(X, H), 1) /\ IsList(TreeLevel(Y, H), 1)
  <2>1. IsList(TreeLevel(X, H), Width(X, H)) /\ IsList(TreeLevel(Y, H), Width(Y, H))
    BY <1>4, Widths
  <2> QED
    BY <1>4, <2>1
<1> HIDE DEF H
<1>7. TreeLevel(X, H) = TreeLevel(Y, H)
  BY <1>5, <1>6 DEF IsList
<1> QED
  BY <1>3, <1>4, <1>7 DEF S

-----------------------------------------------------------------------------
(* Inclusion.                                                              *)

\* f holds the positions on the way up from index.
IsPosition(f, index, H) == f = [h \in 0..H |-> IF h = 0 THEN index ELSE f[h - 1] \div 2]

\* The function Position chooses exists up to every height,
LEMMA PositionsUpTo ==
    ASSUME NEW index PROVE \A H \in Nat : \E f : IsPosition(f, index, H)
<1> DEFINE S == {H \in Nat : \E f : IsPosition(f, index, H)}
<1>1. ASSUME NEW H \in Nat, \A k \in 0..(H - 1) : k \in S PROVE H \in S
  <2>1. CASE H = 0
    <3> DEFINE f == [h \in 0..0 |-> index]
    <3>1. IsPosition(f, index, 0)
      BY DEF IsPosition
    <3> QED
      BY <2>1, <3>1
  <2>2. CASE H # 0
    <3>1. H - 1 \in S
      BY <1>1, <2>2
    <3>2. PICK g : IsPosition(g, index, H - 1)
      BY <3>1
    <3> DEFINE f == [h \in 0..H |-> IF h = H THEN g[H - 1] \div 2 ELSE g[h]]
    <3>3. \A h \in 0..(H - 1) : /\ g[h] = IF h = 0 THEN index ELSE g[h - 1] \div 2
                                /\ f[h] = g[h]
      BY <2>2, <3>2 DEF IsPosition
    <3>4. \A h \in 0..H : f[h] = IF h = 0 THEN index ELSE f[h - 1] \div 2
      <4> TAKE h \in 0..H
      <4>1. CASE h = H
        <5>1. H - 1 \in 0..(H - 1) /\ f[H] = g[H - 1] \div 2
          BY <2>2
        <5> HIDE DEF f
        <5> QED
          BY <2>2, <3>3, <4>1, <5>1
      <4>2. CASE h # H
        <5>1. h \in 0..(H - 1) /\ (h # 0 => h - 1 \in 0..(H - 1))
          BY <4>2
        <5> HIDE DEF f
        <5> QED
          BY <3>3, <5>1
      <4> QED
        BY <4>1, <4>2
    <3>5. f = [h \in 0..H |-> f[h]]
      OBVIOUS
    <3> HIDE DEF f
    <3>6. IsPosition(f, index, H)
      BY <3>4, <3>5 DEF IsPosition
    <3> QED
      BY <3>6
  <2> QED
    BY <2>1, <2>2
<1> HIDE DEF S
<1>2. S \in SUBSET Nat
  BY DEF S
<1>3. S = Nat
  BY <1>1, <1>2, AllNumbers
<1> QED
  BY <1>3 DEF S

\* and functions for two heights agree below both.
LEMMA PositionsAgree ==
    ASSUME NEW index, NEW f, NEW g, NEW G \in Nat, NEW H \in Nat,
           IsPosition(f, index, G), IsPosition(g, index, H)
    PROVE  \A h \in Nat : h <= G /\ h <= H => f[h] = g[h]
<1> DEFINE S == {h \in Nat : h <= G /\ h <= H => f[h] = g[h]}
<1>1. ASSUME NEW h \in Nat, \A k \in 0..(h - 1) : k \in S PROVE h \in S
  <2> SUFFICES ASSUME h <= G, h <= H PROVE f[h] = g[h]
    OBVIOUS
  <2>1. /\ f[h] = IF h = 0 THEN index ELSE f[h - 1] \div 2
        /\ g[h] = IF h = 0 THEN index ELSE g[h - 1] \div 2
    BY DEF IsPosition
  <2>2. h # 0 => f[h - 1] = g[h - 1]
    BY <1>1
  <2> QED
    BY <2>1, <2>2
<1> HIDE DEF S
<1>2. S \in SUBSET Nat
  BY DEF S
<1>3. S = Nat
  BY <1>1, <1>2, AllNumbers
<1> QED
  BY <1>3 DEF S

\* Position halves at every level.
LEMMA PositionRecursion ==
    ASSUME NEW index
    PROVE  /\ Position(index, 0) = index
           /\ \A h \in Nat : Position(index, h + 1) = Position(index, h) \div 2
<1> DEFINE g(H) == CHOOSE f : IsPosition(f, index, H)
<1>1. \A H \in Nat : IsPosition(g(H), index, H)
  BY PositionsUpTo
<1>2. \A H \in Nat : Position(index, H) = g(H)[H]
  BY DEF Position, IsPosition
<1> HIDE DEF g
<1>3. g(0)[0] = index
  BY <1>1 DEF IsPosition
<1>4. ASSUME NEW h \in Nat PROVE Position(index, h + 1) = Position(index, h) \div 2
  <2>1. IsPosition(g(h), index, h) /\ IsPosition(g(h + 1), index, h + 1)
    BY <1>1
  <2>2. g(h + 1)[h + 1] = g(h + 1)[h] \div 2
    BY <2>1 DEF IsPosition
  <2>3. g(h + 1)[h] = g(h)[h]
    BY <2>1, PositionsAgree
  <2> QED
    BY <1>2, <2>2, <2>3
<1> QED
  BY <1>2, <1>3, <1>4

\* One step of verify_inclusion_proof.
Joined(x, node) == IF node.isRight THEN NodeHash(x, node.hash) ELSE NodeHash(node.hash, x)

\* f holds what a leaf and the first N nodes of a path hash to, one by one.
IsClimb(f, leaf, path, N) ==
    f = [step \in 0..N |-> IF step = 0 THEN leaf ELSE Joined(f[step - 1], path[step])]

\* The function Climb chooses exists for a path of any length.
LEMMA ClimbsUpTo ==
    ASSUME NEW leaf, NEW path PROVE \A N \in Nat : \E f : IsClimb(f, leaf, path, N)
<1> DEFINE S == {N \in Nat : \E f : IsClimb(f, leaf, path, N)}
<1>1. ASSUME NEW N \in Nat, \A k \in 0..(N - 1) : k \in S PROVE N \in S
  <2>1. CASE N = 0
    <3> DEFINE f == [s \in 0..0 |-> leaf]
    <3>1. IsClimb(f, leaf, path, 0)
      BY DEF IsClimb
    <3> QED
      BY <2>1, <3>1
  <2>2. CASE N # 0
    <3>1. N - 1 \in S
      BY <1>1, <2>2
    <3>2. PICK g : IsClimb(g, leaf, path, N - 1)
      BY <3>1
    <3> DEFINE f == [s \in 0..N |-> IF s = N THEN Joined(g[N - 1], path[N]) ELSE g[s]]
    <3>3. \A s \in 0..(N - 1) : /\ g[s] = IF s = 0 THEN leaf ELSE Joined(g[s - 1], path[s])
                                /\ f[s] = g[s]
      BY <2>2, <3>2 DEF IsClimb
    <3>4. \A s \in 0..N : f[s] = IF s = 0 THEN leaf ELSE Joined(f[s - 1], path[s])
      <4> TAKE s \in 0..N
      <4>1. CASE s = N
        <5>1. N - 1 \in 0..(N - 1) /\ f[N] = Joined(g[N - 1], path[N])
          BY <2>2
        <5> HIDE DEF f
        <5> QED
          BY <2>2, <3>3, <4>1, <5>1
      <4>2. CASE s # N
        <5>1. s \in 0..(N - 1) /\ (s # 0 => s - 1 \in 0..(N - 1))
          BY <4>2
        <5> HIDE DEF f
        <5> QED
          BY <3>3, <5>1
      <4> QED
        BY <4>1, <4>2
    <3>5. f = [s \in 0..N |-> f[s]]
      OBVIOUS
    <3> HIDE DEF f
    <3>6. IsClimb(f, leaf, path, N)
      BY <3>4, <3>5 DEF IsClimb
    <3> QED
      BY <3>6
  <2> QED
    BY <2>1, <2>2
<1> HIDE DEF S
<1>2. S \in SUBSET Nat
  BY DEF S
<1>3. S = Nat
  BY <1>1, <1>2, AllNumbers
<1> QED
  BY <1>3 DEF S

\* Climb ends where some chain of joints from the leaf up the path ends.
LEMMA ClimbEnds ==
    ASSUME NEW proof, NEW N \in Nat, Len(proof.path) = N
    PROVE  \E f : IsClimb(f, proof.leafHash, proof.path, N) /\ Climb(proof) = f[N]
<1> DEFINE g == CHOOSE f : IsClimb(f, proof.leafHash, proof.path, N)
<1>1. IsClimb(g, proof.leafHash, proof.path, N)
  BY ClimbsUpTo
<1>2. Climb(proof) = g[N]
  BY DEF Climb, IsClimb, Joined
<1> QED
  BY <1>1, <1>2

\* No node of a tree over leaf hashes is the empty hash, or has it as its right
\* child: an unpaired node is promoted.
Honest(x) == x # EmptyHash /\ \A l : x # NodeHash(l, EmptyHash)

\* build_tree_levels keeps nodes honest: it pads no level.
LEMMA LevelsAreHonest ==
    ASSUME NEW n \in Nat \ {0}, NEW X, IsList(X, n), \A i \in 1..n : Honest(X[i])
    PROVE  \A h \in Nat : \A k \in 1..Width(X, h) : Honest(TreeLevel(X, h)[k])
<1> DEFINE Good(h) == \A k \in 1..Width(X, h) : Honest(TreeLevel(X, h)[k])
           S == {h \in Nat : Good(h)}
<1>1. ASSUME NEW h \in Nat, \A k \in 0..(h - 1) : k \in S PROVE h \in S
  <2>1. CASE h = 0
    BY <2>1, Widths, LevelRecursion
  <2>2. CASE h # 0
    <3>1. h - 1 \in S /\ h - 1 \in Nat /\ (h - 1) + 1 = h
      BY <1>1, <2>2
    <3> DEFINE A == TreeLevel(X, h - 1)
               B == TreeLevel(X, h)
               w == Width(X, h - 1)
    <3>2. B = NextLevel(A)
      BY <3>1, LevelRecursion
    <3>3. w \in Nat \ {0} /\ IsList(A, w) /\ Width(X, h) = Half(w)
      BY <3>1, Widths
    <3>4. \A k \in 1..w : Honest(A[k])
      BY <3>1
    <3> HIDE DEF A, B, w
    <3>5. ASSUME NEW k \in 1..Half(w) PROVE Honest(B[k])
      <4>1. B[k] = IF 2 * k <= w THEN NodeHash(A[2 * k - 1], A[2 * k]) ELSE A[2 * k - 1]
        BY <3>2, <3>3, NextLevelFacts
      <4>2. 2 * k - 1 \in 1..w /\ k \in Nat
        BY <3>3 DEF Half
      <4>3. CASE 2 * k <= w
        <5>1. Honest(A[2 * k])
          BY <3>4, <4>2, <4>3
        <5> QED
          BY <4>1, <4>3, <5>1 DEF Honest, NodeHash, EmptyHash
      <4>4. CASE ~(2 * k <= w)
        BY <3>4, <4>1, <4>2, <4>4
      <4> QED
        BY <4>3, <4>4
    <3> QED
      BY <3>1, <3>3, <3>5 DEF B
  <2> QED
    BY <2>1, <2>2
<1> HIDE DEF S
<1>2. S \in SUBSET Nat
  BY DEF S
<1>3. S = Nat
  BY <1>1, <1>2, AllNumbers
<1> QED
  BY <1>3 DEF S

\* A position is in its level all the way up.
LEMMA PositionInLevel ==
    ASSUME NEW n \in Nat \ {0}, NEW X, IsList(X, n), NEW index \in 0..(n - 1)
    PROVE  \A h \in Nat : Position(index, h) \in 0..(Width(X, h) - 1)
<1> DEFINE S == {h \in Nat : Position(index, h) \in 0..(Width(X, h) - 1)}
<1>1. ASSUME NEW h \in Nat, \A k \in 0..(h - 1) : k \in S PROVE h \in S
  <2>1. CASE h = 0
    BY <2>1, Widths, PositionRecursion
  <2>2. CASE h # 0
    <3>1. h - 1 \in S /\ h - 1 \in Nat /\ (h - 1) + 1 = h
      BY <1>1, <2>2
    <3> DEFINE p == Position(index, h - 1)
               w == Width(X, h - 1)
    <3>2. Position(index, h) = p \div 2
      BY <3>1, PositionRecursion
    <3>3. w \in Nat \ {0} /\ Width(X, h) = Half(w)
      BY <3>1, Widths
    <3>4. p \in 0..(w - 1)
      BY <3>1
    <3> HIDE DEF p, w
    <3>5. p \div 2 \in 0..(Half(w) - 1)
      BY <3>3, <3>4 DEF Half
    <3> QED
      BY <3>2, <3>3, <3>5
  <2> QED
    BY <2>1, <2>2
<1> HIDE DEF S
<1>2. S \in SUBSET Nat
  BY DEF S
<1>3. S = Nat
  BY <1>1, <1>2, AllNumbers
<1> QED
  BY <1>3 DEF S

\* A node of the proof: the sibling of position p in a level A of width w.
PathNode(A, w, p) ==
    [hash |-> IF Sibling(p) < w THEN A[Sibling(p) + 1] ELSE EmptyHash,
     isRight |-> p % 2 = 0]

\* Position p has no neighbour in a level of width w.
Unpaired(w, p) == w % 2 = 1 /\ p = w - 1

\* Joined with its sibling, a hash becomes the node above if and only if it is
\* the node in this place and has a neighbour.
LEMMA InclusionStep ==
    ASSUME NEW w \in Nat \ {0}, NEW A, IsList(A, w), NEW p \in 0..(w - 1), NEW x,
           \A k \in 1..Half(w) : Honest(NextLevel(A)[k])
    PROVE  Joined(x, PathNode(A, w, p)) = NextLevel(A)[(p \div 2) + 1]
               <=> x = A[p + 1] /\ ~Unpaired(w, p)
<1> DEFINE k == (p \div 2) + 1
           B == NextLevel(A)
           node == PathNode(A, w, p)
<1>1. k \in 1..Half(w) /\ k \in Nat
  BY DEF Half
<1>2. B[k] = IF 2 * k <= w THEN NodeHash(A[2 * k - 1], A[2 * k]) ELSE A[2 * k - 1]
  BY <1>1, NextLevelFacts
<1>3. Honest(B[k])
  BY <1>1
<1>4. CASE p % 2 = 1
  <2>1. 2 * k = p + 1 /\ 2 * k <= w /\ ~Unpaired(w, p) /\ Sibling(p) = p - 1
        /\ Sibling(p) < w /\ (Sibling(p) + 1) = p /\ ~(p % 2 = 0) /\ 2 * k - 1 = p
    BY <1>4 DEF Unpaired, Sibling
  <2>2. node.hash = A[p] /\ node.isRight = FALSE
    BY <2>1 DEF PathNode
  <2>3. Joined(x, node) = NodeHash(A[p], x)
    BY <2>2 DEF Joined
  <2> HIDE DEF k, B, node
  <2>4. B[k] = NodeHash(A[p], A[p + 1])
    BY <1>2, <2>1
  <2>5. NodeHash(A[p], x) = NodeHash(A[p], A[p + 1]) <=> x = A[p + 1]
    BY DEF NodeHash
  <2>6. Joined(x, node) = B[k] <=> x = A[p + 1] /\ ~Unpaired(w, p)
    BY <2>1, <2>3, <2>4, <2>5
  <2> QED
    BY <2>6 DEF k, B, node
<1>5. CASE p % 2 = 0 /\ p + 1 < w
  <2>1. 2 * k = p + 2 /\ 2 * k <= w /\ ~Unpaired(w, p) /\ Sibling(p) = p + 1
        /\ Sibling(p) < w /\ (Sibling(p) + 1) = p + 2 /\ 2 * k - 1 = p + 1
    BY <1>5 DEF Unpaired, Sibling
  <2>2. node.hash = A[p + 2] /\ node.isRight = TRUE
    BY <1>5, <2>1 DEF PathNode
  <2>3. Joined(x, node) = NodeHash(x, A[p + 2])
    BY <2>2 DEF Joined
  <2> HIDE DEF k, B, node
  <2>4. B[k] = NodeHash(A[p + 1], A[p + 2])
    BY <1>2, <2>1
  <2>5. NodeHash(x, A[p + 2]) = NodeHash(A[p + 1], A[p + 2]) <=> x = A[p + 1]
    BY DEF NodeHash
  <2>6. Joined(x, node) = B[k] <=> x = A[p + 1] /\ ~Unpaired(w, p)
    BY <2>1, <2>3, <2>4, <2>5
  <2> QED
    BY <2>6 DEF k, B, node
<1>6. CASE p % 2 = 0 /\ ~(p + 1 < w)
  <2>1. Unpaired(w, p) /\ Sibling(p) = p + 1 /\ ~(Sibling(p) < w)
    BY <1>6 DEF Unpaired, Sibling
  <2>2. node.hash = EmptyHash /\ node.isRight = TRUE
    BY <1>6, <2>1 DEF PathNode
  <2>3. Joined(x, node) = NodeHash(x, EmptyHash)
    BY <2>2 DEF Joined
  <2>4. B[k] # NodeHash(x, EmptyHash)
    BY <1>3 DEF Honest
  <2> HIDE DEF k, B, node
  <2>5. ~(Joined(x, node) = B[k])
    BY <2>3, <2>4
  <2> QED
    BY <2>1, <2>5 DEF k, B, node
<1> QED
  BY <1>4, <1>5, <1>6

\* What a proof of inclusion shows of a list of hashes: the one in its place,
\* when no node on the way up is unpaired.
LEMMA InclusionShows ==
    ASSUME NEW n \in Nat \ {0}, NEW X, IsList(X, n), \A i \in 1..n : Honest(X[i]),
           NEW index \in 0..(n - 1), NEW leaf, NEW proof,
           proof.leafHash = leaf,
           proof.path = InclusionProof(X, index).path,
           proof.rootHash = Root(X)
    PROVE  VerifyInclusionProof(proof) <=> PairedUpToRoot(X, index) /\ leaf = X[index + 1]
<1> DEFINE H == Height(X)
           p(s) == Position(index, s)
           level(s) == TreeLevel(X, s)
           paired(s) == \A h \in 0..(s - 1) : ~Unpaired(Width(X, h), p(h))
<1>1. H \in Nat /\ Width(X, H) = 1
  BY HeightFacts
<1>2. proof.path = [step \in 1..H |-> PathNode(level(step - 1), Width(X, step - 1), p(step - 1))]
  BY DEF InclusionProof, PathNode, Width
<1>3. Len(proof.path) = H
  <2>1. IsList(proof.path, H)
    BY <1>2 DEF IsList
  <2> QED
    BY <1>1, <2>1, ListLength
<1>4. PICK f : IsClimb(f, proof.leafHash, proof.path, H) /\ Climb(proof) = f[H]
  BY <1>1, <1>3, ClimbEnds
<1>5. f[0] = leaf
  BY <1>1, <1>4 DEF IsClimb
<1>6. \A s \in 1..H : f[s] = Joined(f[s - 1],
          PathNode(level(s - 1), Width(X, s - 1), p(s - 1)))
  <2> TAKE s \in 1..H
  <2>1. s \in 0..H /\ s # 0
    BY <1>1
  <2>2. f[s] = Joined(f[s - 1], proof.path[s])
    BY <1>4, <2>1 DEF IsClimb
  <2> QED
    BY <1>2, <2>2
<1>7. \A s \in Nat : /\ p(s) \in 0..(Width(X, s) - 1)
                     /\ p(s + 1) = p(s) \div 2
                     /\ Width(X, s) \in Nat \ {0}
                     /\ Width(X, s + 1) = Half(Width(X, s))
                     /\ IsList(level(s), Width(X, s))
                     /\ level(s + 1) = NextLevel(level(s))
                     /\ \A k \in 1..Width(X, s) : Honest(level(s)[k])
  BY PositionInLevel, PositionRecursion, Widths, LevelRecursion, LevelsAreHonest
<1>8. p(0) = index /\ level(0) = X
  BY PositionRecursion, LevelRecursion
<1> DEFINE Good(s) == f[s] = level(s)[p(s) + 1] <=> leaf = X[index + 1] /\ paired(s)
           S == {s \in Nat : s <= H => Good(s)}
<1>9. ASSUME NEW s \in Nat, \A k \in 0..(s - 1) : k \in S PROVE s \in S
  <2> SUFFICES ASSUME s <= H PROVE Good(s)
    OBVIOUS
  <2>1. CASE s = 0
    BY <1>5, <1>8, <2>1
  <2>2. CASE s # 0
    <3> DEFINE r == s - 1
    <3>1. r \in Nat /\ r \in S /\ r <= H /\ r + 1 = s /\ s \in 1..H
      BY <1>1, <1>9, <2>2
    <3>2. Good(r)
      BY <3>1
    <3> DEFINE A == level(r)
               w == Width(X, r)
               q == p(r)
    <3>3. w \in Nat \ {0} /\ IsList(A, w) /\ q \in 0..(w - 1)
      BY <1>7, <3>1
    <3>4. level(s) = NextLevel(A) /\ p(s) = q \div 2
      BY <1>7, <3>1
    <3>5. \A k \in 1..Half(w) : Honest(NextLevel(A)[k])
      <4>1. Width(X, s) = Half(w) /\ \A k \in 1..Width(X, s) : Honest(level(s)[k])
        BY <1>7, <3>1
      <4> QED
        BY <3>4, <4>1
    <3>6. f[s] = Joined(f[r], PathNode(A, w, q))
      BY <1>6, <3>1
    <3> HIDE DEF A, w, q
    <3>7. f[s] = NextLevel(A)[(q \div 2) + 1] <=> f[r] = A[q + 1] /\ ~Unpaired(w, q)
      BY <3>3, <3>5, <3>6, InclusionStep
    <3>8. paired(s) <=> paired(r) /\ ~Unpaired(w, q)
      <4>1. 0..(s - 1) = 0..(r - 1) \cup {r}
        BY <3>1
      <4> HIDE DEF r, p
      <4> QED
        BY <4>1 DEF w, q
    <3>9. f[r] = A[q + 1] <=> leaf = X[index + 1] /\ paired(r)
      BY <3>2 DEF A, q
    <3> HIDE DEF paired, r, level, p
    <3> QED
      BY <3>4, <3>7, <3>8, <3>9
  <2> QED
    BY <2>1, <2>2
<1> HIDE DEF S
<1>10. S \in SUBSET Nat
  BY DEF S
<1>11. S = Nat
  BY <1>9, <1>10, AllNumbers
<1>12. Good(H)
  BY <1>1, <1>11 DEF S
<1>13. p(H) = 0
  BY <1>1, <1>7
<1>14. Root(X) = level(H)[1]
  BY RootIsTop
<1>15. PairedUpToRoot(X, index) <=> paired(H)
  BY DEF PairedUpToRoot, Unpaired, Width
<1>16. VerifyInclusionProof(proof) <=> f[H] = Root(X)
  BY <1>4 DEF VerifyInclusionProof
<1> HIDE DEF H, p, level, paired
<1> QED
  BY <1>12, <1>13, <1>14, <1>15, <1>16

-----------------------------------------------------------------------------
(* Subtrees.                                                               *)

\* The ranges inside a range, the empty and reversed ones included.
Box(first, end) == (first..(end - 1)) \X ((first + 1)..end)

\* What subtree_hash computes for a range r from the hashes f of shorter ones.
HashBody(f, X, r) ==
    LET mid == r[1] + LargestPowerUpTo[r[2] - r[1] - 1]
    IN  IF r[2] <= r[1] + 1 THEN X[r[1] + 1]
        ELSE NodeHash(f[<<r[1], mid>>], f[<<mid, r[2]>>])

\* f holds the hashes of all ranges inside a range.
IsHash(f, X, first, end) == f = [r \in Box(first, end) |-> HashBody(f, X, r)]

\* A range that is more than one leaf is split inside.
LEMMA SplitInside ==
    ASSUME NEW first \in Nat, NEW end \in Nat, NEW r \in Box(first, end),
           ~(r[2] <= r[1] + 1)
    PROVE  LET mid == r[1] + LargestPowerUpTo[r[2] - r[1] - 1]
           IN  /\ mid \in Nat /\ r[1] < mid /\ mid < r[2]
               /\ <<r[1], mid>> \in Box(first, end)
               /\ <<mid, r[2]>> \in Box(first, end)
<1> DEFINE n == r[2] - r[1] - 1
<1>1. r[1] \in Nat /\ r[2] \in Nat /\ n \in Nat \ {0}
  BY DEF Box
<1>2. Power(n) \in 1..n
  BY <1>1, PowerFacts
<1>3. LargestPowerUpTo[n] \in 1..n
  BY <1>2 DEF Power
<1> QED
  BY <1>1, <1>3 DEF Box

\* The function SubtreeHash chooses exists for every range: both parts of a
\* range are shorter than it.
LEMMA HashesUpTo ==
    ASSUME NEW X, NEW first \in Nat, NEW end \in Nat
    PROVE  \E f : IsHash(f, X, first, end)
<1> DEFINE B == Box(first, end)
           Right(f, N) == \A r \in B : r[2] - r[1] <= N => f[r] = HashBody(f, X, r)
           S == {N \in Nat : \E f : f = [r \in B |-> f[r]] /\ Right(f, N)}
<1>0. \A r \in B : r[1] \in Nat /\ r[2] \in Nat /\ r[2] - r[1] \in Int
                   /\ first <= r[1] /\ r[2] <= end
  BY DEF Box
<1>1. ASSUME NEW N \in Nat, \A k \in 0..(N - 1) : k \in S PROVE N \in S
  <2>1. CASE N = 0
    <3> DEFINE f == [r \in B |-> X[r[1] + 1]]
    <3>1. Right(f, 0)
      <4> SUFFICES ASSUME NEW r \in B, r[2] - r[1] <= 0 PROVE f[r] = HashBody(f, X, r)
        OBVIOUS
      <4>1. r[2] <= r[1] + 1
        BY <1>0
      <4> QED
        BY <4>1 DEF HashBody
    <3>2. f = [r \in B |-> f[r]]
      OBVIOUS
    <3> HIDE DEF f, B, Right
    <3> QED
      BY <2>1, <3>1, <3>2
  <2>2. CASE N # 0
    <3>1. N - 1 \in S
      BY <1>1, <2>2
    <3>2. PICK g : g = [r \in B |-> g[r]] /\ Right(g, N - 1)
      BY <3>1
    <3> DEFINE f == [r \in B |-> HashBody(g, X, r)]
    <3>3. \A r \in B : r[2] - r[1] <= N - 1 => f[r] = g[r]
      BY <3>2
    <3>4. Right(f, N)
      <4> SUFFICES ASSUME NEW r \in B, r[2] - r[1] <= N PROVE f[r] = HashBody(f, X, r)
        OBVIOUS
      <4>1. f[r] = HashBody(g, X, r)
        OBVIOUS
      <4>2. CASE r[2] <= r[1] + 1
        BY <4>1, <4>2 DEF HashBody
      <4>3. CASE ~(r[2] <= r[1] + 1)
        <5> DEFINE mid == r[1] + LargestPowerUpTo[r[2] - r[1] - 1]
        <5>1. /\ mid \in Nat /\ r[1] < mid /\ mid < r[2]
              /\ <<r[1], mid>> \in B /\ <<mid, r[2]>> \in B
          BY <4>3, SplitInside
        <5> HIDE DEF mid
        <5>2. mid - r[1] <= N - 1 /\ r[2] - mid <= N - 1
          BY <1>0, <5>1, <2>2
        <5>3. f[<<r[1], mid>>] = g[<<r[1], mid>>] /\ f[<<mid, r[2]>>] = g[<<mid, r[2]>>]
          BY <3>3, <5>1, <5>2
        <5> HIDE DEF f
        <5> QED
          BY <4>1, <4>3, <5>3 DEF HashBody, mid
      <4> QED
        BY <4>2, <4>3
    <3>5. f = [r \in B |-> f[r]]
      OBVIOUS
    <3> HIDE DEF f, B, Right
    <3> QED
      BY <3>4, <3>5
  <2> QED
    BY <2>1, <2>2
<1> HIDE DEF S
<1>2. S \in SUBSET Nat
  BY DEF S
<1>3. S = Nat
  BY <1>1, <1>2, AllNumbers
<1>4. PICK f : f = [r \in B |-> f[r]] /\ Right(f, end)
  BY <1>3 DEF S
<1>5. \A r \in B : r[2] - r[1] <= end
  BY <1>0
<1>6. \A r \in B : f[r] = HashBody(f, X, r)
  BY <1>4, <1>5
<1> QED
  BY <1>4, <1>6 DEF IsHash

\* X and Y agree in a range.
SameLeaves(X, Y, first, end) == \A i \in Nat : first < i /\ i <= end => X[i] = Y[i]

\* Hashes of one range of equal leaves agree, whatever range they are a part of.
LEMMA HashesAgree ==
    ASSUME NEW X, NEW Y, NEW f, NEW g,
           NEW first \in Nat, NEW end \in Nat, NEW start \in Nat, NEW stop \in Nat,
           IsHash(f, X, first, end), IsHash(g, Y, start, stop),
           SameLeaves(X, Y, first, end)
    PROVE  \A r \in Box(first, end) : (r \in Box(start, stop) /\ r[1] < r[2]) => f[r] = g[r]
<1> DEFINE B == Box(first, end)
           C == Box(start, stop)
           S == {N \in Nat : \A r \in B : r \in C /\ r[1] < r[2] /\ r[2] - r[1] = N
                                 => f[r] = g[r]}
<1>0. \A r \in B : r[1] \in Nat /\ r[2] \in Nat /\ first <= r[1] /\ r[2] <= end
  BY DEF Box
<1>2. ASSUME NEW N \in Nat, \A k \in 0..(N - 1) : k \in S PROVE N \in S
  <2> SUFFICES ASSUME NEW r \in B, r \in C, r[1] < r[2], r[2] - r[1] = N
               PROVE  f[r] = g[r]
    OBVIOUS
  <2>1. f[r] = HashBody(f, X, r)
    BY DEF IsHash
  <2>2. g[r] = HashBody(g, Y, r)
    BY DEF IsHash
  <2>3. CASE r[2] <= r[1] + 1
    <3>1. X[r[1] + 1] = Y[r[1] + 1]
      <4>1. r[1] + 1 \in Nat /\ first < r[1] + 1 /\ r[1] + 1 <= end
        BY <1>0
      <4> QED
        BY <4>1 DEF SameLeaves
    <3> QED
      BY <2>1, <2>2, <2>3, <3>1 DEF HashBody
  <2>4. CASE ~(r[2] <= r[1] + 1)
    <3> DEFINE mid == r[1] + LargestPowerUpTo[r[2] - r[1] - 1]
    <3>1. /\ mid \in Nat /\ r[1] < mid /\ mid < r[2]
          /\ <<r[1], mid>> \in B /\ <<mid, r[2]>> \in B
      BY <2>4, SplitInside
    <3>2. <<r[1], mid>> \in C /\ <<mid, r[2]>> \in C
      BY <2>4, SplitInside
    <3> DEFINE left  == <<r[1], mid>>
               right == <<mid, r[2]>>
    <3>3. /\ left[1] = r[1] /\ left[2] = mid /\ right[1] = mid /\ right[2] = r[2]
          /\ left \in B /\ left \in C /\ right \in B /\ right \in C
      BY <3>1, <3>2
    <3> HIDE DEF mid, left, right, B, C
    <3>4. left[2] - left[1] \in 0..(N - 1) /\ right[2] - right[1] \in 0..(N - 1)
      BY <1>0, <3>1, <3>3
    <3>5. f[left] = g[left]
      BY <1>2, <3>1, <3>3, <3>4
    <3>6. f[right] = g[right]
      BY <1>2, <3>1, <3>3, <3>4
    <3> QED
      BY <2>1, <2>2, <2>4, <3>5, <3>6 DEF HashBody, mid, left, right
  <2> QED
    BY <2>3, <2>4
<1> HIDE DEF S
<1>3. S \in SUBSET Nat
  BY DEF S
<1>4. S = Nat
  BY <1>2, <1>3, AllNumbers
<1> SUFFICES ASSUME NEW r \in B, r \in C, r[1] < r[2] PROVE f[r] = g[r]
  OBVIOUS
<1>5. r[2] - r[1] \in Nat
  BY <1>0
<1> QED
  BY <1>4, <1>5 DEF S

\* SubtreeHash is the value of such a function.
LEMMA SubtreeIsHash ==
    ASSUME NEW X, NEW a \in Nat, NEW b \in Nat
    PROVE  \E f : IsHash(f, X, a, b) /\ SubtreeHash(X, a, b) = f[<<a, b>>]
<1> DEFINE f == CHOOSE g : IsHash(g, X, a, b)
<1>1. IsHash(f, X, a, b)
  BY HashesUpTo
<1>2. SubtreeHash(X, a, b) = f[<<a, b>>]
  BY DEF SubtreeHash, IsHash, HashBody, Box
<1> QED
  BY <1>1, <1>2

\* Lists that agree in a range have the same hash of it.
LEMMA SameLeavesSameHash ==
    ASSUME NEW X, NEW Y, NEW a \in Nat, NEW b \in Nat, a < b,
           SameLeaves(X, Y, a, b)
    PROVE  SubtreeHash(X, a, b) = SubtreeHash(Y, a, b)
<1>1. PICK f : IsHash(f, X, a, b) /\ SubtreeHash(X, a, b) = f[<<a, b>>]
  BY SubtreeIsHash
<1>2. PICK g : IsHash(g, Y, a, b) /\ SubtreeHash(Y, a, b) = g[<<a, b>>]
  BY SubtreeIsHash
<1> DEFINE r == <<a, b>>
<1>3. r \in Box(a, b) /\ r[1] = a /\ r[2] = b
  BY DEF Box
<1> HIDE DEF r
<1>4. f[r] = g[r]
  BY <1>1, <1>2, <1>3, HashesAgree
<1> QED
  BY <1>1, <1>2, <1>4 DEF r

\* The hash of one leaf is the leaf hash itself.
LEMMA SubtreeOfOne ==
    ASSUME NEW X, NEW a \in Nat, NEW b \in Nat, b = a + 1
    PROVE  SubtreeHash(X, a, b) = X[b]
<1>1. PICK f : IsHash(f, X, a, b) /\ SubtreeHash(X, a, b) = f[<<a, b>>]
  BY SubtreeIsHash
<1> DEFINE r == <<a, b>>
<1>2. r \in Box(a, b) /\ r[1] = a /\ r[2] = b
  BY DEF Box
<1> HIDE DEF r
<1>3. f[r] = HashBody(f, X, r)
  BY <1>1, <1>2 DEF IsHash
<1>4. r[2] <= r[1] + 1
  BY <1>2
<1>5. f[r] = X[b]
  BY <1>2, <1>3, <1>4 DEF HashBody
<1> QED
  BY <1>1, <1>5 DEF r

\* A longer range is split at the largest power of two below its length.
LEMMA SubtreeSplits ==
    ASSUME NEW X, NEW a \in Nat, NEW b \in Nat, NEW mid \in Nat,
           a < b, b # a + 1, mid = a + Power(b - a - 1)
    PROVE  SubtreeHash(X, a, b) = NodeHash(SubtreeHash(X, a, mid), SubtreeHash(X, mid, b))
<1>1. PICK f : IsHash(f, X, a, b) /\ SubtreeHash(X, a, b) = f[<<a, b>>]
  BY SubtreeIsHash
<1> DEFINE r == <<a, b>>
           left == <<a, mid>>
           right == <<mid, b>>
<1>2. r \in Box(a, b) /\ r[1] = a /\ r[2] = b
  BY DEF Box
<1> HIDE DEF r
<1>3. f[r] = HashBody(f, X, r)
  BY <1>1, <1>2 DEF IsHash
<1>4. ~(r[2] <= r[1] + 1) /\ mid = r[1] + LargestPowerUpTo[r[2] - r[1] - 1]
  BY <1>2 DEF Power
<1>5. a < mid /\ mid < b /\ left \in Box(a, b) /\ right \in Box(a, b)
  BY <1>2, <1>4, SplitInside
<1>6. f[r] = NodeHash(f[left], f[right])
  BY <1>2, <1>3, <1>4 DEF HashBody
<1>7. left[1] = a /\ left[2] = mid /\ right[1] = mid /\ right[2] = b
  OBVIOUS
<1>8. PICK g : IsHash(g, X, a, mid) /\ SubtreeHash(X, a, mid) = g[left]
  BY SubtreeIsHash
<1>9. PICK h : IsHash(h, X, mid, b) /\ SubtreeHash(X, mid, b) = h[right]
  BY SubtreeIsHash
<1>10. left \in Box(a, mid) /\ right \in Box(mid, b)
  BY <1>5 DEF Box
<1> HIDE DEF left, right
<1>11. SameLeaves(X, X, a, b)
  BY DEF SameLeaves
<1>12. f[left] = g[left]
  BY <1>1, <1>5, <1>7, <1>8, <1>10, <1>11, HashesAgree
<1>13. f[right] = h[right]
  BY <1>1, <1>5, <1>7, <1>9, <1>10, <1>11, HashesAgree
<1> QED
  BY <1>1, <1>6, <1>8, <1>9, <1>12, <1>13 DEF r

\* The tree over a level has the hashes of the tree below it.
LEMMA HalvedSubtree ==
    ASSUME NEW m \in Nat \ {0}, NEW X, IsList(X, m)
    PROVE  \A a, b \in Nat : a < b /\ b <= Half(m) =>
               SubtreeHash(X, 2 * a, IF 2 * b <= m THEN 2 * b ELSE m)
                   = SubtreeHash(NextLevel(X), a, b)
<1> DEFINE Z == NextLevel(X)
           End(b) == IF 2 * b <= m THEN 2 * b ELSE m
           Good(a, b) == SubtreeHash(X, 2 * a, End(b)) = SubtreeHash(Z, a, b)
           S == {n \in Nat : \A a, b \in Nat : b = a + n /\ n # 0 /\ b <= Half(m) => Good(a, b)}
<1>1. ASSUME NEW n \in Nat, \A k \in 0..(n - 1) : k \in S PROVE n \in S
  <2> SUFFICES ASSUME NEW a \in Nat, NEW b \in Nat, b = a + n, n # 0, b <= Half(m)
               PROVE  Good(a, b)
    OBVIOUS
  <2>1. a < b /\ b \in 1..Half(m) /\ 2 * a \in Nat
    OBVIOUS
  <2>2. /\ End(b) \in Nat /\ 2 * a < End(b) /\ (End(b) = 2 * b \/ End(b) = 2 * b - 1)
        /\ 2 * b <= m => End(b) = 2 * b
        /\ ~(2 * b <= m) => End(b) = 2 * b - 1
    BY <2>1 DEF Half
  <2>3. Z[b] = IF 2 * b <= m THEN NodeHash(X[2 * b - 1], X[2 * b]) ELSE X[2 * b - 1]
    BY <2>1, NextLevelFacts
  <2> HIDE DEF Z
  <2>4. CASE n = 1
    <3>1. SubtreeHash(Z, a, b) = Z[b]
      BY <2>1, <2>4, SubtreeOfOne
    <3> HIDE DEF End
    <3>2. CASE 2 * b <= m
      <4>1. End(b) = 2 * a + 2 /\ 2 * b - 1 = 2 * a + 1 /\ 2 * b = 2 * a + 2
        BY <2>2, <2>4, <3>2
      <4> DEFINE e == End(b)
                 mid == 2 * a + Power(e - 2 * a - 1)
      <4>2. e \in Nat /\ 2 * a < e /\ e # 2 * a + 1
        BY <4>1
      <4>3. e - 2 * a - 1 = 1
        BY <4>1
      <4>4. mid = 2 * a + 1
        BY <4>3, PowerFacts
      <4> HIDE DEF e
      <4>5. SubtreeHash(X, 2 * a, e) =
                NodeHash(SubtreeHash(X, 2 * a, mid), SubtreeHash(X, mid, e))
        <5>1. 2 * a \in Nat /\ mid \in Nat /\ mid = 2 * a + Power(e - 2 * a - 1)
          BY <2>1, <4>4
        <5> HIDE DEF mid
        <5> QED
          BY <4>2, <5>1, SubtreeSplits
      <4> HIDE DEF mid
      <4>6. SubtreeHash(X, 2 * a, mid) = X[2 * a + 1]
        BY <2>1, <4>4, SubtreeOfOne
      <4>7. SubtreeHash(X, mid, e) = X[2 * a + 2]
        <5>1. e = 2 * a + 2
          BY <4>1 DEF e
        <5>2. mid \in Nat /\ e \in Nat /\ mid < e /\ e = mid + 1
          BY <2>1, <4>4, <5>1
        <5> QED
          BY <5>1, <5>2, SubtreeOfOne
      <4> QED
        BY <2>3, <3>1, <3>2, <4>1, <4>5, <4>6, <4>7 DEF e
    <3>3. CASE ~(2 * b <= m)
      <4>1. End(b) = 2 * a + 1 /\ 2 * b - 1 = 2 * a + 1
        BY <2>2, <2>4, <3>3
      <4>2. SubtreeHash(X, 2 * a, 2 * a + 1) = X[2 * a + 1]
        BY <2>1, SubtreeOfOne
      <4> QED
        BY <2>3, <3>1, <3>3, <4>1, <4>2
    <3> QED
      BY <3>2, <3>3
  <2>5. CASE n # 1
    <3> DEFINE j == b - a - 1
               mid == a + Power(j)
               e == End(b)
    <3>1. j \in Nat \ {0} /\ Power(j) \in 1..j
      BY <2>5, PowerFacts
    <3>2. /\ mid \in Nat /\ a < mid /\ mid < b /\ 2 * mid <= m /\ mid <= Half(m)
          /\ 2 * mid = 2 * a + 2 * Power(j)
      BY <2>1, <3>1 DEF Half
    <3>3. e - 2 * a - 1 = 2 * j + 1 \/ e - 2 * a - 1 = 2 * j
      BY <2>2
    <3>4. Power(e - 2 * a - 1) = 2 * Power(j)
      BY <3>1, <3>3, PowerFacts
    <3>5. 2 * a + Power(e - 2 * a - 1) = 2 * mid
      BY <3>2, <3>4
    <3>6. e \in Nat /\ 2 * a < e /\ e # 2 * a + 1
      <4>1. e = 2 * b \/ e = 2 * b - 1
        BY <2>2
      <4> HIDE DEF e
      <4> QED
        BY <2>1, <2>5, <4>1
    <3> HIDE DEF e
    <3>7. SubtreeHash(X, 2 * a, e) =
              NodeHash(SubtreeHash(X, 2 * a, 2 * mid), SubtreeHash(X, 2 * mid, e))
      <4>1. 2 * a \in Nat /\ 2 * mid \in Nat /\ 2 * mid = 2 * a + Power(e - 2 * a - 1)
        BY <2>1, <3>2, <3>5
      <4> HIDE DEF mid
      <4> QED
        BY <3>6, <4>1, SubtreeSplits
    <3>8. SubtreeHash(Z, a, b) = NodeHash(SubtreeHash(Z, a, mid), SubtreeHash(Z, mid, b))
      <4>1. mid \in Nat /\ mid = a + Power(b - a - 1) /\ b # a + 1
        BY <2>5, <3>2
      <4> HIDE DEF mid
      <4> QED
        BY <2>1, <4>1, SubtreeSplits
    <3>9. End(mid) = 2 * mid
      BY <3>2
    <3> HIDE DEF mid, j, End, Good
    <3>10. Good(a, mid)
      <4>1. mid - a \in 0..(n - 1) /\ mid = a + (mid - a) /\ mid - a # 0
        BY <3>2
      <4> QED
        BY <1>1, <3>2, <4>1
    <3>11. Good(mid, b)
      <4>1. b - mid \in 0..(n - 1) /\ b = mid + (b - mid) /\ b - mid # 0
        BY <3>2
      <4> QED
        BY <1>1, <3>2, <4>1
    <3> QED
      BY <3>7, <3>8, <3>9, <3>10, <3>11 DEF Good, e
  <2> QED
    BY <2>4, <2>5
<1> HIDE DEF S
<1>2. S \in SUBSET Nat
  BY DEF S
<1>3. S = Nat
  BY <1>1, <1>2, AllNumbers
<1> SUFFICES ASSUME NEW a \in Nat, NEW b \in Nat, a < b, b <= Half(m) PROVE Good(a, b)
  OBVIOUS
<1>4. b - a \in Nat /\ b = a + (b - a) /\ b - a # 0
  OBVIOUS
<1> HIDE DEF Good
<1> QED
  BY <1>3, <1>4 DEF S

\* The root is the hash of the whole range: build_tree_levels and subtree_hash
\* make the same tree.
LEMMA RootIsSubtree ==
    ASSUME NEW m \in Nat \ {0}, NEW X, IsList(X, m)
    PROVE  Root(X) = SubtreeHash(X, 0, m)
<1> DEFINE Whole(h) == SubtreeHash(TreeLevel(X, h), 0, Width(X, h))
           S == {h \in Nat : Whole(h) = SubtreeHash(X, 0, m)}
<1>1. ASSUME NEW h \in Nat, \A k \in 0..(h - 1) : k \in S PROVE h \in S
  <2>1. CASE h = 0
    BY <2>1, Widths, LevelRecursion
  <2>2. CASE h # 0
    <3>1. h - 1 \in S /\ h - 1 \in Nat /\ (h - 1) + 1 = h
      BY <1>1, <2>2
    <3> DEFINE A == TreeLevel(X, h - 1)
               w == Width(X, h - 1)
    <3>2. w \in Nat \ {0} /\ IsList(A, w) /\ Width(X, h) = Half(w)
      BY <3>1, Widths
    <3>3. TreeLevel(X, h) = NextLevel(A)
      BY <3>1, LevelRecursion
    <3>4. SubtreeHash(A, 0, w) = SubtreeHash(X, 0, m)
      BY <3>1
    <3> HIDE DEF A, w
    <3>5. Half(w) \in Nat /\ 0 < Half(w) /\ (IF 2 * Half(w) <= w THEN 2 * Half(w) ELSE w) = w
          /\ Half(w) <= Half(w)
      BY <3>2 DEF Half
    <3>6. SubtreeHash(A, 2 * 0, w) = SubtreeHash(NextLevel(A), 0, Half(w))
      BY <3>2, <3>5, HalvedSubtree
    <3> QED
      BY <3>2, <3>3, <3>4, <3>6
  <2> QED
    BY <2>1, <2>2
<1> HIDE DEF S
<1>2. S \in SUBSET Nat
  BY DEF S
<1>3. S = Nat
  BY <1>1, <1>2, AllNumbers
<1>4. Height(X) \in Nat /\ Width(X, Height(X)) = 1
  BY HeightFacts
<1>5. SubtreeHash(TreeLevel(X, Height(X)), 0, 1) = TreeLevel(X, Height(X))[1]
  BY SubtreeOfOne
<1> QED
  BY <1>3, <1>4, <1>5, RootIsTop DEF S

-----------------------------------------------------------------------------
(* Consistency: the pieces chain to the root of the old log.               *)

\* f holds the chains of the ends of X.
IsChain(f, X, n) ==
    f = [i \in 1..n |-> IF i = n THEN X[n] ELSE NodeHash(X[i], f[i + 1])]

\* A list without its first element.
Rest(X, n) == [i \in 1..(n - 1) |-> X[i + 1]]

\* A chain of the rest is a chain of the list but for its first link.
LEMMA LongerChain ==
    ASSUME NEW n \in Nat \ {0, 1}, NEW X, NEW g, IsChain(g, Rest(X, n), n - 1)
    PROVE  \E f : IsChain(f, X, n) /\ f[1] = NodeHash(X[1], g[1])
<1> DEFINE f == [i \in 1..n |-> IF i = 1 THEN NodeHash(X[1], g[1]) ELSE g[i - 1]]
           Y == Rest(X, n)
<1>0. n - 1 \in Nat \ {0} /\ 1 \in 1..n /\ 1 # n
  OBVIOUS
<1>1. \A i \in 1..(n - 1) : g[i] = IF i = n - 1 THEN X[n] ELSE NodeHash(X[i + 1], g[i + 1])
  <2> TAKE i \in 1..(n - 1)
  <2>1. g[i] = IF i = n - 1 THEN Y[n - 1] ELSE NodeHash(Y[i], g[i + 1])
    BY DEF IsChain
  <2>2. n - 1 \in 1..(n - 1) /\ (n - 1) + 1 = n
    BY <1>0
  <2>3. Y[n - 1] = X[n] /\ Y[i] = X[i + 1]
    BY <2>2 DEF Rest
  <2> QED
    BY <2>1, <2>3
<1>2. /\ f[1] = NodeHash(X[1], g[1])
      /\ \A i \in 2..n : f[i] = g[i - 1]
      /\ f = [i \in 1..n |-> f[i]]
  OBVIOUS
<1> HIDE DEF f
<1>3. \A i \in 1..n : f[i] = IF i = n THEN X[n] ELSE NodeHash(X[i], f[i + 1])
  <2> TAKE i \in 1..n
  <2>1. CASE i = 1
    <3>1. f[i + 1] = g[1] /\ i # n
      BY <1>0, <1>2, <2>1
    <3> QED
      BY <1>2, <2>1, <3>1
  <2>2. CASE i # 1
    <3>1. i - 1 \in 1..(n - 1) /\ i \in 2..n /\ (i - 1) + 1 = i
      BY <2>2
    <3>2. f[i] = IF i - 1 = n - 1 THEN X[n] ELSE NodeHash(X[i], g[i])
      BY <1>1, <1>2, <3>1
    <3>3. i # n => f[i + 1] = g[i]
      <4>1. i # n => i + 1 \in 2..n /\ (i + 1) - 1 = i
        BY <3>1
      <4> QED
        BY <1>2, <4>1
    <3>4. i - 1 = n - 1 <=> i = n
      BY <3>1
    <3> QED
      BY <3>2, <3>3, <3>4
  <2> QED
    BY <2>1, <2>2
<1>4. IsChain(f, X, n)
  BY <1>2, <1>3 DEF IsChain
<1> QED
  BY <1>2, <1>4

\* The function ChainRightToLeft chooses exists for a list of any length,
LEMMA ChainsUpTo == \A n \in Nat : \A X : \E f : IsChain(f, X, n)
<1> DEFINE S == {n \in Nat : \A X : \E f : IsChain(f, X, n)}
<1>1. ASSUME NEW n \in Nat, \A k \in 0..(n - 1) : k \in S PROVE n \in S
  <2> SUFFICES ASSUME NEW X PROVE \E f : IsChain(f, X, n)
    OBVIOUS
  <2>1. CASE n \in {0, 1}
    <3> DEFINE f == [i \in 1..n |-> X[n]]
    <3>1. \A i \in 1..n : i = n
      BY <2>1
    <3>2. f = [i \in 1..n |-> IF i = n THEN X[n] ELSE NodeHash(X[i], f[i + 1])]
      BY <3>1
    <3>3. IsChain(f, X, n)
      BY <3>2 DEF IsChain
    <3> QED
      BY <3>3
  <2>2. CASE n \notin {0, 1}
    <3>1. n - 1 \in S
      BY <1>1, <2>2
    <3>2. PICK g : IsChain(g, Rest(X, n), n - 1)
      BY <3>1
    <3> QED
      BY <2>2, <3>2, LongerChain
  <2> QED
    BY <2>1, <2>2
<1> HIDE DEF S
<1>2. S \in SUBSET Nat
  BY DEF S
<1>3. S = Nat
  BY <1>1, <1>2, AllNumbers
<1> QED
  BY <1>3 DEF S

\* and it is the only one.
LEMMA ChainsAgree ==
    ASSUME NEW n \in Nat, NEW X, NEW f, NEW g, IsChain(f, X, n), IsChain(g, X, n)
    PROVE  \A i \in 1..n : f[i] = g[i]
<1> DEFINE S == {k \in Nat : k < n => f[n - k] = g[n - k]}
<1>0. \A i \in 1..n : /\ f[i] = IF i = n THEN X[n] ELSE NodeHash(X[i], f[i + 1])
                      /\ g[i] = IF i = n THEN X[n] ELSE NodeHash(X[i], g[i + 1])
  BY DEF IsChain
<1>1. ASSUME NEW k \in Nat, \A j \in 0..(k - 1) : j \in S PROVE k \in S
  <2> SUFFICES ASSUME k < n PROVE f[n - k] = g[n - k]
    OBVIOUS
  <2> DEFINE i == n - k
  <2>1. i \in 1..n
    OBVIOUS
  <2>2. CASE k = 0
    BY <1>0, <2>1, <2>2
  <2>3. CASE k # 0
    <3>1. k - 1 \in S /\ k - 1 < n /\ n - (k - 1) = i + 1
      BY <1>1, <2>3
    <3>2. f[i + 1] = g[i + 1]
      BY <3>1
    <3> QED
      BY <1>0, <2>1, <3>2
  <2> QED
    BY <2>2, <2>3
<1> HIDE DEF S
<1>2. S \in SUBSET Nat
  BY DEF S
<1>3. S = Nat
  BY <1>1, <1>2, AllNumbers
<1> SUFFICES ASSUME NEW i \in 1..n PROVE f[i] = g[i]
  OBVIOUS
<1>4. n - i \in Nat /\ n - i < n /\ n - (n - i) = i
  OBVIOUS
<1> QED
  BY <1>3, <1>4 DEF S

\* The chain of a list: its first element hashed with the chain of the rest.
LEMMA ChainRecursion ==
    ASSUME NEW n \in Nat \ {0}, NEW X, IsList(X, n)
    PROVE  /\ n = 1 => ChainRightToLeft(X) = X[1]
           /\ n # 1 => ChainRightToLeft(X) = NodeHash(X[1], ChainRightToLeft(Rest(X, n)))
<1>1. ASSUME NEW k \in Nat, NEW Y, IsList(Y, k)
      PROVE  \E f : IsChain(f, Y, k) /\ ChainRightToLeft(Y) = f[1]
  <2> DEFINE f == CHOOSE g : IsChain(g, Y, k)
  <2>1. IsChain(f, Y, k)
    BY ChainsUpTo
  <2>2. Len(Y) = k
    BY <1>1, ListLength
  <2>3. ChainRightToLeft(Y) = f[1]
    BY <2>2 DEF ChainRightToLeft, IsChain
  <2> HIDE DEF f
  <2> QED
    BY <2>1, <2>3
<1>2. PICK f : IsChain(f, X, n) /\ ChainRightToLeft(X) = f[1]
  BY <1>1
<1>3. CASE n = 1
  <2>1. 1 \in 1..n
    BY <1>3
  <2> QED
    BY <1>2, <1>3, <2>1 DEF IsChain
<1>4. CASE n # 1
  <2>1. n - 1 \in Nat /\ IsList(Rest(X, n), n - 1)
    BY <1>4 DEF IsList, Rest
  <2>2. PICK g : IsChain(g, Rest(X, n), n - 1) /\ ChainRightToLeft(Rest(X, n)) = g[1]
    BY <1>1, <2>1
  <2>3. PICK h : IsChain(h, X, n) /\ h[1] = NodeHash(X[1], g[1])
    BY <1>4, <2>2, LongerChain
  <2>4. f[1] = h[1]
    BY <1>2, <2>3, ChainsAgree
  <2> QED
    BY <1>2, <1>4, <2>2, <2>3, <2>4
<1> QED
  BY <1>3, <1>4

-----------------------------------------------------------------------------
(* The pieces of an old size.                                              *)

\* f holds the pieces of the range up to size from every start.
IsPieces(f, X, size, first) ==
    f = [s \in first..size |->
            IF s = size THEN <<>>
            ELSE <<SubtreeHash(X, s, s + Power(size - s))>> \o f[s + Power(size - s)]]

\* The function CollectSubtreeHashes chooses exists from every start: a piece
\* is never empty and never reaches past the size.
LEMMA PiecesUpTo ==
    ASSUME NEW X, NEW size \in Nat
    PROVE  \A k \in Nat : k <= size => \E f : IsPieces(f, X, size, size - k)
<1> DEFINE S == {k \in Nat : k <= size => \E f : IsPieces(f, X, size, size - k)}
<1>1. ASSUME NEW k \in Nat, \A j \in 0..(k - 1) : j \in S PROVE k \in S
  <2> SUFFICES ASSUME k <= size PROVE \E f : IsPieces(f, X, size, size - k)
    OBVIOUS
  <2>1. CASE k = 0
    <3> DEFINE f == [s \in size..size |-> <<>>]
    <3>1. IsPieces(f, X, size, size - k)
      BY <2>1 DEF IsPieces
    <3> QED
      BY <3>1
  <2>2. CASE k # 0
    <3>1. k - 1 \in S /\ k - 1 <= size /\ size - (k - 1) = size - k + 1
      BY <1>1, <2>2
    <3>2. PICK g : IsPieces(g, X, size, size - k + 1)
      BY <3>1
    <3> DEFINE first == size - k
               next(s) == s + Power(size - s)
               piece(s) == SubtreeHash(X, s, next(s))
               f == [s \in first..size |-> IF s = first THEN <<piece(s)>> \o g[next(s)] ELSE g[s]]
    <3>3. first \in Nat /\ first < size
      BY <2>2
    <3>4. \A s \in first..size : s # size => next(s) \in (first + 1)..size
      <4> TAKE s \in first..size
      <4> HAVE s # size
      <4>1. size - s \in Nat \ {0}
        BY <3>3
      <4>2. Power(size - s) \in 1..(size - s)
        BY <4>1, PowerFacts
      <4> QED
        BY <3>3, <4>2
    <3> HIDE DEF next, piece
    <3>5. \A s \in (first + 1)..size : g[s] = IF s = size THEN <<>> ELSE <<piece(s)>> \o g[next(s)]
      BY <3>2 DEF IsPieces, next, piece
    <3>6. /\ f = [s \in first..size |-> f[s]]
          /\ f[first] = <<piece(first)>> \o g[next(first)]
          /\ \A s \in (first + 1)..size : f[s] = g[s]
      BY <3>3
    <3> HIDE DEF f, first
    <3>7. \A s \in first..size : f[s] = IF s = size THEN <<>> ELSE <<piece(s)>> \o f[next(s)]
      <4> TAKE s \in first..size
      <4>1. CASE s = first
        <5>1. s # size /\ next(s) \in (first + 1)..size
          BY <3>3, <3>4, <4>1
        <5>2. f[next(s)] = g[next(s)]
          BY <3>6, <5>1
        <5> QED
          BY <3>6, <4>1, <5>1, <5>2
      <4>2. CASE s # first
        <5>1. s \in (first + 1)..size
          BY <3>3, <4>2
        <5>2. s # size => f[next(s)] = g[next(s)]
          BY <3>4, <3>6
        <5> QED
          BY <3>5, <3>6, <5>1, <5>2
      <4> QED
        BY <4>1, <4>2
    <3>8. IsPieces(f, X, size, first)
      BY <3>6, <3>7 DEF IsPieces, next, piece
    <3> QED
      BY <3>8 DEF first
  <2> QED
    BY <2>1, <2>2
<1> HIDE DEF S
<1>2. S \in SUBSET Nat
  BY DEF S
<1>3. S = Nat
  BY <1>1, <1>2, AllNumbers
<1> QED
  BY <1>3 DEF S

\* A list with one more element in front.
LEMMA FrontFacts ==
    ASSUME NEW h, NEW n \in Nat, NEW t, IsList(t, n)
    PROVE  /\ IsList(<<h>> \o t, n + 1)
           /\ (<<h>> \o t)[1] = h
           /\ Rest(<<h>> \o t, n + 1) = t
<1> DEFINE V == {t[i] : i \in 1..n} \cup {h}
           l == <<h>> \o t
<1>1. t \in [1..n -> V]
  BY DEF IsList
<1>2. t \in Seq(V) /\ <<h>> \in Seq(V) /\ Len(<<h>>) = 1
  BY <1>1
<1>3. Len(t) = n
  BY ListLength
<1>4. /\ l \in Seq(V) /\ Len(l) = n + 1
      /\ l[1] = h
      /\ \A i \in 1..n : l[i + 1] = t[i]
  BY <1>2, <1>3
<1> HIDE DEF l
<1>5. l = [i \in 1..(n + 1) |-> l[i]]
  BY <1>4
<1>6. Rest(l, n + 1) = [i \in 1..n |-> t[i]]
  BY <1>4 DEF Rest
<1> QED
  BY <1>4, <1>5, <1>6 DEF IsList, l

\* The pieces of a range chain to the hash of the range: every piece is as much
\* as subtree_hash splits off.
LEMMA PiecesChain ==
    ASSUME NEW X, NEW size \in Nat \ {0}
    PROVE  ChainRightToLeft(CollectSubtreeHashes(X, size)) = SubtreeHash(X, 0, size)
<1> DEFINE f == CHOOSE g : IsPieces(g, X, size, 0)
           next(s) == s + Power(size - s)
           piece(s) == SubtreeHash(X, s, next(s))
<1>1. IsPieces(f, X, size, 0)
  <2>1. size - size = 0 /\ size \in Nat /\ size <= size
    OBVIOUS
  <2>2. \E g : IsPieces(g, X, size, size - size)
    BY <2>1, PiecesUpTo
  <2> QED
    BY <2>1, <2>2
<1>2. CollectSubtreeHashes(X, size) = f[0]
  BY DEF CollectSubtreeHashes, IsPieces, Power
<1> HIDE DEF f, next, piece
<1>3. \A s \in 0..size : f[s] = IF s = size THEN <<>> ELSE <<piece(s)>> \o f[next(s)]
  BY <1>1 DEF IsPieces, next, piece
<1> DEFINE Right(s) == /\ \E n \in Nat \ {0} : IsList(f[s], n)
                       /\ ChainRightToLeft(f[s]) = SubtreeHash(X, s, size)
           S == {k \in Nat : k \in 1..size => Right(size - k)}
<1>4. ASSUME NEW k \in Nat, \A j \in 0..(k - 1) : j \in S PROVE k \in S
  <2> SUFFICES ASSUME k \in 1..size PROVE Right(size - k)
    OBVIOUS
  <2> DEFINE s == size - k
  <2>1. s \in 0..size /\ s # size /\ size - s = k /\ s \in Nat /\ s < size
    OBVIOUS
  <2>2. next(s) = s + Power(k) /\ Power(k) \in 1..k
    BY <2>1, PowerFacts DEF next
  <2>3. f[s] = <<piece(s)>> \o f[next(s)]
    BY <1>3, <2>1
  <2>4. CASE Power(k) = k
    <3>1. next(s) = size
      BY <2>1, <2>2, <2>4
    <3>2. f[next(s)] = <<>>
      <4>1. size \in 0..size
        OBVIOUS
      <4>2. f[size] = <<>>
        BY <1>3, <4>1
      <4> QED
        BY <3>1, <4>2
    <3>3. f[s] = <<piece(s)>> /\ piece(s) = SubtreeHash(X, s, size)
      BY <2>3, <3>1, <3>2 DEF piece
    <3>4. IsList(f[s], 1) /\ f[s][1] = piece(s)
      BY <3>3 DEF IsList
    <3>5. ChainRightToLeft(f[s]) = piece(s)
      BY <3>4, ChainRecursion
    <3> QED
      BY <3>3, <3>4, <3>5
  <2>5. CASE Power(k) # k
    <3> DEFINE mid == next(s)
               j == k - Power(k)
    <3>1. /\ j \in 1..size /\ j \in 0..(k - 1) /\ j \in Nat
          /\ mid = size - j /\ mid \in Nat /\ s < mid /\ mid < size
          /\ k # 1 /\ k \in Nat \ {0, 1} /\ Power(k) < k
      BY <2>1, <2>2, <2>5
    <3>2. Right(mid)
      BY <1>4, <3>1
    <3> HIDE DEF mid, j
    <3>3. PICK n \in Nat \ {0} : IsList(f[mid], n)
      BY <3>2
    <3>4. /\ IsList(f[s], n + 1)
          /\ f[s][1] = piece(s)
          /\ Rest(f[s], n + 1) = f[mid]
      BY <2>3, <3>3, FrontFacts DEF mid
    <3>5. ChainRightToLeft(f[s]) = NodeHash(piece(s), ChainRightToLeft(f[mid]))
      <4>1. n + 1 \in Nat \ {0} /\ n + 1 # 1
        OBVIOUS
      <4> QED
        BY <3>4, <4>1, ChainRecursion
    <3>6. Power(k - 1) = Power(k)
      BY <3>1, PowerBelow
    <3>7. SubtreeHash(X, s, size) = NodeHash(SubtreeHash(X, s, mid), SubtreeHash(X, mid, size))
      <4>1. mid = s + Power(size - s - 1) /\ size # s + 1
        <5>1. size - s - 1 = k - 1
          BY <2>1
        <5> QED
          BY <2>1, <2>2, <3>1, <3>6, <5>1 DEF mid
      <4> HIDE DEF mid, s
      <4> QED
        BY <2>1, <3>1, <4>1, SubtreeSplits
    <3>8. piece(s) = SubtreeHash(X, s, mid)
      BY DEF piece, mid
    <3> QED
      BY <3>1, <3>2, <3>4, <3>5, <3>7, <3>8
  <2> QED
    BY <2>4, <2>5
<1> HIDE DEF S
<1>5. S \in SUBSET Nat
  BY DEF S
<1>6. S = Nat
  BY <1>4, <1>5, AllNumbers
<1>7. size \in S /\ size - size = 0 /\ size \in 1..size
  BY <1>6
<1>8. Right(size - size)
  BY <1>7 DEF S
<1> QED
  BY <1>2, <1>7, <1>8

\* The first m elements of a list.
LEMMA PrefixFacts ==
    ASSUME NEW n \in Nat, NEW X, IsList(X, n), NEW m \in 0..n
    PROVE  /\ IsList(SubSeq(X, 1, m), m)
           /\ \A i \in 1..m : SubSeq(X, 1, m)[i] = X[i]
           /\ m = n => SubSeq(X, 1, m) = X
<1> DEFINE V == {X[i] : i \in 1..n}
           p == SubSeq(X, 1, m)
<1>1. X \in [1..n -> V]
  BY DEF IsList
<1>2. X \in Seq(V)
  BY <1>1
<1>3. Len(X) = n
  BY ListLength
<1>4. p = [i \in 1..m |-> X[i]]
  BY <1>2, <1>3
<1> HIDE DEF p
<1>5. IsList(p, m) /\ \A i \in 1..m : p[i] = X[i]
  BY <1>4 DEF IsList
<1>6. m = n => p = X
  BY <1>4 DEF IsList
<1> QED
  BY <1>5, <1>6 DEF p

\* What consistency_proof_for makes, verify_consistency_proof accepts, for every
\* two sizes.
LEMMA HonestConsistencyHolds ==
    ASSUME NEW n \in Nat \ {0}, NEW X, IsList(X, n), NEW m \in 1..n
    PROVE  VerifyConsistencyProof(ConsistencyProof(X, m), X)
<1> DEFINE old == SubSeq(X, 1, m)
           proof == ConsistencyProof(X, m)
<1>1. Len(X) = n
  BY ListLength
<1>2. /\ proof.oldSize = m /\ proof.newSize = n
      /\ proof.oldRoot = Root(old) /\ proof.newRoot = Root(X)
      /\ m # n => proof.hashes = CollectSubtreeHashes(X, m)
  BY <1>1 DEF ConsistencyProof
<1>3. m \in 0..n /\ m \in Nat \ {0}
  OBVIOUS
<1>4. /\ IsList(old, m)
      /\ \A i \in 1..m : old[i] = X[i]
      /\ m = n => old = X
  BY <1>3, PrefixFacts
<1> HIDE DEF old, proof
<1>5. CASE m = n
  BY <1>2, <1>3, <1>4, <1>5 DEF VerifyConsistencyProof, proof
<1>6. CASE m # n
  <2>1. ChainRightToLeft(proof.hashes) = SubtreeHash(X, 0, m)
    BY <1>2, <1>3, <1>6, PiecesChain
  <2>2. SameLeaves(X, old, 0, m)
    <3>1. \A i \in Nat : 0 < i /\ i <= m => i \in 1..m
      OBVIOUS
    <3> QED
      BY <1>4, <3>1 DEF SameLeaves
  <2>3. SubtreeHash(X, 0, m) = SubtreeHash(old, 0, m)
    BY <1>3, <2>2, SameLeavesSameHash
  <2>4. Root(old) = SubtreeHash(old, 0, m)
    BY <1>3, <1>4, RootIsSubtree
  <2> QED
    BY <1>2, <1>3, <1>6, <2>1, <2>3, <2>4 DEF VerifyConsistencyProof, proof
<1> QED
  BY <1>5, <1>6

-----------------------------------------------------------------------------
(* Leaf hashes.                                                            *)

\* A history of entries is a list in the sense of IsList.
LEMMA EntriesAreAList ==
    ASSUME NEW entries \in Seq(Entries)
    PROVE  Len(entries) \in Nat /\ IsList(entries, Len(entries))
BY DEF IsList

\* Leaf hashes are in the order of the entries and are no node hashes.
LEMMA LeafFacts ==
    ASSUME NEW n \in Nat, NEW E, IsList(E, n)
    PROVE  /\ IsList(Leaves(E), n)
           /\ \A i \in 1..n : Leaves(E)[i] = LeafHash(i - 1, E[i])
           /\ \A i \in 1..n : Honest(Leaves(E)[i])
<1>1. DOMAIN E = 1..n
  BY ListLength
<1>2. Leaves(E) = [i \in 1..n |-> LeafHash(i - 1, E[i])]
  BY <1>1 DEF Leaves
<1>3. \A i, x : Honest(LeafHash(i, x))
  BY DEF Honest, LeafHash, NodeHash, EmptyHash
<1>4. \A i \in 1..n : Leaves(E)[i] = LeafHash(i - 1, E[i])
  BY <1>2
<1> QED
  BY <1>2, <1>3, <1>4 DEF IsList

\* Two histories of one length with the same root are the same.
LEMMA RootsBindEntries ==
    ASSUME NEW n \in Nat \ {0}, NEW D, NEW E, IsList(D, n), IsList(E, n),
           Root(Leaves(D)) = Root(Leaves(E))
    PROVE  D = E
<1>1. IsList(Leaves(D), n) /\ IsList(Leaves(E), n)
  BY LeafFacts
<1>2. Leaves(D) = Leaves(E)
  BY <1>1, RootBinds
<1>3. \A i \in 1..n : LeafHash(i - 1, D[i]) = LeafHash(i - 1, E[i])
  BY <1>2, LeafFacts
<1>4. \A i \in 1..n : D[i] = E[i]
  BY <1>3 DEF LeafHash
<1> QED
  BY <1>4 DEF IsList

\* The leaf hashes of a prefix are a prefix of the leaf hashes.
LEMMA PrefixLeaves ==
    ASSUME NEW n \in Nat, NEW E, IsList(E, n), NEW m \in 0..n
    PROVE  Leaves(SubSeq(E, 1, m)) = SubSeq(Leaves(E), 1, m)
<1> DEFINE A == Leaves(SubSeq(E, 1, m))
           B == SubSeq(Leaves(E), 1, m)
<1>1. /\ IsList(SubSeq(E, 1, m), m)
      /\ \A i \in 1..m : SubSeq(E, 1, m)[i] = E[i]
  BY PrefixFacts
<1>2. IsList(Leaves(E), n) /\ \A i \in 1..n : Leaves(E)[i] = LeafHash(i - 1, E[i])
  BY LeafFacts
<1>3. IsList(A, m) /\ \A i \in 1..m : A[i] = LeafHash(i - 1, E[i])
  <2>1. m \in Nat
    OBVIOUS
  <2>2. IsList(A, m) /\ \A i \in 1..m : A[i] = LeafHash(i - 1, SubSeq(E, 1, m)[i])
    BY <1>1, <2>1, LeafFacts
  <2> QED
    BY <1>1, <2>2
<1>4. IsList(B, m) /\ \A i \in 1..m : B[i] = LeafHash(i - 1, E[i])
  <2>1. IsList(B, m) /\ \A i \in 1..m : B[i] = Leaves(E)[i]
    BY <1>2, PrefixFacts
  <2>2. \A i \in 1..m : i \in 1..n
    OBVIOUS
  <2> QED
    BY <1>2, <2>1, <2>2
<1> HIDE DEF A, B
<1>5. A = B
  BY <1>3, <1>4 DEF IsList
<1> QED
  BY <1>5 DEF A, B

-----------------------------------------------------------------------------
(* The log and its auditor.                                                *)

\* What the auditor keeps is the size and the root of a history that was logged.
AuditorInv ==
    /\ log \in Seq(Entries)
    /\ original \in Seq(Entries)
    /\ \/ pinned = NothingPinned
       \/ /\ pinned = [size |-> Len(original), root |-> Root(Leaves(original))]
          /\ original # <<>>

\* Appends, rewrites and new roots keep what the auditor has consistent.
LEMMA AuditorInductive == LogSpec => []AuditorInv
<1>1. LogInit => AuditorInv
  BY DEF LogInit, AuditorInv
<1>2. AuditorInv /\ [LogNext]_logVars => AuditorInv'
  <2> SUFFICES ASSUME AuditorInv, [LogNext]_logVars PROVE AuditorInv'
    OBVIOUS
  <2> USE DEF AuditorInv
  <2>1. ASSUME NEW entry \in Rows, AppendEntry(entry) PROVE AuditorInv'
    <3>1. entry \in Entries
      BY DEF Entries
    <3>2. log' \in Seq(Entries)
      BY <2>1, <3>1 DEF AppendEntry
    <3> QED
      BY <2>1, <3>2 DEF AppendEntry
  <2>2. ASSUME NEW i \in DOMAIN log, NEW entry \in Entries, RewriteAndReload(i, entry)
        PROVE  AuditorInv'
    <3>1. log' \in Seq(Entries)
      BY <2>2 DEF RewriteAndReload
    <3> QED
      BY <2>2, <3>1 DEF RewriteAndReload
  <2>3. CASE Pin
    BY <2>3 DEF Pin
  <2>4. CASE UNCHANGED logVars
    BY <2>4 DEF logVars
  <2> QED
    BY <2>1, <2>2, <2>3, <2>4 DEF LogNext
<1> QED
  BY <1>1, <1>2, PTL DEF LogSpec

\* An auditor who kept a root accepts the consistency proof of a later log
\* exactly if the log still begins with the entries the root was computed from.
THEOREM AuditorIsNotFooled == LogSpec => []AuditorAcceptsHonestHistoryOnly
<1>1. AuditorInv => AuditorAcceptsHonestHistoryOnly
  <2> SUFFICES ASSUME AuditorInv, pinned.size \in 1..Len(log)
               PROVE  LET proof == ConsistencyProof(Leaves(log), pinned.size)
                      IN  VerifyConsistencyProof(proof, Leaves(log))
                              /\ proof.oldRoot = pinned.root
                              <=> SubSeq(log, 1, pinned.size) = original
    BY DEF AuditorAcceptsHonestHistoryOnly
  <2> DEFINE n == Len(log)
             m == pinned.size
             X == Leaves(log)
             old == SubSeq(log, 1, m)
             proof == ConsistencyProof(X, m)
  <2>1. n \in Nat /\ IsList(log, n) /\ Len(original) \in Nat /\ IsList(original, Len(original))
    BY EntriesAreAList DEF AuditorInv
  <2>2. pinned.size # 0
    OBVIOUS
  <2>3. m = Len(original) /\ pinned.root = Root(Leaves(original))
    BY <2>2 DEF AuditorInv, NothingPinned
  <2>4. m \in 1..n /\ m \in 0..n /\ m \in Nat \ {0} /\ n \in Nat \ {0}
    BY <2>1
  <2>5. IsList(X, n)
    BY <2>1, LeafFacts
  <2>6. IsList(old, m)
    BY <2>1, <2>4, PrefixFacts
  <2>7. VerifyConsistencyProof(proof, X)
    BY <2>4, <2>5, HonestConsistencyHolds
  <2>8. proof.oldRoot = Root(SubSeq(X, 1, m))
    BY DEF ConsistencyProof
  <2>9. SubSeq(X, 1, m) = Leaves(old)
    BY <2>1, <2>4, PrefixLeaves
  <2>10. Root(Leaves(old)) = Root(Leaves(original)) <=> old = original
    BY <2>1, <2>3, <2>4, <2>6, RootsBindEntries
  <2> QED
    BY <2>3, <2>7, <2>8, <2>9, <2>10
<1> QED
  BY <1>1, AuditorInductive, PTL

\* verify_inclusion_proof accepts a claim about a position exactly if the claim
\* is the entry there and every node on its way to the root has a neighbour.
THEOREM InclusionIsExact == LogSpec => []InclusionProvesPairedEntries
<1>1. AuditorInv => InclusionProvesPairedEntries
  <2> DEFINE X == Leaves(log)
  <2> SUFFICES ASSUME AuditorInv, NEW i \in DOMAIN log, NEW claimed \in Entries
               PROVE  LET proof == [InclusionProof(X, i - 1) EXCEPT
                                        !.leafHash = LeafHash(i - 1, claimed)]
                      IN  VerifyInclusionProof(proof)
                              <=> PairedUpToRoot(X, i - 1) /\ claimed = log[i]
    BY DEF InclusionProvesPairedEntries
  <2> DEFINE n == Len(log)
             honest == InclusionProof(X, i - 1)
             proof == [honest EXCEPT !.leafHash = LeafHash(i - 1, claimed)]
  <2>1. n \in Nat /\ IsList(log, n)
    BY EntriesAreAList DEF AuditorInv
  <2>2. i \in 1..n /\ n \in Nat \ {0} /\ i - 1 \in 0..(n - 1) /\ (i - 1) + 1 = i
    BY <2>1 DEF AuditorInv
  <2>3. /\ IsList(X, n)
        /\ \A k \in 1..n : X[k] = LeafHash(k - 1, log[k])
        /\ \A k \in 1..n : Honest(X[k])
    BY <2>1, LeafFacts
  <2>4. /\ proof.leafHash = LeafHash(i - 1, claimed)
        /\ proof.path = honest.path
        /\ proof.rootHash = Root(X)
    BY DEF InclusionProof
  <2> HIDE DEF X, proof
  <2>5. VerifyInclusionProof(proof)
            <=> PairedUpToRoot(X, i - 1) /\ LeafHash(i - 1, claimed) = X[(i - 1) + 1]
    BY <2>2, <2>3, <2>4, InclusionShows
  <2>6. LeafHash(i - 1, claimed) = X[(i - 1) + 1] <=> claimed = log[i]
    BY <2>2, <2>3 DEF LeafHash
  <2> QED
    BY <2>5, <2>6 DEF proof
<1> QED
  BY <1>1, AuditorInductive, PTL
===============================================================================

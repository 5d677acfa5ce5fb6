----------------------------- MODULE FoldLemmas -----------------------------
(***************************************************************************)
(* Induction over data, and what it gives for the folds that the modules   *)
(* are built from.  A fold over a finite set is a recursive function, that *)
(* is, a function somebody has to show exists: it is built here for sets   *)
(* of more and more elements.  The induction itself is that a set of       *)
(* naturals has a smallest element.                                        *)
(***************************************************************************)
EXTENDS FiniteSetsExt, FiniteSetTheorems, WellFoundedInduction, TLAPS

\* A set of naturals has a smallest element.
LEMMA SmallestElement ==
    ASSUME NEW T, T \subseteq Nat, T # {}
    PROVE  \E x \in T : \A y \in T : x <= y
<1> DEFINE R == {ss \in Nat \X Nat : ss[1] < ss[2]}
<1>1. IsWellFoundedOn(R, Nat)
  BY NatLessThanWellFounded DEF OpToRel
<1>2. PICK x \in T : \A y \in T : ~ (<<y, x>> \in R)
  BY <1>1, WFMin
<1>3. ASSUME NEW y \in T, y < x PROVE FALSE
  <2>1. <<y, x>> \in R
    BY <1>3
  <2> QED
    BY <2>1, <1>2
<1> QED
  BY <1>3

\* A set of naturals with a bound has a largest element.
LEMMA LargestElement ==
    ASSUME NEW n \in Nat, NEW S, S \subseteq 0..n, S # {}
    PROVE  Max(S) \in S /\ \A x \in S : x <= Max(S)
<1> DEFINE T == {k \in 0..n : \A x \in S : x <= k}
<1>1. n \in T /\ T \subseteq Nat
  OBVIOUS
<1>2. PICK m \in T : \A k \in T : m <= k
  BY <1>1, SmallestElement
<1>3. ASSUME m \notin S PROVE FALSE
  <2>1. \A x \in S : x \in Nat /\ x <= m - 1
    BY <1>2, <1>3
  <2>2. m - 1 \in 0..n
    <3>1. PICK x \in S : TRUE
      OBVIOUS
    <3> QED
      BY <1>2, <2>1, <3>1
  <2>3. m - 1 \in T
    BY <2>1, <2>2
  <2> QED
    BY <1>2, <2>3
<1>4. \E x \in S : \A y \in S : x >= y
  BY <1>2, <1>3
<1>5. Max(S) \in S /\ \A y \in S : Max(S) >= y
  BY <1>4 DEF Max
<1> QED
  BY <1>5

\* Induction over the naturals, for the members of a set.
LEMMA NatMembers ==
    ASSUME NEW S, 0 \in S, \A n \in Nat : n \in S => n + 1 \in S
    PROVE  Nat \subseteq S
<1> SUFFICES ASSUME Nat \ S # {} PROVE FALSE
  OBVIOUS
<1>1. PICK m \in Nat \ S : \A y \in Nat \ S : m <= y
  BY SmallestElement
<1>2. m # 0 /\ m - 1 \in Nat /\ m - 1 \in S /\ m = (m - 1) + 1
  BY <1>1
<1> QED
  BY <1>1, <1>2

\* The element a fold takes first.
Pick(s) == CHOOSE x \in s : TRUE

LEMMA Picked ==
    ASSUME NEW s, IsFiniteSet(s), s # {}
    PROVE  /\ Pick(s) \in s
           /\ IsFiniteSet(s \ {Pick(s)})
           /\ Cardinality(s \ {Pick(s)}) = Cardinality(s) - 1
           /\ Cardinality(s) \in Nat \ {0}
<1>1. Pick(s) \in s
  BY DEF Pick
<1> QED
  BY <1>1, FS_RemoveElement, FS_CardinalityType, FS_EmptySet

\* Induction along the elements in the order a fold takes them.
LEMMA PickInduction ==
    ASSUME NEW D, IsFiniteSet(D), NEW S, {} \in S,
           \A s \in SUBSET D : s # {} /\ s \ {Pick(s)} \in S => s \in S
    PROVE  SUBSET D \subseteq S
<1> DEFINE N == {n \in Nat : \A s \in SUBSET D : Cardinality(s) = n => s \in S}
<1>1. \A s \in SUBSET D : IsFiniteSet(s) /\ Cardinality(s) \in Nat
  BY FS_Subset, FS_CardinalityType
<1>2. 0 \in N
  BY <1>1, FS_EmptySet
<1>3. ASSUME NEW n \in Nat, n \in N PROVE n + 1 \in N
  <2> SUFFICES ASSUME NEW s \in SUBSET D, Cardinality(s) = n + 1 PROVE s \in S
    BY <1>3
  <2>1. s # {}
    BY <1>3, FS_EmptySet
  <2>2. Cardinality(s \ {Pick(s)}) = n
    BY <1>1, <2>1, Picked
  <2> QED
    BY <1>3, <2>1, <2>2
<1>4. Nat \subseteq N
  BY <1>2, <1>3, NatMembers
<1> QED
  BY <1>1, <1>4

-----------------------------------------------------------------------------
(* Sums.                                                                    *)

SumOver(c, D) == MapThenSumSet(LAMBDA x : c[x], D)

\* The recursive function of a sum.
IsSum(c, D, g) == g = [s \in SUBSET D |-> IF s = {} THEN 0 ELSE c[Pick(s)] + g[s \ {Pick(s)}]]

\* The same for sets of at most n elements.
UpTo(D, n) == {s \in SUBSET D : Cardinality(s) <= n}
IsSumTo(c, D, g, n) ==
    g = [s \in UpTo(D, n) |-> IF s = {} THEN 0 ELSE c[Pick(s)] + g[s \ {Pick(s)}]]

LEMMA SumExists == ASSUME NEW D, IsFiniteSet(D), NEW c PROVE \E g : IsSum(c, D, g)
<1> DEFINE N == {n \in Nat : \E g : IsSumTo(c, D, g, n)}
<1>1. \A s \in SUBSET D :
          IsFiniteSet(s) /\ Cardinality(s) \in Nat /\ Cardinality(s) <= Cardinality(D)
  BY FS_Subset, FS_CardinalityType
<1>2. 0 \in N
  <2>1. \A s \in UpTo(D, 0) : s = {}
    BY <1>1, FS_EmptySet DEF UpTo
  <2>2. IsSumTo(c, D, [s \in UpTo(D, 0) |-> 0], 0)
    BY <2>1 DEF IsSumTo
  <2> QED
    BY <2>2
<1>3. ASSUME NEW n \in Nat, n \in N PROVE n + 1 \in N
  <2>1. PICK g : IsSumTo(c, D, g, n)
    BY <1>3
  <2> DEFINE h == [s \in UpTo(D, n + 1) |->
                      IF s = {} THEN 0 ELSE c[Pick(s)] + g[s \ {Pick(s)}]]
  <2>2. ASSUME NEW s \in UpTo(D, n + 1), s # {} PROVE s \ {Pick(s)} \in UpTo(D, n)
    BY <1>1, <2>2, Picked DEF UpTo
  <2>3. ASSUME NEW s \in UpTo(D, n) PROVE s \in UpTo(D, n + 1) /\ g[s] = h[s]
    <3>1. s \in UpTo(D, n + 1)
      BY <1>1 DEF UpTo
    <3>2. g[s] = IF s = {} THEN 0 ELSE c[Pick(s)] + g[s \ {Pick(s)}]
      BY <2>1 DEF IsSumTo
    <3> QED
      BY <3>1, <3>2
  <2>4. \A s \in UpTo(D, n + 1) :
            h[s] = IF s = {} THEN 0 ELSE c[Pick(s)] + h[s \ {Pick(s)}]
    BY <2>2, <2>3
  <2>5. IsSumTo(c, D, h, n + 1)
    BY <2>4 DEF IsSumTo
  <2> QED
    BY <2>5
<1>4. Cardinality(D) \in N
  <2>1. Nat \subseteq N
    BY <1>2, <1>3, NatMembers
  <2> QED
    BY <2>1, <1>1
<1>5. UpTo(D, Cardinality(D)) = SUBSET D
  BY <1>1 DEF UpTo
<1> QED
  BY <1>4, <1>5 DEF IsSumTo, IsSum

LEMMA SumIs ==
    ASSUME NEW D, IsFiniteSet(D), NEW c
    PROVE  \E g : IsSum(c, D, g) /\ SumOver(c, D) = g[D]
<1> DEFINE G == CHOOSE g : g = [s \in SUBSET D |->
                    IF s = {} THEN 0
                    ELSE c[CHOOSE x \in s : TRUE] + g[s \ {CHOOSE x \in s : TRUE}]]
<1>1. \E g : g = [s \in SUBSET D |->
                    IF s = {} THEN 0
                    ELSE c[CHOOSE x \in s : TRUE] + g[s \ {CHOOSE x \in s : TRUE}]]
  <2>1. \E g : IsSum(c, D, g)
    BY SumExists
  <2> QED
    BY <2>1 DEF IsSum, Pick
<1>2. IsSum(c, D, G)
  BY <1>1 DEF IsSum, Pick
<1>3. SumOver(c, D) = G[D]
  BY DEF SumOver, MapThenSumSet, MapThenFoldSet
<1> QED
  BY <1>2, <1>3

\* A sum of naturals is a natural.
LEMMA SumType ==
    ASSUME NEW D, IsFiniteSet(D), NEW c, \A x \in D : c[x] \in Nat
    PROVE  SumOver(c, D) \in Nat
<1>1. PICK g : IsSum(c, D, g) /\ SumOver(c, D) = g[D]
  BY SumIs
<1> DEFINE S == {s \in SUBSET D : g[s] \in Nat}
<1>2. {} \in S
  BY <1>1 DEF IsSum
<1>3. ASSUME NEW s \in SUBSET D, s # {}, s \ {Pick(s)} \in S PROVE s \in S
  <2>1. Pick(s) \in D
    BY <1>3, Picked, FS_Subset
  <2>2. g[s] = c[Pick(s)] + g[s \ {Pick(s)}]
    BY <1>1, <1>3 DEF IsSum
  <2> QED
    BY <1>3, <2>1, <2>2
<1> HIDE DEF S
<1>4. D \in S
  BY <1>2, <1>3, PickInduction
<1> QED
  BY <1>1, <1>4 DEF S

\* A sum of numbers up to m.
LEMMA SumBounded ==
    ASSUME NEW D, IsFiniteSet(D), NEW c, NEW m \in Nat, \A x \in D : c[x] \in 0..m
    PROVE  SumOver(c, D) <= m * Cardinality(D)
<1>1. PICK g : IsSum(c, D, g) /\ SumOver(c, D) = g[D]
  BY SumIs
<1> DEFINE S == {s \in SUBSET D : g[s] \in Nat /\ g[s] <= m * Cardinality(s)}
<1>2. {} \in S
  BY <1>1, FS_EmptySet DEF IsSum
<1>3. ASSUME NEW s \in SUBSET D, s # {}, s \ {Pick(s)} \in S PROVE s \in S
  <2>1. IsFiniteSet(s) /\ Pick(s) \in s
    BY <1>3, Picked, FS_Subset
  <2> DEFINE n == Cardinality(s)
  <2>2. n \in Nat \ {0} /\ Cardinality(s \ {Pick(s)}) = n - 1
    BY <1>3, <2>1, Picked
  <2>3. g[s] = c[Pick(s)] + g[s \ {Pick(s)}]
    BY <1>1, <1>3 DEF IsSum
  <2>4. g[s \ {Pick(s)}] \in Nat /\ g[s \ {Pick(s)}] <= m * (n - 1)
    BY <1>3, <2>2
  <2>5. c[Pick(s)] \in 0..m
    BY <2>1
  <2> HIDE DEF n
  <2>6. m * n = m + m * (n - 1)
    BY <2>2
  <2>7. g[s] \in Nat /\ g[s] <= m * n
    BY <2>2, <2>3, <2>4, <2>5, <2>6
  <2> QED
    BY <2>7 DEF n
<1> HIDE DEF S
<1>4. D \in S
  BY <1>2, <1>3, PickInduction
<1> QED
  BY <1>1, <1>4 DEF S

\* The elements of P by their keys: what each key adds to a sum.
LEMMA SumOfParts ==
    ASSUME NEW D, IsFiniteSet(D), NEW P, IsFiniteSet(P), NEW key, NEW c, NEW d,
           \A x \in D : c[x] \in Nat /\ d[x] \in Nat,
           \A x \in D : d[x] <= c[x] + Cardinality({i \in P : key[i] = x})
    PROVE  SumOver(d, D) <= SumOver(c, D) + Cardinality(P)
<1>1. PICK g : IsSum(c, D, g) /\ SumOver(c, D) = g[D]
  BY SumIs
<1>2. PICK h : IsSum(d, D, h) /\ SumOver(d, D) = h[D]
  BY SumIs
<1> DEFINE Part(s) == {i \in P : key[i] \in s}
<1> DEFINE S == {s \in SUBSET D : /\ g[s] \in Nat /\ h[s] \in Nat
                                  /\ h[s] <= g[s] + Cardinality(Part(s))}
<1>3. \A s : IsFiniteSet(Part(s)) /\ Cardinality(Part(s)) \in Nat
             /\ Cardinality(Part(s)) <= Cardinality(P)
  BY FS_Subset, FS_CardinalityType
<1>4. {} \in S
  <2>1. g[{}] = 0 /\ h[{}] = 0
    BY <1>1, <1>2 DEF IsSum
  <2> QED
    BY <1>3, <2>1
<1>5. ASSUME NEW s \in SUBSET D, s # {}, s \ {Pick(s)} \in S PROVE s \in S
  <2> DEFINE p == Pick(s)
             r == s \ {p}
             One == {i \in P : key[i] = p}
  <2>1. p \in s /\ p \in D
    BY <1>5, Picked, FS_Subset
  <2>2. g[s] = c[p] + g[r] /\ h[s] = d[p] + h[r]
    BY <1>1, <1>2, <1>5 DEF IsSum
  <2>3. Part(s) = Part(r) \cup One /\ Part(r) \cap One = {}
    BY <2>1
  <2>4. IsFiniteSet(One) /\ Cardinality(One) \in Nat
    BY FS_Subset, FS_CardinalityType
  <2>5. Cardinality(Part(s)) = Cardinality(Part(r)) + Cardinality(One)
    <3>1. Cardinality(Part(r) \cup One) =
              Cardinality(Part(r)) + Cardinality(One) - Cardinality(Part(r) \cap One)
      BY <1>3, <2>4, FS_Union
    <3>2. Cardinality({}) = 0
      BY FS_EmptySet
    <3>3. Cardinality(Part(r)) \in Nat
      BY <1>3
    <3>4. /\ Cardinality(Part(s)) = Cardinality(Part(r) \cup One)
          /\ Cardinality(Part(r) \cap One) = 0
      BY <2>3, <3>2, Zenon
    <3> QED
      BY <2>4, <3>1, <3>3, <3>4
  <2>6. d[p] <= c[p] + Cardinality(One) /\ c[p] \in Nat /\ d[p] \in Nat
    BY <2>1
  <2>7. g[r] \in Nat /\ h[r] \in Nat /\ h[r] <= g[r] + Cardinality(Part(r))
    BY <1>5
  <2> HIDE DEF p, r, One, Part
  <2>8. g[s] \in Nat /\ h[s] \in Nat /\ h[s] <= g[s] + Cardinality(Part(s))
    BY <1>3, <2>2, <2>4, <2>5, <2>6, <2>7
  <2> QED
    BY <2>8
<1>6. D \in S
  <2> HIDE DEF S
  <2> QED
    BY <1>4, <1>5, PickInduction
<1>7. h[D] <= g[D] + Cardinality(Part(D)) /\ g[D] \in Nat /\ h[D] \in Nat
  BY <1>6
<1> HIDE DEF Part, S
<1> QED
  BY <1>1, <1>2, <1>3, <1>7, FS_CardinalityType

\* The elements of P by their keys, each counted under its own.
OfKey(P, key, x) == {i \in P : key[i] = x}

LEMMA SumOfCounts ==
    ASSUME NEW D, IsFiniteSet(D), NEW P, IsFiniteSet(P), NEW key, NEW c,
           \A i \in P : key[i] \in D,
           \A x \in D : c[x] = Cardinality(OfKey(P, key, x))
    PROVE  SumOver(c, D) = Cardinality(P)
<1>1. PICK g : IsSum(c, D, g) /\ SumOver(c, D) = g[D]
  BY SumIs
<1> DEFINE Part(s) == {i \in P : key[i] \in s}
<1> DEFINE S == {s \in SUBSET D : g[s] = Cardinality(Part(s))}
<1>2. \A s : IsFiniteSet(Part(s)) /\ Cardinality(Part(s)) \in Nat
  BY FS_Subset, FS_CardinalityType
<1>3. {} \in S
  <2>1. g[{}] = 0
    BY <1>1 DEF IsSum
  <2>2. Part({}) = {}
    OBVIOUS
  <2>3. Cardinality(Part({})) = 0
    BY <2>2, FS_EmptySet
  <2> QED
    BY <2>1, <2>3
<1>4. ASSUME NEW s \in SUBSET D, s # {}, s \ {Pick(s)} \in S PROVE s \in S
  <2> DEFINE p == Pick(s)
             r == s \ {p}
             One == {i \in P : key[i] = p}
  <2>1. p \in s /\ p \in D
    BY <1>4, Picked, FS_Subset
  <2>2. g[s] = c[p] + g[r]
    BY <1>1, <1>4 DEF IsSum
  <2>3. Part(s) = Part(r) \cup One /\ Part(r) \cap One = {}
    BY <2>1
  <2>4. IsFiniteSet(One) /\ Cardinality(One) \in Nat
    BY FS_Subset, FS_CardinalityType
  <2>5. Cardinality(Part(s)) = Cardinality(Part(r)) + Cardinality(One)
    <3>1. Cardinality(Part(r) \cup One) =
              Cardinality(Part(r)) + Cardinality(One) - Cardinality(Part(r) \cap One)
      BY <1>2, <2>4, FS_Union
    <3>2. Cardinality({}) = 0
      BY FS_EmptySet
    <3>3. Cardinality(Part(r)) \in Nat
      BY <1>2
    <3>4. /\ Cardinality(Part(s)) = Cardinality(Part(r) \cup One)
          /\ Cardinality(Part(r) \cap One) = 0
      BY <2>3, <3>2, Zenon
    <3> QED
      BY <2>4, <3>1, <3>3, <3>4
  <2>6. c[p] = Cardinality(One)
    BY <2>1 DEF OfKey
  <2>7. g[r] = Cardinality(Part(r)) /\ Cardinality(Part(r)) \in Nat
    BY <1>2, <1>4
  <2> HIDE DEF p, r, One, Part
  <2>8. g[s] = Cardinality(Part(s))
    BY <2>2, <2>4, <2>5, <2>6, <2>7
  <2> QED
    BY <2>8 DEF Part
<1>5. D \in S
  <2> HIDE DEF S
  <2> QED
    BY <1>3, <1>4, PickInduction
<1>6. Part(D) = P
  OBVIOUS
<1> QED
  BY <1>1, <1>5, <1>6

\* Only one function is the sum.
LEMMA SumIsOne ==
    ASSUME NEW D, IsFiniteSet(D), NEW c, NEW g, NEW h, IsSum(c, D, g), IsSum(c, D, h)
    PROVE  g[D] = h[D]
<1> DEFINE S == {s \in SUBSET D : g[s] = h[s]}
<1>1. {} \in S
  BY DEF IsSum
<1>2. ASSUME NEW s \in SUBSET D, s # {}, s \ {Pick(s)} \in S PROVE s \in S
  <2>1. g[s] = c[Pick(s)] + g[s \ {Pick(s)}]
    BY <1>2 DEF IsSum
  <2>2. h[s] = c[Pick(s)] + h[s \ {Pick(s)}]
    BY <1>2 DEF IsSum
  <2> QED
    BY <1>2, <2>1, <2>2
<1> HIDE DEF S
<1>3. D \in S
  BY <1>1, <1>2, PickInduction
<1> QED
  BY <1>3 DEF S

-----------------------------------------------------------------------------
(* Folds along a sequence, which take the last element first.               *)

\* Of the first numbers the last one is the largest.
LEMMA LastOfFirst ==
    ASSUME NEW k \in Nat \ {0}
    PROVE  1..k # {} /\ Max(1..k) = k /\ (1..k) \ {k} = 1..(k - 1)
<1>1. 1..k \subseteq 0..k /\ k \in 1..k
  OBVIOUS
<1>2. Max(1..k) \in 1..k /\ \A x \in 1..k : x <= Max(1..k)
  BY <1>1, LargestElement
<1>3. PICK m : m = Max(1..k)
  OBVIOUS
<1>4. m = k
  BY <1>1, <1>2, <1>3
<1> QED
  BY <1>1, <1>3, <1>4

\* The function of a fold whose step F maps a set into itself.
IsFold(n, S, base, F, g) ==
    /\ g \in [SUBSET (1..n) -> S]
    /\ \A s \in SUBSET (1..n) :
          g[s] = IF s = {} THEN base ELSE F[<<g[s \ {Max(s)}], Max(s)>>]

LEMMA FoldExists ==
    ASSUME NEW n \in Nat, NEW S, NEW base \in S, NEW F \in [S \X (1..n) -> S]
    PROVE  \E g : IsFold(n, S, base, F, g)
<1> DEFINE D == 1..n
           Step(g, s) == IF s = {} THEN base ELSE F[<<g[s \ {Max(s)}], Max(s)>>]
           N == {j \in Nat : \E g \in [UpTo(D, j) -> S] : \A s \in UpTo(D, j) : g[s] = Step(g, s)}
<1>1. IsFiniteSet(D) /\ Cardinality(D) \in Nat
  BY FS_Interval, FS_CardinalityType
<1>2. \A s \in SUBSET D :
          IsFiniteSet(s) /\ Cardinality(s) \in Nat /\ Cardinality(s) <= Cardinality(D)
  BY <1>1, FS_Subset, FS_CardinalityType
<1>3. \A s \in SUBSET D : s # {} => Max(s) \in s
  <2> SUFFICES ASSUME NEW s \in SUBSET D, s # {} PROVE Max(s) \in s
    OBVIOUS
  <2>1. s \subseteq 0..n
    OBVIOUS
  <2> QED
    BY <2>1, LargestElement
<1>4. ASSUME NEW j \in Nat, NEW s \in UpTo(D, j + 1), s # {}
      PROVE  s \ {Max(s)} \in UpTo(D, j) /\ Max(s) \in 1..n
  <2>1. s \in SUBSET D /\ Cardinality(s) <= j + 1 /\ Max(s) \in s
    BY <1>3, <1>4 DEF UpTo
  <2>2. Cardinality(s \ {Max(s)}) = Cardinality(s) - 1
    BY <1>2, <2>1, FS_RemoveElement
  <2>3. s \ {Max(s)} \in SUBSET D /\ Max(s) \in 1..n
    BY <2>1
  <2>4. Cardinality(s \ {Max(s)}) <= j
    <3>1. PICK c \in Nat : c = Cardinality(s)
      BY <1>2, <2>1
    <3> QED
      BY <2>1, <2>2, <3>1
  <2> QED
    BY <2>3, <2>4 DEF UpTo
<1>5. 0 \in N
  <2>1. \A s \in UpTo(D, 0) : s = {}
    BY <1>2, FS_EmptySet DEF UpTo
  <2>2. [s \in UpTo(D, 0) |-> base] \in [UpTo(D, 0) -> S]
    OBVIOUS
  <2> QED
    BY <2>1, <2>2
<1>6. ASSUME NEW j \in Nat, j \in N PROVE j + 1 \in N
  <2>1. PICK g \in [UpTo(D, j) -> S] : \A s \in UpTo(D, j) : g[s] = Step(g, s)
    BY <1>6
  <2> DEFINE h == [s \in UpTo(D, j + 1) |-> Step(g, s)]
  <2>2. h \in [UpTo(D, j + 1) -> S]
    <3>1. ASSUME NEW s \in UpTo(D, j + 1) PROVE Step(g, s) \in S
      <4>1. CASE s = {}
        BY <4>1
      <4>2. CASE s # {}
        <5>1. g[s \ {Max(s)}] \in S /\ Max(s) \in 1..n
          BY <1>4, <2>1, <4>2
        <5> QED
          BY <4>2, <5>1
      <4> QED
        BY <4>1, <4>2
    <3> QED
      BY <3>1
  <2>3. UpTo(D, j) \subseteq UpTo(D, j + 1)
    BY <1>2 DEF UpTo
  <2>4. \A s \in UpTo(D, j) : h[s] = g[s]
    BY <2>1, <2>3
  <2>5. \A s \in UpTo(D, j + 1) : h[s] = Step(h, s)
    <3> SUFFICES ASSUME NEW s \in UpTo(D, j + 1) PROVE h[s] = Step(h, s)
      OBVIOUS
    <3>1. CASE s = {}
      BY <3>1
    <3>2. CASE s # {}
      <4>1. h[s \ {Max(s)}] = g[s \ {Max(s)}]
        BY <1>4, <2>4, <3>2
      <4> QED
        BY <3>2, <4>1
    <3> QED
      BY <3>1, <3>2
  <2> HIDE DEF h, Step
  <2>6. \E f \in [UpTo(D, j + 1) -> S] : \A s \in UpTo(D, j + 1) : f[s] = Step(f, s)
    BY <2>2, <2>5
  <2> QED
    BY <2>6
<1>7. PICK g \in [UpTo(D, Cardinality(D)) -> S] :
          \A s \in UpTo(D, Cardinality(D)) : g[s] = Step(g, s)
  <2>1. Nat \subseteq N
    BY <1>5, <1>6, NatMembers
  <2> QED
    BY <1>1, <2>1
<1>8. UpTo(D, Cardinality(D)) = SUBSET D
  BY <1>2 DEF UpTo
<1>9. IsFold(n, S, base, F, g)
  BY <1>7, <1>8 DEF IsFold
<1> QED
  BY <1>9

-----------------------------------------------------------------------------
(* The elements of a set in the order of a key.                             *)

\* o lists S once each by the key, elements of the same key in any order.
IsOrder(o, S, key, desc) ==
    /\ o \in [1..Cardinality(S) -> S]
    /\ \A k, m \in 1..Cardinality(S) : k # m => o[k] # o[m]
    /\ \A k \in 1..(Cardinality(S) - 1) :
          IF desc THEN key[o[k]] >= key[o[k + 1]] ELSE key[o[k]] <= key[o[k + 1]]

\* The elements that come before i whatever the order, and is no other one equal to i?
Ahead(S, key, desc, i) == {j \in S : IF desc THEN key[j] > key[i] ELSE key[j] < key[i]}
Untied(S, key, i) == \A j \in S : j # i => key[j] # key[i]

LEMMA FirstNumbers == ASSUME NEW n \in Nat PROVE IsFiniteSet(1..n) /\ Cardinality(1..n) = n
<1>1. Cardinality(1..n) = IF 1 > n THEN 0 ELSE n - 1 + 1
  BY FS_Interval
<1>2. IsFiniteSet(1..n)
  BY FS_Interval
<1> QED
  BY <1>1, <1>2

\* Later in the order, later by the key.
LEMMA OrderGrows ==
    ASSUME NEW S, IsFiniteSet(S), NEW key \in [S -> Int], NEW desc \in BOOLEAN, NEW o,
           IsOrder(o, S, key, desc), NEW k \in 1..Cardinality(S), NEW m \in 1..Cardinality(S), k <= m
    PROVE  IF desc THEN key[o[k]] >= key[o[m]] ELSE key[o[k]] <= key[o[m]]
<1> DEFINE Fits(l) == IF desc THEN key[o[k]] >= key[o[l]] ELSE key[o[k]] <= key[o[l]]
           T == {l \in k..m : ~Fits(l)}
<1>1. PICK n \in Nat : n = Cardinality(S)
  BY FS_CardinalityType
<1>2. \A l \in 1..n : o[l] \in S /\ key[o[l]] \in Int
  BY <1>1 DEF IsOrder
<1>3. T = {}
  <2> SUFFICES ASSUME T # {} PROVE FALSE
    OBVIOUS
  <2>1. T \subseteq Nat
    OBVIOUS
  <2>2. PICK l \in T : \A x \in T : l <= x
    BY <2>1, SmallestElement
  <2>3. l # k
    BY <1>1, <1>2, <2>2
  <2>4. l - 1 \in k..m /\ l - 1 \in 1..(n - 1) /\ l \in 1..n
    BY <1>1, <2>2, <2>3
  <2>5. Fits(l - 1)
    BY <2>2, <2>4
  <2>6. IF desc THEN key[o[l - 1]] >= key[o[(l - 1) + 1]] ELSE key[o[l - 1]] <= key[o[(l - 1) + 1]]
    BY <1>1, <2>4 DEF IsOrder
  <2>7. (l - 1) + 1 = l
    BY <2>4
  <2>8. Fits(l)
    BY <1>1, <1>2, <2>4, <2>5, <2>6, <2>7
  <2> QED
    BY <2>2, <2>8
<1> QED
  BY <1>1, <1>3

\* An order leaves nothing out.
LEMMA OrderComplete ==
    ASSUME NEW S, IsFiniteSet(S), NEW key, NEW desc, NEW o, IsOrder(o, S, key, desc), NEW i \in S
    PROVE  \E m \in 1..Cardinality(S) : o[m] = i
<1>1. PICK n \in Nat : n = Cardinality(S)
  BY FS_CardinalityType
<1>2. o \in Injection(1..n, S)
  BY <1>1 DEF IsOrder, Injection, IsInjective
<1>3. Cardinality(1..n) = Cardinality(S)
  BY <1>1, FirstNumbers
<1>4. o \in Surjection(1..n, S)
  BY <1>2, <1>3, FS_Injection
<1> QED
  BY <1>1, <1>4 DEF Surjection

\* The place of an element that no other one equals is after those ahead of it.
LEMMA OrderPlace ==
    ASSUME NEW S, IsFiniteSet(S), NEW key \in [S -> Int], NEW desc \in BOOLEAN, NEW o,
           IsOrder(o, S, key, desc), NEW m \in 1..Cardinality(S), Untied(S, key, o[m])
    PROVE  Cardinality(Ahead(S, key, desc, o[m])) = m - 1
<1> DEFINE A == Ahead(S, key, desc, o[m])
           f == [l \in 1..(m - 1) |-> o[l]]
<1>1. PICK n \in Nat : n = Cardinality(S)
  BY FS_CardinalityType
<1>2. \A l \in 1..n : o[l] \in S /\ key[o[l]] \in Int
  BY <1>1 DEF IsOrder
<1>3. m - 1 \in Nat /\ 1..(m - 1) \subseteq 1..n
  BY <1>1
<1>4. ASSUME NEW l \in 1..(m - 1) PROVE o[l] \in A
  <2>1. l \in 1..n /\ l <= m /\ l # m /\ m \in 1..n
    BY <1>1, <1>3
  <2>2. IF desc THEN key[o[l]] >= key[o[m]] ELSE key[o[l]] <= key[o[m]]
    BY <1>1, <2>1, OrderGrows
  <2>3. o[l] # o[m] /\ key[o[l]] # key[o[m]]
    BY <1>1, <1>2, <2>1 DEF IsOrder, Untied
  <2> QED
    BY <1>2, <2>1, <2>2, <2>3 DEF Ahead
<1>5. ASSUME NEW i \in A PROVE \E l \in 1..(m - 1) : o[l] = i
  <2>1. i \in S
    BY DEF Ahead
  <2>2. PICK l \in 1..n : o[l] = i
    BY <1>1, <2>1, OrderComplete
  <2>3. ASSUME m <= l PROVE FALSE
    <3>1. IF desc THEN key[o[m]] >= key[o[l]] ELSE key[o[m]] <= key[o[l]]
      BY <1>1, <2>3, OrderGrows
    <3>2. m \in 1..n
      BY <1>1
    <3>3. key[o[m]] \in Int /\ key[o[l]] \in Int
      BY <1>2, <3>2
    <3>4. IF desc THEN key[o[l]] > key[o[m]] ELSE key[o[l]] < key[o[m]]
      BY <2>2 DEF Ahead
    <3> QED
      BY <3>1, <3>3, <3>4
  <2> QED
    BY <1>1, <2>2, <2>3
<1>6. \A k, l \in 1..(m - 1) : k # l => o[k] # o[l]
  BY <1>1, <1>3 DEF IsOrder
<1> HIDE DEF A
<1>7. f \in Bijection(1..(m - 1), A)
  BY <1>4, <1>5, <1>6 DEF Bijection, Injection, Surjection, IsInjective
<1>8. ExistsBijection(1..(m - 1), A)
  BY <1>7 DEF ExistsBijection
<1>9. Cardinality(A) = Cardinality(1..(m - 1))
  BY <1>3, <1>8, FS_Bijection, FirstNumbers
<1> QED
  BY <1>3, <1>9, FirstNumbers DEF A

\* Without equal elements there is one order only.
LEMMA OrderUnique ==
    ASSUME NEW S, IsFiniteSet(S), NEW key \in [S -> Int], NEW desc \in BOOLEAN,
           \A i \in S : Untied(S, key, i), NEW o, IsOrder(o, S, key, desc),
           NEW u, IsOrder(u, S, key, desc)
    PROVE  o = u
<1>1. PICK n \in Nat : n = Cardinality(S)
  BY FS_CardinalityType
<1>2. o \in [1..n -> S] /\ u \in [1..n -> S]
  BY <1>1 DEF IsOrder
<1>3. ASSUME NEW m \in 1..n PROVE o[m] = u[m]
  <2>1. PICK l \in 1..n : u[l] = o[m]
    BY <1>1, <1>2, OrderComplete
  <2>2. Cardinality(Ahead(S, key, desc, o[m])) = m - 1
    <3>1. m \in 1..Cardinality(S) /\ Untied(S, key, o[m])
      BY <1>1, <1>2
    <3> QED
      BY <3>1, OrderPlace
  <2>3. Cardinality(Ahead(S, key, desc, u[l])) = l - 1
    <3>1. l \in 1..Cardinality(S) /\ Untied(S, key, u[l])
      BY <1>1, <1>2
    <3> QED
      BY <3>1, OrderPlace
  <2>4. l = m
    BY <2>1, <2>2, <2>3
  <2> QED
    BY <2>1, <2>4
<1> QED
  BY <1>2, <1>3

\* Without equal elements there is an order.
LEMMA OrderExists ==
    ASSUME NEW S, IsFiniteSet(S), NEW key \in [S -> Int], NEW desc \in BOOLEAN,
           \A i \in S : Untied(S, key, i)
    PROVE  \E o : IsOrder(o, S, key, desc)
<1> DEFINE A(i) == Ahead(S, key, desc, i)
           First(i, j) == IF desc THEN key[i] > key[j] ELSE key[i] < key[j]
           place == [i \in S |-> Cardinality(A(i)) + 1]
<1>1. PICK n \in Nat : n = Cardinality(S)
  BY FS_CardinalityType
<1>2. ASSUME NEW i \in S
      PROVE  /\ IsFiniteSet(A(i)) /\ Cardinality(A(i)) \in Nat /\ Cardinality(A(i)) < n
             /\ A(i) \subseteq S
  <2>1. A(i) \subseteq S /\ i \notin A(i)
    BY DEF Ahead
  <2> HIDE DEF A
  <2>2. /\ IsFiniteSet(A(i)) /\ Cardinality(A(i)) <= Cardinality(S)
        /\ (Cardinality(S) = Cardinality(A(i)) => S = A(i))
    BY <2>1, FS_Subset
  <2>3. Cardinality(A(i)) \in Nat
    BY <2>2, FS_CardinalityType
  <2>4. S # A(i)
    BY <2>1
  <2> QED
    BY <1>1, <2>1, <2>2, <2>3, <2>4
<1>3. ASSUME NEW i \in S, NEW j \in S, First(i, j) PROVE place[i] < place[j]
  <2>1. A(i) \subseteq A(j) /\ i \in A(j) /\ i \notin A(i)
    BY <1>3 DEF Ahead
  <2>2. IsFiniteSet(A(i)) /\ IsFiniteSet(A(j)) /\ Cardinality(A(i)) \in Nat /\ Cardinality(A(j)) \in Nat
    BY <1>2
  <2> HIDE DEF A
  <2>3. /\ Cardinality(A(i)) <= Cardinality(A(j))
        /\ (Cardinality(A(j)) = Cardinality(A(i)) => A(j) = A(i))
    BY <2>1, <2>2, FS_Subset
  <2>4. Cardinality(A(i)) < Cardinality(A(j))
    BY <2>1, <2>2, <2>3
  <2> QED
    BY <2>2, <2>4
<1>4. ASSUME NEW i \in S, NEW j \in S, i # j PROVE First(i, j) \/ First(j, i)
  BY <1>4 DEF Untied
<1>5. place \in [S -> 1..n]
  <2> HIDE DEF A
  <2> QED
    BY <1>2
<1> HIDE DEF place, First
<1>6. ASSUME NEW i \in S, NEW j \in S, i # j PROVE place[i] # place[j]
  <2>1. place[i] \in 1..n /\ place[j] \in 1..n
    BY <1>5
  <2>2. place[i] < place[j] \/ place[j] < place[i]
    BY <1>3, <1>4, <1>6
  <2> QED
    BY <2>1, <2>2
<1>7. place \in Surjection(S, 1..n)
  <2>1. place \in Injection(S, 1..n)
    BY <1>5, <1>6 DEF Injection, IsInjective
  <2>2. IsFiniteSet(1..n) /\ Cardinality(1..n) = Cardinality(S)
    BY <1>1, FirstNumbers
  <2> QED
    BY <2>1, <2>2, FS_Injection
<1> DEFINE o == [k \in 1..n |-> CHOOSE i \in S : place[i] = k]
<1>8. ASSUME NEW k \in 1..n PROVE o[k] \in S /\ place[o[k]] = k
  <2>1. \E i \in S : place[i] = k
    BY <1>7 DEF Surjection
  <2> QED
    BY <2>1
<1>9. o \in [1..n -> S]
  BY <1>8
<1> HIDE DEF o
<1>10. \A k, m \in 1..n : k # m => o[k] # o[m]
  BY <1>8
<1>11. ASSUME NEW k \in 1..(n - 1)
       PROVE  IF desc THEN key[o[k]] >= key[o[k + 1]] ELSE key[o[k]] <= key[o[k + 1]]
  <2>1. k \in 1..n /\ k + 1 \in 1..n /\ k # k + 1
    OBVIOUS
  <2>2. o[k] \in S /\ o[k + 1] \in S /\ o[k] # o[k + 1]
    BY <1>8, <1>10, <2>1
  <2>3. ~First(o[k + 1], o[k])
    <3>1. place[o[k]] = k /\ place[o[k + 1]] = k + 1
      BY <1>8, <2>1
    <3>2. First(o[k + 1], o[k]) => place[o[k + 1]] < place[o[k]]
      BY <1>3, <2>2
    <3> QED
      BY <3>1, <3>2
  <2>4. First(o[k], o[k + 1])
    BY <1>4, <2>2, <2>3
  <2> QED
    BY <2>2, <2>4 DEF First
<1> QED
  BY <1>1, <1>9, <1>10, <1>11 DEF IsOrder

\* Intervals with the same numbers end at the same one.
LEMMA SameInterval == ASSUME NEW n \in Nat, NEW m \in Nat, 1..n = 1..m PROVE n = m
  BY FirstNumbers
=============================================================================

----------------------------- MODULE TopnProofs -----------------------------
(***************************************************************************)
(* What is proved of the rankings: the heap sorts, the counters count each *)
(* item once, and the stored ranking is that of the stored counters, for   *)
(* any number of items and keys, and any rounds that failed behind the     *)
(* sort.                                                                   *)
(***************************************************************************)
EXTENDS Topn, FoldLemmas

\* The items of a key up to a position.
ItemsTo(p, k) == {i \in Items : Pos[i] <= p /\ Key[i] = k}
CountTo(p, k) == Cardinality(ItemsTo(p, k))
CountsTo(p) == [k \in Keys |-> CountTo(p, k)]

Later(p, q) == IF p <= q THEN q ELSE p

\* The keys that keep k out of a ranking h kept beside the counters c: they are as high as k
\* once the cursor has reached r, and they are in h, or are going to be updated on the way.
Above(h, c, r, k) ==
    {j \in Keys : (j \in DOMAIN h \/ c[j] < CountTo(r, j)) /\ c[k] <= CountTo(r, j)}

\* A ranking h of the counters c that may run ahead of them, up to the position r: the
\* rounds that sorted it were rolled back.
Follows(h, c, r) ==
    /\ DOMAIN h \subseteq Keys /\ Cardinality(DOMAIN h) <= N
    /\ \A k \in DOMAIN h : h[k] \in Nat /\ c[k] <= h[k] /\ h[k] <= CountTo(r, k)
    /\ \A k \in Keys \ DOMAIN h : c[k] > 0 => N <= Cardinality(Above(h, c, r, k))

PositionsOK ==
    /\ {topnPos, sortedTo} \subseteq Int /\ topnPos >= -1
    /\ {currentPos, minPos, maxPos} \subseteq Nat

CursorsAgree == currentPos = LoadedPos

RangeOK == phase \in {"group", "commit"} => minPos = currentPos /\ minPos <= maxPos

Counted == counter = CountsTo(topnPos)

UpdatesOK == phase = "commit" => updates = [k \in Grouped |-> CountTo(maxPos, k)]

\* The ranking in memory and the stored one.
RankingsFollow ==
    /\ Follows(heap, counter, Later(sortedTo, topnPos))
    /\ Follows(heapRow, counter, Later(sortedTo, topnPos))

IInv == PositionsOK /\ CursorsAgree /\ RangeOK /\ Counted /\ UpdatesOK /\ RankingsFollow

-----------------------------------------------------------------------------
(* The sort.                                                                *)

LEMMA MinOfTwo == ASSUME NEW a \in Int, NEW b \in Int PROVE Min({a, b}) = IF a <= b THEN a ELSE b
<1> DEFINE m == IF a <= b THEN a ELSE b
<1>1. m \in {a, b} /\ \A y \in {a, b} : m <= y
  OBVIOUS
<1>2. \E x \in {a, b} : \A y \in {a, b} : x <= y
  BY <1>1
<1>3. Min({a, b}) \in {a, b} /\ \A y \in {a, b} : Min({a, b}) <= y
  BY <1>2 DEF Min
<1> QED
  BY <1>3

LEMMA MaxOfTwo == ASSUME NEW a \in Int, NEW b \in Int PROVE Max({a, b}) = Later(a, b)
<1> DEFINE m == IF a <= b THEN b ELSE a
<1>1. m \in {a, b} /\ \A y \in {a, b} : m >= y
  OBVIOUS
<1>2. \E x \in {a, b} : \A y \in {a, b} : x >= y
  BY <1>1
<1>3. Max({a, b}) \in {a, b} /\ \A y \in {a, b} : Max({a, b}) >= y
  BY <1>2 DEF Max
<1> QED
  BY <1>3 DEF Later

\* The recursive function of the sort.
Pushed(all, n, K, g) == UNION {UNION {Push(h, k, all[k], n) : h \in g[K \ {k}]} : k \in K}
IsSort(all, n, g) ==
    g = [K \in SUBSET DOMAIN all |-> IF K = {} THEN {NoKeys} ELSE Pushed(all, n, K, g)]
IsSortTo(all, n, g, m) ==
    g = [K \in UpTo(DOMAIN all, m) |-> IF K = {} THEN {NoKeys} ELSE Pushed(all, n, K, g)]

LEMMA PushedFrom ==
    ASSUME NEW all, NEW n, NEW K, NEW g, NEW h, \A k \in K : g[K \ {k}] = h[K \ {k}]
    PROVE  Pushed(all, n, K, g) = Pushed(all, n, K, h)
<1> DEFINE With1(f, k) == UNION {Push(x, k, all[k], n) : x \in f[K \ {k}]}
<1>1. \A k \in K : With1(g, k) = With1(h, k)
  OBVIOUS
<1>2. Pushed(all, n, K, g) = UNION {With1(g, k) : k \in K}
  BY DEF Pushed
<1>3. Pushed(all, n, K, h) = UNION {With1(h, k) : k \in K}
  BY DEF Pushed
<1> HIDE DEF With1
<1>4. {With1(g, k) : k \in K} = {With1(h, k) : k \in K}
  BY <1>1
<1> QED
  BY <1>2, <1>3, <1>4

LEMMA SortExists ==
    ASSUME NEW all, NEW n, IsFiniteSet(DOMAIN all) PROVE \E g : IsSort(all, n, g)
<1> DEFINE D == DOMAIN all
           M == {m \in Nat : \E g : IsSortTo(all, n, g, m)}
<1>1. \A K \in SUBSET D :
          IsFiniteSet(K) /\ Cardinality(K) \in Nat /\ Cardinality(K) <= Cardinality(D)
  BY FS_Subset, FS_CardinalityType
<1>2. 0 \in M
  <2>1. \A K \in UpTo(D, 0) : K = {}
    BY <1>1, FS_EmptySet DEF UpTo
  <2>2. IsSortTo(all, n, [K \in UpTo(D, 0) |-> {NoKeys}], 0)
    BY <2>1 DEF IsSortTo
  <2> QED
    BY <2>2
<1>3. ASSUME NEW m \in Nat, m \in M PROVE m + 1 \in M
  <2>1. PICK g : IsSortTo(all, n, g, m)
    BY <1>3
  <2> DEFINE h == [K \in UpTo(D, m + 1) |-> IF K = {} THEN {NoKeys} ELSE Pushed(all, n, K, g)]
  <2>2. ASSUME NEW K \in UpTo(D, m + 1), NEW k \in K PROVE K \ {k} \in UpTo(D, m)
    <3>1. IsFiniteSet(K) /\ Cardinality(K) \in Nat /\ Cardinality(K) <= m + 1
      BY <1>1 DEF UpTo
    <3>2. Cardinality(K \ {k}) = Cardinality(K) - 1
      BY <3>1, FS_RemoveElement
    <3> QED
      BY <3>1, <3>2 DEF UpTo
  <2>3. ASSUME NEW K \in UpTo(D, m) PROVE K \in UpTo(D, m + 1) /\ g[K] = h[K]
    <3>1. K \in UpTo(D, m + 1)
      BY <1>1 DEF UpTo
    <3>2. g[K] = IF K = {} THEN {NoKeys} ELSE Pushed(all, n, K, g)
      BY <2>1 DEF IsSortTo
    <3> QED
      BY <3>1, <3>2
  <2>4. ASSUME NEW K \in UpTo(D, m + 1) PROVE Pushed(all, n, K, g) = Pushed(all, n, K, h)
    <3>1. \A k \in K : g[K \ {k}] = h[K \ {k}]
      BY <2>2, <2>3
    <3> HIDE DEF h
    <3> QED
      BY <3>1, PushedFrom
  <2>5. \A K \in UpTo(D, m + 1) : h[K] = IF K = {} THEN {NoKeys} ELSE Pushed(all, n, K, h)
    BY <2>4
  <2>6. IsSortTo(all, n, h, m + 1)
    BY <2>5 DEF IsSortTo
  <2> QED
    BY <2>6
<1>4. Cardinality(D) \in M
  <2>1. Nat \subseteq M
    BY <1>2, <1>3, NatMembers
  <2> QED
    BY <2>1, <1>1
<1>5. UpTo(D, Cardinality(D)) = SUBSET D
  BY <1>1 DEF UpTo
<1> QED
  BY <1>4, <1>5 DEF IsSortTo, IsSort

LEMMA SortIs ==
    ASSUME NEW all, NEW n, IsFiniteSet(DOMAIN all)
    PROVE  \E g : IsSort(all, n, g) /\ SortedFrom(all, n) = g[DOMAIN all]
<1> DEFINE G == CHOOSE g : g = [K \in SUBSET DOMAIN all |->
                    IF K = {} THEN {NoKeys}
                    ELSE UNION {UNION {Push(h, k, all[k], n) : h \in g[K \ {k}]} : k \in K}]
<1>1. \E g : IsSort(all, n, g)
  BY SortExists
<1>2. \E g : g = [K \in SUBSET DOMAIN all |->
                    IF K = {} THEN {NoKeys}
                    ELSE UNION {UNION {Push(h, k, all[k], n) : h \in g[K \ {k}]} : k \in K}]
  BY <1>1 DEF IsSort, Pushed
<1>3. IsSort(all, n, G)
  BY <1>2 DEF IsSort, Pushed
<1>4. SortedFrom(all, n) = G[DOMAIN all]
  BY DEF SortedFrom
<1> QED
  BY <1>3, <1>4

\* A ranking of the keys K.
IsTopOf(top, all, K, n) ==
    /\ DOMAIN top \subseteq K
    /\ \A k \in DOMAIN top : top[k] = all[k]
    /\ Cardinality(DOMAIN top) = IF n <= Cardinality(K) THEN n ELSE Cardinality(K)
    /\ \A k \in DOMAIN top, j \in K \ DOMAIN top : all[j] <= all[k]

\* A key pushed onto a ranking of the others gives a ranking.
LEMMA PushKeepsTop ==
    ASSUME NEW all, NEW n \in Nat \ {0}, NEW K, IsFiniteSet(K), \A j \in K : all[j] \in Nat,
           NEW k \in K, NEW h, IsTopOf(h, all, K \ {k}, n), NEW top \in Push(h, k, all[k], n)
    PROVE  IsTopOf(top, all, K, n)
<1> DEFINE put(J) == [j \in J \cup {k} |-> IF j = k THEN all[k] ELSE h[j]]
<1>1. /\ IsFiniteSet(K \ {k}) /\ Cardinality(K \ {k}) = Cardinality(K) - 1
      /\ Cardinality(K) \in Nat
  BY FS_RemoveElement, FS_CardinalityType
<1>2. /\ DOMAIN h \subseteq K \ {k} /\ \A j \in DOMAIN h : h[j] = all[j]
      /\ \A j \in DOMAIN h, i \in (K \ {k}) \ DOMAIN h : all[i] <= all[j]
  BY DEF IsTopOf
<1>3. IsFiniteSet(DOMAIN h) /\ Cardinality(DOMAIN h) \in Nat
  BY <1>1, <1>2, FS_Subset, FS_CardinalityType
<1>4. Cardinality(DOMAIN h) = IF n <= Cardinality(K) - 1 THEN n ELSE Cardinality(K) - 1
  BY <1>1 DEF IsTopOf
<1>5. CASE Cardinality(DOMAIN h) < n
  <2>1. top = put(DOMAIN h)
    BY <1>5 DEF Push
  <2>2. Cardinality(DOMAIN h) = Cardinality(K \ {k})
    BY <1>1, <1>4, <1>5
  <2>3. DOMAIN h = K \ {k}
    BY <1>1, <1>2, <2>2, FS_Subset
  <2>4. DOMAIN top = K
    BY <2>1, <2>3
  <2>5. \A j \in DOMAIN top : top[j] = all[j]
    BY <1>2, <2>1
  <2>6. Cardinality(K) <= n
    BY <1>1, <1>4, <1>5
  <2> QED
    BY <1>1, <2>4, <2>5, <2>6 DEF IsTopOf
<1>6. CASE ~ (Cardinality(DOMAIN h) < n)
  <2>1. Cardinality(DOMAIN h) = n /\ n <= Cardinality(K)
    BY <1>1, <1>3, <1>4, <1>6
  <2>2. PICK r \in Roots(h) : top = IF h[r] < all[k] THEN put(DOMAIN h \ {r}) ELSE h
    BY <1>6 DEF Push
  <2>3. r \in DOMAIN h /\ r \in K /\ r # k /\ \A j \in DOMAIN h : h[r] <= h[j]
    BY <1>2, <2>2 DEF Roots
  <2>4. CASE h[r] < all[k]
    <3>1. top = put(DOMAIN h \ {r})
      BY <2>2, <2>4
    <3>2. DOMAIN top = (DOMAIN h \ {r}) \cup {k}
      BY <3>1
    <3>3. Cardinality(DOMAIN h \ {r}) = n - 1 /\ IsFiniteSet(DOMAIN h \ {r})
      BY <1>3, <2>1, <2>3, FS_RemoveElement
    <3>4. k \notin DOMAIN h \ {r}
      BY <1>2
    <3>5. Cardinality((DOMAIN h \ {r}) \cup {k}) = n
      <4>1. Cardinality((DOMAIN h \ {r}) \cup {k}) = Cardinality(DOMAIN h \ {r}) + 1
        BY <3>3, <3>4, FS_AddElement, Zenon
      <4> QED
        BY <3>3, <4>1
    <3>6. Cardinality(DOMAIN top) = n
      BY <3>2, <3>5
    <3>7. DOMAIN top \subseteq K /\ \A j \in DOMAIN top : top[j] = all[j]
      BY <1>2, <3>1, <3>2
    <3>8. ASSUME NEW j \in DOMAIN top, NEW i \in K \ DOMAIN top PROVE all[i] <= all[j]
      <4>1. all[r] <= all[j]
        BY <1>2, <2>3, <2>4, <3>2
      <4>2. all[i] <= all[r]
        BY <1>2, <2>3, <3>2
      <4>3. {all[i], all[j], all[r]} \subseteq Nat
        BY <2>3, <3>7
      <4> QED
        BY <4>1, <4>2, <4>3
    <3> QED
      BY <2>1, <3>6, <3>7, <3>8 DEF IsTopOf
  <2>5. CASE ~ (h[r] < all[k])
    <3>1. top = h
      BY <2>2, <2>5
    <3>2. ASSUME NEW j \in DOMAIN h, NEW i \in K \ DOMAIN h PROVE all[i] <= all[j]
      <4>1. CASE i = k
        <5>1. h[r] <= h[j] /\ h[r] = all[r] /\ h[j] = all[j]
          BY <1>2, <2>3
        <5>2. {all[k], all[j], all[r]} \subseteq Nat
          BY <1>2, <2>3
        <5> QED
          BY <4>1, <5>1, <5>2, <2>5
      <4>2. CASE i # k
        BY <1>2, <4>2
      <4> QED
        BY <4>1, <4>2
    <3> QED
      BY <1>2, <2>1, <3>1, <3>2 DEF IsTopOf
  <2> QED
    BY <2>4, <2>5
<1> QED
  BY <1>5, <1>6

\* Pushing the keys in any order gives a ranking of the highest: the heap sorts.
LEMMA SortedIsTop ==
    ASSUME NEW all, NEW n \in Nat \ {0}, IsFiniteSet(DOMAIN all),
           \A k \in DOMAIN all : all[k] \in Nat, NEW top \in SortedFrom(all, n)
    PROVE  IsTop(top, all, n)
<1>1. PICK g : IsSort(all, n, g) /\ SortedFrom(all, n) = g[DOMAIN all]
  BY SortIs
<1> DEFINE D == DOMAIN all
           M == {m \in Nat : \A K \in SUBSET D : Cardinality(K) = m =>
                                 \A h \in g[K] : IsTopOf(h, all, K, n)}
<1>2. \A K \in SUBSET D : IsFiniteSet(K) /\ Cardinality(K) \in Nat
  BY FS_Subset, FS_CardinalityType
<1>3. \A K \in SUBSET D : g[K] = IF K = {} THEN {NoKeys} ELSE Pushed(all, n, K, g)
  BY <1>1 DEF IsSort
<1>4. 0 \in M
  <2> SUFFICES ASSUME NEW K \in SUBSET D, Cardinality(K) = 0, NEW h \in g[K]
               PROVE  IsTopOf(h, all, K, n)
    OBVIOUS
  <2>1. K = {}
    BY <1>2, FS_EmptySet
  <2>2. h = NoKeys /\ DOMAIN h = {}
    BY <1>3, <2>1 DEF NoKeys
  <2> QED
    BY <2>1, <2>2, FS_EmptySet DEF IsTopOf
<1>5. ASSUME NEW m \in Nat, m \in M PROVE m + 1 \in M
  <2> SUFFICES ASSUME NEW K \in SUBSET D, Cardinality(K) = m + 1, NEW h \in g[K]
               PROVE  IsTopOf(h, all, K, n)
    OBVIOUS
  <2>1. K # {} /\ IsFiniteSet(K)
    BY <1>2, FS_EmptySet
  <2>2. h \in Pushed(all, n, K, g)
    BY <1>3, <2>1
  <2>3. PICK k \in K : \E f \in g[K \ {k}] : h \in Push(f, k, all[k], n)
    <3>1. PICK T \in {UNION {Push(f, k, all[k], n) : f \in g[K \ {k}]} : k \in K} : h \in T
      BY <2>2 DEF Pushed
    <3>2. PICK k \in K : T = UNION {Push(f, k, all[k], n) : f \in g[K \ {k}]}
      BY <3>1
    <3>3. h \in UNION {Push(f, k, all[k], n) : f \in g[K \ {k}]}
      BY <3>1, <3>2
    <3>4. PICK U \in {Push(f, k, all[k], n) : f \in g[K \ {k}]} : h \in U
      BY <3>3
    <3> QED
      BY <3>4
  <2>4. PICK f \in g[K \ {k}] : h \in Push(f, k, all[k], n)
    BY <2>3
  <2>5. Cardinality(K \ {k}) = m /\ K \ {k} \in SUBSET D
    <3>1. Cardinality(K \ {k}) = Cardinality(K) - 1
      BY <2>1, FS_RemoveElement
    <3> QED
      BY <3>1
  <2>6. IsTopOf(f, all, K \ {k}, n)
    BY <1>5, <2>4, <2>5
  <2> QED
    BY <2>1, <2>4, <2>6, PushKeepsTop
<1>6. Cardinality(D) \in M
  <2> HIDE DEF M
  <2>1. Nat \subseteq M
    BY <1>4, <1>5, NatMembers
  <2> QED
    BY <2>1, <1>2
<1>7. IsTopOf(top, all, D, n) /\ Cardinality(D) \in Nat
  BY <1>1, <1>2, <1>6
<1>8. Min({n, Cardinality(D)}) = IF n <= Cardinality(D) THEN n ELSE Cardinality(D)
  BY <1>7, MinOfTwo
<1> HIDE DEF D
<1>9. IsTop(top, all, n)
  BY <1>7, <1>8 DEF IsTopOf, IsTop, D
<1> QED
  BY <1>9

-----------------------------------------------------------------------------
(* Counting.                                                                *)

LEMMA Counts ==
    ASSUME ConstantsOK
    PROVE  /\ \A p, k : IsFiniteSet(ItemsTo(p, k)) /\ CountTo(p, k) \in Nat
           /\ \A p, q \in Int : \A k : p <= q => CountTo(p, k) <= CountTo(q, k)
<1>1. IsFiniteSet(Items) /\ \A i \in Items : Pos[i] \in Nat
  BY DEF ConstantsOK
<1>2. \A p, k : IsFiniteSet(ItemsTo(p, k)) /\ CountTo(p, k) \in Nat
  BY <1>1, FS_Subset, FS_CardinalityType DEF ItemsTo, CountTo
<1>3. ASSUME NEW p \in Int, NEW q \in Int, NEW k, p <= q PROVE CountTo(p, k) <= CountTo(q, k)
  <2>1. ItemsTo(p, k) \subseteq ItemsTo(q, k)
    BY <1>1, <1>3 DEF ItemsTo
  <2> QED
    BY <1>2, <2>1, FS_Subset DEF CountTo
<1> QED
  BY <1>2, <1>3

\* The items of a range are those that its end counts and its start does not.
LEMMA RangeCounts ==
    ASSUME ConstantsOK, NEW p \in Int, NEW m \in Int, p <= m, NEW k,
           NEW I, I = {i \in Items : p < Pos[i] /\ Pos[i] <= m /\ Key[i] = k}
    PROVE  /\ CountTo(m, k) = CountTo(p, k) + Cardinality(I)
           /\ I = {} => CountTo(m, k) = CountTo(p, k)
<1>1. IsFiniteSet(I) /\ Cardinality(I) \in Nat
  BY FS_Subset, FS_CardinalityType DEF ConstantsOK
<1>2. ItemsTo(m, k) = ItemsTo(p, k) \cup I /\ ItemsTo(p, k) \cap I = {}
  BY DEF ConstantsOK, ItemsTo
<1>3. Cardinality(ItemsTo(p, k) \cup I) =
          Cardinality(ItemsTo(p, k)) + Cardinality(I) - Cardinality(ItemsTo(p, k) \cap I)
  BY <1>1, Counts, FS_Union
<1>4. Cardinality({}) = 0
  BY FS_EmptySet
<1>5. /\ Cardinality(ItemsTo(p, k) \cap I) = 0
      /\ CountTo(m, k) = Cardinality(ItemsTo(p, k) \cup I)
  BY <1>2, <1>4, Zenon DEF CountTo
<1>6. Cardinality(ItemsTo(p, k)) \in Nat
  BY Counts DEF CountTo
<1>7. CountTo(m, k) = CountTo(p, k) + Cardinality(I)
  BY <1>1, <1>3, <1>5, <1>6 DEF CountTo
<1>8. I = {} => Cardinality(I) = 0
  BY <1>4
<1> QED
  BY <1>6, <1>7, <1>8 DEF CountTo

\* A ranking that follows the counters goes on to when the sorted rounds reach further.
LEMMA FollowsOn ==
    ASSUME ConstantsOK, NEW c, c \in [Keys -> Nat], NEW r \in Int, NEW q \in Int, r <= q,
           NEW h, Follows(h, c, r)
    PROVE  Follows(h, c, q)
<1>1. \A k : CountTo(r, k) <= CountTo(q, k) /\ CountTo(r, k) \in Nat /\ CountTo(q, k) \in Nat
  BY Counts
<1>2. \A k \in DOMAIN h : h[k] \in Nat /\ c[k] <= h[k] /\ h[k] <= CountTo(q, k)
  BY <1>1 DEF Follows
<1>3. ASSUME NEW k \in Keys \ DOMAIN h, c[k] > 0 PROVE N <= Cardinality(Above(h, c, q, k))
  <2>1. Above(h, c, r, k) \subseteq Above(h, c, q, k)
    BY <1>1 DEF Above
  <2>2. IsFiniteSet(Above(h, c, q, k))
    BY FS_Subset DEF Above, ConstantsOK
  <2>3. Cardinality(Above(h, c, r, k)) <= Cardinality(Above(h, c, q, k))
    BY <2>1, <2>2, FS_Subset
  <2>4. /\ Cardinality(Above(h, c, r, k)) \in Nat /\ Cardinality(Above(h, c, q, k)) \in Nat
        /\ N \in Nat
    BY <2>1, <2>2, FS_Subset, FS_CardinalityType DEF ConstantsOK
  <2>5. N <= Cardinality(Above(h, c, r, k))
    BY <1>3 DEF Follows
  <2> QED
    BY <2>3, <2>4, <2>5
<1> QED
  BY <1>2, <1>3 DEF Follows

\* The sort of a round, of a ranking that follows the counters up to p: the round is
\* committed (d = m) or rolled back (d = p).
LEMMA SortFollows ==
    ASSUME ConstantsOK, NEW p \in Int, NEW r \in Int, p <= r, NEW m \in Int, p <= m,
           NEW h, Follows(h, CountsTo(p), r),
           NEW up, up = [k \in {j \in Keys : CountTo(p, j) # CountTo(m, j)} |-> CountTo(m, k)],
           NEW top \in SortedFrom(Deduplicate(h, up), N), NEW d \in {p, m}
    PROVE  Follows(top, CountsTo(d), Later(r, m))
<1> DEFINE all == Deduplicate(h, up)
           q == Later(r, m)
           Out(k) == {j \in Keys : (j \in DOMAIN top \/ CountTo(d, j) < CountTo(q, j))
                                   /\ CountTo(d, k) <= CountTo(q, j)}
<1>1. /\ q \in Int /\ r <= q /\ m <= q /\ d <= q /\ d <= m /\ p <= d /\ d \in Int
      /\ N \in Nat \ {0} /\ IsFiniteSet(Keys)
  BY DEF Later, ConstantsOK
<1>2. \A j : /\ {CountTo(p, j), CountTo(r, j), CountTo(m, j), CountTo(q, j), CountTo(d, j)} \subseteq Nat
             /\ CountTo(r, j) <= CountTo(q, j) /\ CountTo(m, j) <= CountTo(q, j)
             /\ CountTo(d, j) <= CountTo(m, j) /\ CountTo(p, j) <= CountTo(d, j)
  BY <1>1, Counts
<1>3. /\ DOMAIN all = DOMAIN h \cup DOMAIN up
      /\ DOMAIN up = {j \in Keys : CountTo(p, j) # CountTo(m, j)}
      /\ \A j \in DOMAIN all : all[j] = IF j \in DOMAIN up THEN CountTo(m, j) ELSE h[j]
  BY DEF Deduplicate
<1>4. /\ DOMAIN h \subseteq Keys
      /\ \A j \in DOMAIN h : h[j] \in Nat /\ CountTo(p, j) <= h[j] /\ h[j] <= CountTo(r, j)
      /\ \A k \in Keys \ DOMAIN h :
            CountTo(p, k) > 0 => N <= Cardinality(Above(h, CountsTo(p), r, k))
  BY DEF Follows, CountsTo
<1>5. DOMAIN all \subseteq Keys /\ IsFiniteSet(DOMAIN all)
  BY <1>1, <1>3, <1>4, FS_Subset
<1>6. \A j \in Keys : j \notin DOMAIN up => CountTo(d, j) = CountTo(p, j)
  BY <1>3
<1>7. ASSUME NEW j \in DOMAIN all
      PROVE  all[j] \in Nat /\ CountTo(d, j) <= all[j] /\ all[j] <= CountTo(q, j)
  <2>1. CASE j \in DOMAIN up
    BY <1>2, <1>3, <2>1
  <2>2. CASE j \notin DOMAIN up
    <3>1. j \in DOMAIN h /\ all[j] = h[j] /\ CountTo(d, j) = CountTo(p, j)
      BY <1>3, <1>4, <1>6, <2>2
    <3> HIDE DEF q, all
    <3> QED
      BY <1>2, <1>4, <3>1
  <2> QED
    BY <2>1, <2>2
<1> HIDE DEF all, q
<1>8. top \in SortedFrom(all, N)
  BY DEF all
<1>9. IsTop(top, all, N)
  BY <1>1, <1>5, <1>7, <1>8, SortedIsTop
<1>10. /\ IsFiniteSet(DOMAIN top) /\ Cardinality(DOMAIN top) \in Nat
       /\ IsFiniteSet(DOMAIN all) /\ Cardinality(DOMAIN all) \in Nat
       /\ Cardinality(DOMAIN top) <= Cardinality(DOMAIN all)
       /\ Cardinality(DOMAIN top) = Cardinality(DOMAIN all) => DOMAIN top = DOMAIN all
  BY <1>5, <1>9, FS_Subset, FS_CardinalityType DEF IsTop
<1>11. Cardinality(DOMAIN top) =
           IF N <= Cardinality(DOMAIN all) THEN N ELSE Cardinality(DOMAIN all)
  BY <1>1, <1>9, <1>10, MinOfTwo DEF IsTop
<1>12. /\ DOMAIN top \subseteq Keys /\ Cardinality(DOMAIN top) <= N
       /\ \A k \in DOMAIN top : /\ k \in DOMAIN all /\ top[k] = all[k]
                                /\ top[k] \in Nat /\ CountTo(d, k) <= top[k]
                                /\ top[k] <= CountTo(q, k)
  BY <1>1, <1>5, <1>7, <1>9, <1>10, <1>11 DEF IsTop
<1>13. ASSUME NEW k \in Keys \ DOMAIN top, CountTo(d, k) > 0 PROVE N <= Cardinality(Out(k))
  <2>1. IsFiniteSet(Out(k)) /\ Cardinality(Out(k)) \in Nat
    BY <1>1, FS_Subset, FS_CardinalityType
  <2>2. CASE \E i \in DOMAIN all \ DOMAIN top : CountTo(d, k) <= all[i]
    <3>1. PICK i \in DOMAIN all \ DOMAIN top : CountTo(d, k) <= all[i]
      BY <2>2
    <3>2. Cardinality(DOMAIN top) = N
      BY <1>1, <1>10, <1>11, <3>1
    <3>3. ASSUME NEW j \in DOMAIN top PROVE CountTo(d, k) <= CountTo(q, j)
      <4>1. all[i] <= all[j] /\ all[j] <= CountTo(q, j)
        BY <1>9, <1>12, <3>1 DEF IsTop
      <4> QED
        BY <1>2, <1>7, <1>12, <3>1, <4>1
    <3>4. DOMAIN top \subseteq Out(k)
      BY <1>12, <3>3
    <3>5. Cardinality(DOMAIN top) <= Cardinality(Out(k))
      BY <2>1, <3>4, FS_Subset
    <3> QED
      BY <3>2, <3>5
  <2>3. CASE ~ \E i \in DOMAIN all \ DOMAIN top : CountTo(d, k) <= all[i]
    <3>1. k \notin DOMAIN all
      BY <1>7, <2>3
    <3>2. k \notin DOMAIN h /\ CountTo(d, k) = CountTo(p, k)
      BY <1>3, <1>6, <3>1
    <3>3. N <= Cardinality(Above(h, CountsTo(p), r, k))
      BY <1>4, <1>13, <3>2
    <3>4. ASSUME NEW i \in Above(h, CountsTo(p), r, k) PROVE i \in Out(k)
      <4>1. /\ i \in Keys /\ CountTo(p, k) <= CountTo(r, i)
            /\ i \in DOMAIN h \/ CountTo(p, i) < CountTo(r, i)
        BY <3>4 DEF Above, CountsTo
      <4>2. CountTo(d, k) <= CountTo(q, i)
        BY <1>2, <3>2, <4>1
      <4>3. CASE i \in DOMAIN top
        BY <4>1, <4>2, <4>3
      <4>4. CASE i \in DOMAIN all \ DOMAIN top
        <5>1. all[i] < CountTo(d, k) /\ CountTo(d, i) <= all[i] /\ all[i] \in Nat
          BY <1>2, <1>7, <2>3, <4>4
        <5>2. CountTo(d, i) < CountTo(q, i)
          BY <1>2, <4>2, <5>1
        <5> QED
          BY <4>1, <4>2, <5>2
      <4>5. CASE i \notin DOMAIN all
        <5>1. i \notin DOMAIN h /\ CountTo(d, i) = CountTo(p, i)
          BY <1>3, <1>6, <4>1, <4>5
        <5>2. CountTo(d, i) < CountTo(q, i)
          BY <1>2, <4>1, <5>1
        <5> QED
          BY <4>1, <4>2, <5>2
      <4> QED
        BY <4>3, <4>4, <4>5
    <3>5. Above(h, CountsTo(p), r, k) \subseteq Out(k)
      BY <3>4
    <3>6. /\ Cardinality(Above(h, CountsTo(p), r, k)) <= Cardinality(Out(k))
          /\ Cardinality(Above(h, CountsTo(p), r, k)) \in Nat
      BY <2>1, <3>5, FS_Subset, FS_CardinalityType
    <3> QED
      BY <1>1, <2>1, <3>3, <3>6
  <2> QED
    BY <2>2, <2>3
<1>14. \A k \in Keys : Out(k) = Above(top, CountsTo(d), q, k)
  BY DEF Above, CountsTo
<1>15. \A k \in Keys : CountsTo(d)[k] = CountTo(d, k)
  BY DEF CountsTo
<1> HIDE DEF Out
<1>16. Follows(top, CountsTo(d), q)
  BY <1>12, <1>13, <1>14, <1>15 DEF Follows
<1> QED
  BY <1>16 DEF q

-----------------------------------------------------------------------------
(* The invariant.                                                           *)

LEMMA InitInv == ASSUME ConstantsOK PROVE Init => IInv
<1> SUFFICES ASSUME Init PROVE IInv
  OBVIOUS
<1>1. \A k \in Keys : CountTo(-1, k) = 0
  <2>1. \A k : ItemsTo(-1, k) = {}
    BY DEF ItemsTo, ConstantsOK
  <2> QED
    BY <2>1, FS_EmptySet DEF CountTo
<1>2. topnPos = -1 /\ sortedTo = -1 /\ Later(sortedTo, topnPos) = -1
  BY DEF Init, Later
<1>3. counter = CountsTo(-1) /\ counter = Zero
  BY <1>1 DEF Init, Zero, CountsTo
<1>4. PICK K \in SUBSET Keys : Cardinality(K) <= N /\ heapRow = [k \in K |-> 0] /\ heap = heapRow
  BY DEF Init
<1>5. Follows(heapRow, counter, -1)
  <2>1. \A k \in DOMAIN heapRow :
            heapRow[k] \in Nat /\ counter[k] <= heapRow[k] /\ heapRow[k] <= CountTo(-1, k)
    BY <1>1, <1>3, <1>4 DEF Zero
  <2>2. \A k \in Keys : ~ (counter[k] > 0)
    BY <1>3 DEF Zero
  <2> QED
    BY <1>4, <2>1, <2>2 DEF Follows
<1>6. PositionsOK /\ CursorsAgree /\ RangeOK /\ UpdatesOK
  BY DEF Init, PositionsOK, CursorsAgree, LoadedPos, RangeOK, UpdatesOK, ConstantsOK
<1> QED
  BY <1>2, <1>3, <1>4, <1>5, <1>6 DEF IInv, Counted, RankingsFollow

\* What a round works on, once it has its range.
LEMMA RoundCounts ==
    ASSUME ConstantsOK, IInv, phase \in {"group", "commit"}
    PROVE  /\ topnPos \in Int /\ maxPos \in Int /\ topnPos < maxPos /\ maxPos \in Nat
           /\ \A k \in Keys : /\ CountTo(maxPos, k) = CountTo(topnPos, k) + Cardinality(ItemsOf(k))
                              /\ Cardinality(ItemsOf(k)) \in Nat
                              /\ ItemsOf(k) = {} <=> CountTo(topnPos, k) = CountTo(maxPos, k)
<1>1. /\ topnPos \in Int /\ maxPos \in Nat /\ minPos = currentPos /\ minPos <= maxPos
      /\ currentPos = LoadedPos /\ topnPos >= -1 /\ currentPos \in Nat
  BY DEF IInv, PositionsOK, RangeOK, CursorsAgree
<1>2. topnPos < maxPos
  BY <1>1 DEF LoadedPos, ConstantsOK
<1>3. ASSUME NEW k \in Keys
      PROVE  /\ CountTo(maxPos, k) = CountTo(topnPos, k) + Cardinality(ItemsOf(k))
             /\ Cardinality(ItemsOf(k)) \in Nat
             /\ ItemsOf(k) = {} <=> CountTo(topnPos, k) = CountTo(maxPos, k)
  <2>1. ItemsOf(k) = {i \in Items : topnPos < Pos[i] /\ Pos[i] <= maxPos /\ Key[i] = k}
    <3>1. \A i \in Items : Pos[i] \in Nat /\ FirstPos <= Pos[i]
      BY DEF ConstantsOK
    <3>2. \A i \in Items : minPos <= Pos[i] <=> topnPos < Pos[i]
      BY <1>1, <3>1 DEF LoadedPos
    <3> QED
      BY <3>2 DEF ItemsOf
  <2>2. CountTo(maxPos, k) = CountTo(topnPos, k) + Cardinality(ItemsOf(k))
    BY <1>1, <1>2, <2>1, RangeCounts
  <2>3. IsFiniteSet(ItemsOf(k))
    BY FS_Subset DEF ItemsOf, ConstantsOK
  <2>4. Cardinality(ItemsOf(k)) \in Nat /\ (Cardinality(ItemsOf(k)) = 0 <=> ItemsOf(k) = {})
    BY <2>3, FS_CardinalityType, FS_EmptySet
  <2>5. CountTo(topnPos, k) \in Nat
    BY Counts
  <2> QED
    BY <2>2, <2>4, <2>5
<1> QED
  BY <1>1, <1>2, <1>3

\* The sort of a round that is going to be committed, or rolled back.
LEMMA RoundSorts ==
    ASSUME ConstantsOK, IInv, phase = "commit", Sort, NEW d \in {topnPos, maxPos}
    PROVE  /\ Follows(heap', CountsTo(d), Later(sortedTo', d))
           /\ sortedTo' \in Int /\ sortedTo <= sortedTo'
           /\ updates = NoKeys => CountsTo(maxPos) = CountsTo(topnPos)
<1>1. /\ sortedTo \in Int /\ counter = CountsTo(topnPos) /\ topnPos \in Int
      /\ Follows(heap, CountsTo(topnPos), Later(sortedTo, topnPos))
      /\ updates = [k \in Grouped |-> CountTo(maxPos, k)]
  BY DEF IInv, PositionsOK, Counted, UpdatesOK, RankingsFollow
<1>2. /\ maxPos \in Int /\ topnPos < maxPos
      /\ \A k \in Keys : ItemsOf(k) = {} <=> CountTo(topnPos, k) = CountTo(maxPos, k)
  BY RoundCounts
<1>3. Grouped = {j \in Keys : CountTo(topnPos, j) # CountTo(maxPos, j)}
  BY <1>2 DEF Grouped
<1>4. updates = NoKeys => CountsTo(maxPos) = CountsTo(topnPos)
  <2> SUFFICES ASSUME updates = NoKeys PROVE CountsTo(maxPos) = CountsTo(topnPos)
    OBVIOUS
  <2>1. Grouped = {}
    BY <1>1 DEF NoKeys
  <2>2. \A k \in Keys : CountTo(maxPos, k) = CountTo(topnPos, k)
    BY <1>3, <2>1
  <2> QED
    BY <2>2 DEF CountsTo
<1>5. CountsTo(topnPos) \in [Keys -> Nat]
  BY Counts DEF CountsTo
<1>6. CASE updates = NoKeys
  <2>1. heap' = heap /\ sortedTo' = sortedTo
    BY <1>6 DEF Sort
  <2>2. CountsTo(d) = CountsTo(topnPos)
    BY <1>4, <1>6
  <2>3. /\ Later(sortedTo, topnPos) \in Int /\ Later(sortedTo, d) \in Int
        /\ Later(sortedTo, topnPos) <= Later(sortedTo, d)
    BY <1>1, <1>2 DEF Later
  <2>4. Follows(heap, CountsTo(topnPos), Later(sortedTo, d))
    BY <1>1, <1>5, <2>3, FollowsOn
  <2> QED
    BY <1>1, <1>4, <2>1, <2>2, <2>4
<1>7. CASE updates # NoKeys
  <2>1. heap' \in SortedFrom(Deduplicate(heap, updates), N) /\ sortedTo' = Max({sortedTo, maxPos})
    BY <1>7 DEF Sort
  <2>2. sortedTo' = Later(sortedTo, maxPos)
    BY <1>1, <1>2, <2>1, MaxOfTwo
  <2> DEFINE r == Later(sortedTo, topnPos)
  <2>3. r \in Int /\ topnPos <= r /\ Later(r, maxPos) = Later(sortedTo', d)
    BY <1>1, <1>2, <2>2 DEF Later
  <2> HIDE DEF r
  <2>4. Follows(heap, CountsTo(topnPos), r)
    BY <1>1 DEF r
  <2>5. updates = [k \in {j \in Keys : CountTo(topnPos, j) # CountTo(maxPos, j)}
                     |-> CountTo(maxPos, k)]
    BY <1>1, <1>3
  <2>6. topnPos <= maxPos
    BY <1>1, <1>2
  <2>7. Follows(heap', CountsTo(d), Later(r, maxPos))
    BY <1>1, <1>2, <2>1, <2>3, <2>4, <2>5, <2>6, SortFollows
  <2>8. sortedTo' \in Int /\ sortedTo <= sortedTo'
    BY <1>1, <1>2, <2>2 DEF Later
  <2> QED
    BY <1>4, <2>3, <2>7, <2>8
<1> QED
  BY <1>6, <1>7

\* The transaction of a round.
LEMMA CommitInv ==
    ASSUME ConstantsOK, IInv, CalculateStat
    PROVE  /\ IInv' /\ counter' = CountsTo(maxPos)
           /\ topnPos \in Int /\ maxPos \in Nat /\ topnPos < maxPos /\ topnPos >= -1
<1>1. /\ phase = "commit" /\ BatchUpsert /\ Sort /\ StoreHeap /\ topnPos' = maxPos
      /\ currentPos' = maxPos + 1 /\ phase' = "range" /\ UNCHANGED <<minPos, maxPos, updates>>
  BY DEF CalculateStat
<1>2. /\ topnPos \in Int /\ maxPos \in Int /\ topnPos < maxPos /\ maxPos \in Nat
      /\ \A k \in Keys : ItemsOf(k) = {} <=> CountTo(topnPos, k) = CountTo(maxPos, k)
  BY <1>1, RoundCounts
<1>3. counter = CountsTo(topnPos) /\ updates = [k \in Grouped |-> CountTo(maxPos, k)]
  BY <1>1 DEF IInv, Counted, UpdatesOK
<1>4. counter' = CountsTo(maxPos)
  <2>1. \A k \in Keys : (IF k \in DOMAIN updates THEN updates[k] ELSE counter[k])
                            = CountTo(maxPos, k)
    BY <1>2, <1>3 DEF CountsTo, Grouped
  <2>2. counter' = [k \in Keys |-> CountTo(maxPos, k)]
    BY <1>1, <2>1 DEF BatchUpsert
  <2> QED
    BY <2>2 DEF CountsTo
<1>5. /\ Follows(heap', CountsTo(maxPos), Later(sortedTo', maxPos))
      /\ sortedTo' \in Int /\ sortedTo <= sortedTo'
      /\ updates = NoKeys => CountsTo(maxPos) = CountsTo(topnPos)
  BY <1>1, RoundSorts
<1>6. Follows(heapRow', CountsTo(maxPos), Later(sortedTo', maxPos))
  <2>1. CASE updates # NoKeys
    BY <1>1, <1>5, <2>1 DEF StoreHeap, Snapshot
  <2>2. CASE updates = NoKeys
    <3>1. heapRow' = heapRow /\ CountsTo(maxPos) = CountsTo(topnPos)
      BY <1>1, <1>5, <2>2 DEF StoreHeap
    <3>2. CountsTo(topnPos) \in [Keys -> Nat]
      BY Counts DEF CountsTo
    <3>3. Follows(heapRow, CountsTo(topnPos), Later(sortedTo, topnPos))
      BY <1>3 DEF IInv, RankingsFollow
    <3>4. /\ Later(sortedTo, topnPos) \in Int /\ Later(sortedTo', maxPos) \in Int
          /\ Later(sortedTo, topnPos) <= Later(sortedTo', maxPos)
      <4>1. sortedTo \in Int /\ sortedTo' \in Int /\ sortedTo <= sortedTo'
        BY <1>5 DEF IInv, PositionsOK
      <4> QED
        BY <1>2, <4>1 DEF Later
    <3>5. Follows(heapRow, CountsTo(topnPos), Later(sortedTo', maxPos))
      BY <3>2, <3>3, <3>4, FollowsOn
    <3> QED
      BY <3>1, <3>5
  <2> QED
    BY <2>1, <2>2
<1>7. PositionsOK' /\ CursorsAgree' /\ RangeOK' /\ UpdatesOK'
  BY <1>1, <1>2, <1>5 DEF IInv, PositionsOK, CursorsAgree, LoadedPos, RangeOK, UpdatesOK
<1>8. Counted' /\ RankingsFollow'
  BY <1>1, <1>4, <1>5, <1>6 DEF Counted, RankingsFollow, CountsTo, CountTo, ItemsTo
<1>9. topnPos >= -1
  BY DEF IInv, PositionsOK
<1> QED
  BY <1>2, <1>4, <1>7, <1>8, <1>9 DEF IInv

\* The transaction fails before or after the ranking.
LEMMA FailInv == ASSUME ConstantsOK, IInv, CalculateFails PROVE IInv'
<1>1. /\ phase = "commit" /\ phase' = "range" /\ (Sort \/ UNCHANGED <<heap, sortedTo>>)
      /\ UNCHANGED <<dbVars, currentPos, minPos, maxPos, updates>>
  BY DEF CalculateFails
<1>2. PositionsOK' /\ CursorsAgree' /\ RangeOK' /\ UpdatesOK' /\ Counted'
  <2>1. sortedTo' \in Int
    <3>1. Sort => sortedTo' \in Int
      BY <1>1, RoundSorts
    <3>2. sortedTo' = sortedTo => sortedTo' \in Int
      BY DEF IInv, PositionsOK
    <3> QED
      BY <1>1, <3>1, <3>2
  <2> QED
    BY <1>1, <2>1 DEF IInv, PositionsOK, CursorsAgree, LoadedPos, RangeOK, UpdatesOK, Counted,
                      CountsTo, CountTo, ItemsTo, dbVars
<1>3. counter = CountsTo(topnPos) /\ counter \in [Keys -> Nat]
  BY Counts DEF IInv, Counted, CountsTo
<1>4. CASE Sort
  <2>1. /\ Follows(heap', counter, Later(sortedTo', topnPos))
        /\ sortedTo' \in Int /\ sortedTo <= sortedTo'
    <3>1. /\ Follows(heap', CountsTo(topnPos), Later(sortedTo', topnPos))
          /\ sortedTo' \in Int /\ sortedTo <= sortedTo'
      BY <1>1, <1>4, RoundSorts
    <3> QED
      BY <1>3, <3>1
  <2>2. Follows(heapRow, counter, Later(sortedTo, topnPos)) /\ sortedTo \in Int /\ topnPos \in Int
    BY DEF IInv, RankingsFollow, PositionsOK
  <2>3. /\ Later(sortedTo, topnPos) \in Int /\ Later(sortedTo', topnPos) \in Int
        /\ Later(sortedTo, topnPos) <= Later(sortedTo', topnPos)
    BY <2>1, <2>2 DEF Later
  <2>4. Follows(heapRow, counter, Later(sortedTo', topnPos))
    BY <1>3, <2>2, <2>3, FollowsOn
  <2> QED
    BY <1>1, <1>2, <2>1, <2>4 DEF IInv, RankingsFollow, dbVars
<1>5. CASE UNCHANGED <<heap, sortedTo>>
  BY <1>1, <1>2, <1>5 DEF IInv, RankingsFollow, dbVars
<1> QED
  BY <1>1, <1>4, <1>5

\* A step that leaves the database, the rankings and the sorted rounds alone.
LEMMA KeepsRankings ==
    ASSUME IInv, UNCHANGED <<dbVars, heap, sortedTo>> PROVE Counted' /\ RankingsFollow'
BY DEF IInv, Counted, RankingsFollow, dbVars

LEMMA NextInv == ASSUME ConstantsOK PROVE IInv /\ [Next]_vars => IInv'
<1> SUFFICES ASSUME IInv, [Next]_vars PROVE IInv'
  OBVIOUS
<1>1. CASE BlockFinalized \/ UNCHANGED vars
  <2>1. UNCHANGED <<dbVars, roundVars>>
    BY <1>1 DEF BlockFinalized, vars
  <2>2. UNCHANGED <<dbVars, heap, sortedTo>>
    BY <2>1 DEF roundVars
  <2> QED
    BY <2>1, <2>2, KeepsRankings
       DEF IInv, PositionsOK, CursorsAgree, LoadedPos, RangeOK, UpdatesOK, Grouped, ItemsOf,
           dbVars, roundVars
<1>2. CASE NextStatRange
  <2>1. PICK finalizedPos \in FinalPos :
            currentPos <= finalizedPos /\ maxPos' = Min({finalizedPos, currentPos + Batch - 1})
    BY <1>2 DEF NextStatRange, Reached, RangeEnd
  <2>2. finalizedPos \in Nat /\ currentPos \in Nat /\ Batch \in Nat \ {0}
    BY DEF FinalPos, ConstantsOK, IInv, PositionsOK
  <2>3. maxPos' \in Nat /\ currentPos <= maxPos'
    BY <2>1, <2>2, MinOfTwo
  <2>4. UNCHANGED <<dbVars, heap, sortedTo>> /\ phase' = "group" /\ minPos' = currentPos
        /\ currentPos' = currentPos
    BY <1>2 DEF NextStatRange
  <2> QED
    BY <2>3, <2>4, KeepsRankings
       DEF IInv, PositionsOK, CursorsAgree, LoadedPos, RangeOK, UpdatesOK, dbVars
<1>3. CASE ReadCounters
  <2>1. updates' = [k \in Grouped |-> CountTo(maxPos, k)]
    <3>1. \A k \in Keys : CountTo(maxPos, k) = CountTo(topnPos, k) + Cardinality(ItemsOf(k))
      BY <1>3, RoundCounts DEF ReadCounters
    <3>2. \A k \in Grouped : counter[k] + Cardinality(ItemsOf(k)) = CountTo(maxPos, k)
      BY <3>1 DEF IInv, Counted, CountsTo, Grouped
    <3> QED
      BY <1>3, <3>2 DEF ReadCounters
  <2>2. UNCHANGED <<dbVars, heap, sortedTo, minPos, maxPos, currentPos>> /\ phase = "group"
    BY <1>3 DEF ReadCounters
  <2> QED
    BY <2>1, <2>2, KeepsRankings
       DEF IInv, PositionsOK, CursorsAgree, LoadedPos, RangeOK, UpdatesOK, Grouped, ItemsOf,
           CountTo, ItemsTo, dbVars
<1>4. CASE Restart
  <2>1. /\ UNCHANGED <<dbVars, minPos, maxPos, sortedTo>> /\ heap' = heapRow
        /\ currentPos' = LoadedPos /\ phase' = "range"
    BY <1>4 DEF Restart, LoadHeap, LoadFromDB
  <2>2. Counted' /\ RankingsFollow'
    BY <2>1 DEF IInv, Counted, RankingsFollow, dbVars
  <2> QED
    BY <2>1, <2>2
       DEF IInv, PositionsOK, CursorsAgree, LoadedPos, RangeOK, UpdatesOK, ConstantsOK, dbVars
<1> QED
  BY <1>1, <1>2, <1>3, <1>4, CommitInv, FailInv DEF Next, Round

\* The rankings kept by any number of rounds, failures and restarts follow the counters.
THEOREM Invariance == ASSUME ConstantsOK PROVE Spec => []IInv
<1>1. Init => IInv
  BY InitInv
<1>2. IInv /\ [Next]_vars => IInv'
  BY NextInv
<1> QED
  BY <1>1, <1>2, PTL DEF Spec

\* Once the cursor has passed the rounds that were rolled back, the stored ranking is that of
\* the stored counters.
LEMMA InvRanks == ASSUME ConstantsOK, IInv PROVE RankingFollows
<1> SUFFICES ASSUME sortedTo <= topnPos PROVE Ranks(heapRow)
  BY DEF RankingFollows
<1>1. Later(sortedTo, topnPos) = topnPos /\ N \in Nat /\ IsFiniteSet(Keys)
  BY DEF IInv, PositionsOK, Later, ConstantsOK
<1>2. counter = CountsTo(topnPos) /\ Follows(heapRow, counter, topnPos)
  BY <1>1 DEF IInv, Counted, RankingsFollow
<1>3. \A k \in Keys : counter[k] = CountTo(topnPos, k) /\ counter[k] \in Nat
  BY <1>2, Counts DEF CountsTo
<1>4. ASSUME NEW k \in DOMAIN heapRow PROVE heapRow[k] = counter[k]
  BY <1>2, <1>3 DEF Follows
<1>5. IsFiniteSet(DOMAIN heapRow) /\ Cardinality(DOMAIN heapRow) \in Nat
      /\ Cardinality(DOMAIN heapRow) <= N
  BY <1>1, <1>2, FS_Subset, FS_CardinalityType DEF Follows
<1>6. ASSUME NEW k \in Keys \ DOMAIN heapRow, counter[k] > 0
      PROVE  /\ Cardinality(DOMAIN heapRow) = N
             /\ \A j \in DOMAIN heapRow : counter[k] <= counter[j]
  <2> DEFINE A == Above(heapRow, counter, topnPos, k)
  <2>1. \A j \in A : j \in DOMAIN heapRow /\ counter[k] <= counter[j]
    BY <1>3 DEF Above
  <2>2. N <= Cardinality(A)
    BY <1>2, <1>6 DEF Follows
  <2> HIDE DEF A
  <2>3. A \subseteq DOMAIN heapRow
    BY <2>1
  <2>4. IsFiniteSet(A) /\ Cardinality(A) <= Cardinality(DOMAIN heapRow)
        /\ (Cardinality(A) = Cardinality(DOMAIN heapRow) => A = DOMAIN heapRow)
    BY <1>5, <2>3, FS_Subset
  <2>5. Cardinality(A) \in Nat
    BY <2>4, FS_CardinalityType
  <2>6. Cardinality(DOMAIN heapRow) = N /\ Cardinality(A) = Cardinality(DOMAIN heapRow)
    BY <1>1, <1>5, <2>2, <2>4, <2>5
  <2>7. A = DOMAIN heapRow
    BY <2>4, <2>6
  <2> QED
    BY <2>1, <2>6, <2>7
<1> QED
  BY <1>4, <1>6 DEF Ranks

-----------------------------------------------------------------------------
(* The counters implement the exactly-once count.                           *)

LEMMA CountsOfCount == ASSUME NEW p \in Int, ConstantsOK PROVE Count!CountsBelow(p + 1) = CountsTo(p)
<1>1. \A k : Count!ItemsBelow(p + 1, k) = ItemsTo(p, k)
  BY DEF Count!ItemsBelow, ItemsTo, ConstantsOK
<1>2. \A S : Count!Cardinality(S) = Cardinality(S)
  BY DEF Count!Cardinality, Cardinality
<1> QED
  BY <1>1, <1>2 DEF Count!CountsBelow, CountsTo, CountTo

LEMMA StepCounts ==
    ASSUME ConstantsOK, IInv, [Next]_vars
    PROVE  Count!CountRange \/ UNCHANGED <<topnPos, counter>>
<1>1. CASE CalculateStat
  <2>1. /\ counter' = CountsTo(maxPos) /\ topnPos' = maxPos
        /\ topnPos \in Int /\ maxPos \in Nat /\ topnPos < maxPos /\ topnPos >= -1
    BY <1>1, CommitInv DEF CalculateStat
  <2>2. counter' = Count!CountsBelow(maxPos + 1)
    BY <2>1, CountsOfCount
  <2>3. counter' = Count!CountsBelow(topnPos' + 1)
    BY <2>1, <2>2
  <2>4. topnPos' + 1 \in Nat /\ topnPos + 1 < topnPos' + 1
    BY <2>1
  <2> QED
    BY <2>3, <2>4 DEF Count!CountRange
<1>2. CASE ~ CalculateStat
  BY <1>2 DEF Next, Round, vars, BlockFinalized, NextStatRange, ReadCounters, CalculateFails,
              Restart, dbVars
<1> QED
  BY <1>1, <1>2
=============================================================================

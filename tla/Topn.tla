-------------------------------- MODULE Topn --------------------------------
(***************************************************************************)
(* The overall rankings (stat/topn.go, topn_submit.go, topn_reward.go): of *)
(* addresses by their submissions and of miners by their rewards.  A round *)
(* takes a range of final items after its cursor, adds them to the counters *)
(* of their keys, ranks the updated keys together with the ranking held in *)
(* memory, and commits counters, ranking and cursor in one transaction.    *)
(* One counter and its ranking stand for the four of topn_submit.go; the   *)
(* number of transactions, a count of distinct values, is kept beside it.  *)
(***************************************************************************)
EXTENDS Integers, FiniteSets, FiniteSetsExt

CONSTANTS
    Items, Keys,    \* submissions and senders, or rewards and miners
    Pos,            \* submission index, or block number
    BlockOf, Key,   \* block and key of an item
    Tx,             \* its transaction
    N,              \* maxSubmits, maxMiners: 100 in the code
    Batch,          \* batchInSubmitIds, batchInBns
    FirstPos,       \* first position: 0, and BlockOnStatBegin for the rewards
    MaxFaults       \* bound: failed transactions, restarts

ConstantsOK ==
    /\ IsFiniteSet(Items) /\ IsFiniteSet(Keys)
    /\ Pos \in [Items -> Nat] /\ BlockOf \in [Items -> Nat] /\ Key \in [Items -> Keys]
    /\ N \in Nat \ {0} /\ Batch \in Nat \ {0} /\ MaxFaults \in Nat
    /\ FirstPos \in Nat /\ \A i \in Items : Pos[i] >= FirstPos
    /\ \A i, j \in Items : BlockOf[i] < BlockOf[j] => Pos[i] < Pos[j]

VARIABLES
    finalBlock,     \* newest finalized block with an item, -1 without one
    counter,        \* addresses.files, miners.win_count: per key
    txs,            \* addresses.txs
    heapRow,        \* configs row of the ranking: key -> counter
    topnPos,        \* configs row of the cursor, -1 when missing
    currentPos,     \* BaseStat.currentPos
    heap,           \* the ranking in memory: key -> counter
    minPos, maxPos, \* the StatRange of the round
    updates,        \* addressesUpdate: the new counters of the keys of the range
    phase,          \* "range", "group", "commit"
    sortedTo,       \* history: end of the ranges that were ranked, committed or not
    faults

dbVars == <<counter, txs, heapRow, topnPos>>
roundVars == <<currentPos, heap, minPos, maxPos, updates, phase, sortedTo>>
vars == <<finalBlock, dbVars, roundVars, faults>>

NoKeys == [k \in {} |-> 0]
Zero == [k \in Keys |-> 0]

\* The first start of the process stores a ranking of the keys there are.
Init ==
    /\ finalBlock = -1
    /\ counter = Zero /\ txs = Zero /\ topnPos = -1
    /\ \E K \in SUBSET Keys : Cardinality(K) <= N /\ heapRow = [k \in K |-> 0]
    /\ heap = heapRow
    /\ currentPos = FirstPos /\ minPos = 0 /\ maxPos = 0
    /\ updates = NoKeys /\ phase = "range"
    /\ sortedTo = -1 /\ faults = 0

\* Finality moves on to a later block with items.
BlockFinalized ==
    /\ \E i \in Items : finalBlock < BlockOf[i] /\ finalBlock' = BlockOf[i]
    /\ UNCHANGED <<dbVars, roundVars, faults>>

-----------------------------------------------------------------------------
(* A round.                                                                 *)

\* MaxSubmissionIndexFinalized orders by the block alone: of the submissions of
\* the newest final block it may return any.
FinalPos == {Pos[i] : i \in {j \in Items : BlockOf[j] = finalBlock}}

Reached(finalizedPos) == currentPos <= finalizedPos
RangeEnd(finalizedPos) == Min({finalizedPos, currentPos + Batch - 1})

NextStatRange ==
    /\ phase = "range"
    /\ \E finalizedPos \in FinalPos :
          /\ Reached(finalizedPos)
          /\ maxPos' = RangeEnd(finalizedPos)
    /\ minPos' = currentPos
    /\ phase' = "group"
    /\ UNCHANGED <<finalBlock, dbVars, currentPos, heap, updates, sortedTo, faults>>

ItemsOf(k) == {i \in Items : minPos <= Pos[i] /\ Pos[i] <= maxPos /\ Key[i] = k}
Grouped == {k \in Keys : ItemsOf(k) # {}}
Distinct(items) == {Tx[i] : i \in items}

\* GroupBySender or GroupByMiner, and the counters read from the database.
ReadCounters ==
    /\ phase = "group"
    /\ updates' = [k \in Grouped |-> counter[k] + Cardinality(ItemsOf(k))]
    /\ phase' = "commit"
    /\ UNCHANGED <<finalBlock, dbVars, currentPos, heap, minPos, maxPos, sortedTo, faults>>

\* Faulty variant of Deduplicate: a ranked key keeps its old counter.
KeepRanked(ranked, new) ==
    [k \in DOMAIN ranked \cup DOMAIN new |-> IF k \in DOMAIN ranked THEN ranked[k] ELSE new[k]]

Deduplicate(ranked, new) ==
    [k \in DOMAIN ranked \cup DOMAIN new |-> IF k \in DOMAIN new THEN new[k] ELSE ranked[k]]

\* The keys at the root of the heap: any of those with the lowest counter.
Roots(h) == {k \in DOMAIN h : \A j \in DOMAIN h : h[k] <= h[j]}

\* The rankings after k: pushed while there is room, and in the place of a root that is
\* lower.
Push(h, k, v, n) ==
    LET put(K) == [j \in K \cup {k} |-> IF j = k THEN v ELSE h[j]]
    IN  IF Cardinality(DOMAIN h) < n THEN {put(DOMAIN h)}
                                ELSE {IF h[j] < v THEN put(DOMAIN h \ {j}) ELSE h : j \in Roots(h)}

\* The keys are pushed in the order of a map, which is any.
SortedFrom(all, n) ==
    LET sorted[K \in SUBSET DOMAIN all] ==
            IF K = {} THEN {NoKeys}
            ELSE UNION {UNION {Push(h, k, all[k], n) : h \in sorted[K \ {k}]} : k \in K}
    IN  sorted[DOMAIN all]

\* The ranking is made inside the transaction, from the one in memory.
Sort ==
    IF updates = NoKeys
    THEN UNCHANGED <<heap, sortedTo>>
    ELSE /\ heap' \in SortedFrom(Deduplicate(heap, updates), N)
         /\ sortedTo' = Max({sortedTo, maxPos})

\* The counters are written as they were computed.
BatchUpsert ==
    /\ counter' = [k \in Keys |-> IF k \in DOMAIN updates THEN updates[k] ELSE counter[k]]
    /\ txs' = [k \in Keys |-> txs[k] + Cardinality(Distinct(ItemsOf(k)))]

\* The ranking is stored as it is in memory, where it stays.
Snapshot == heap'
StoreHeap == heapRow' = IF updates = NoKeys THEN heapRow ELSE Snapshot

\* The transaction, and the cursor in memory after it.
CalculateStat ==
    /\ phase = "commit"
    /\ BatchUpsert /\ Sort /\ StoreHeap
    /\ topnPos' = maxPos
    /\ currentPos' = maxPos + 1
    /\ phase' = "range"
    /\ UNCHANGED <<finalBlock, minPos, maxPos, updates, faults>>

\* The transaction fails before or after the ranking: it is rolled back, the
\* ranking in memory stays, and the round starts over.
CalculateFails ==
    /\ faults < MaxFaults /\ faults' = faults + 1
    /\ phase = "commit" /\ phase' = "range"
    /\ Sort \/ UNCHANGED <<heap, sortedTo>>
    /\ UNCHANGED <<finalBlock, dbVars, currentPos, minPos, maxPos, updates>>

\* Faulty variant of LoadedPos: the stored position itself.
StoredPos == IF topnPos = -1 THEN FirstPos ELSE topnPos

\* loadLastPos: the position after the stored one, the first without one.
LoadedPos == IF topnPos = -1 THEN FirstPos ELSE topnPos + 1

\* mustLoadFromDB: the stored ranking.
LoadFromDB == heapRow
LoadHeap == heap' = LoadFromDB

\* The process starts again, at any time.
Restart ==
    /\ faults < MaxFaults /\ faults' = faults + 1
    /\ currentPos' = LoadedPos
    /\ LoadHeap
    /\ phase' = "range"
    /\ UNCHANGED <<finalBlock, dbVars, minPos, maxPos, updates, sortedTo>>

-----------------------------------------------------------------------------
Round == NextStatRange \/ ReadCounters \/ CalculateStat

Next == BlockFinalized \/ Round \/ CalculateFails \/ Restart

Spec == Init /\ [][Next]_vars

\* DoStat is a loop that runs again after every error.
FairSpec == Spec /\ WF_vars(Round)

-----------------------------------------------------------------------------
(* Properties.                                                              *)

\* Every variable has its type.
TypeOK ==
    /\ finalBlock \in {BlockOf[i] : i \in Items} \cup {-1}
    /\ DOMAIN counter = Keys /\ DOMAIN txs = Keys
    /\ \A k \in Keys : counter[k] \in Nat /\ txs[k] \in Nat
    /\ \A ranking \in {heap, heapRow, updates} :
          DOMAIN ranking \subseteq Keys /\ \A k \in DOMAIN ranking : ranking[k] \in Nat
    /\ topnPos >= -1 /\ currentPos \in Nat
    /\ phase \in {"range", "group", "commit"}

\* What sorting is to give: n keys of "all" that no other one is above.
IsTop(top, all, n) ==
    /\ DOMAIN top \subseteq DOMAIN all
    /\ \A k \in DOMAIN top : top[k] = all[k]
    /\ Cardinality(DOMAIN top) = Min({n, Cardinality(DOMAIN all)})
    /\ \A k \in DOMAIN top, j \in DOMAIN all \ DOMAIN top : all[j] <= all[k]

TopsOf(all, n) ==
    {top \in {[k \in K |-> all[k]] : K \in SUBSET DOMAIN all} : IsTop(top, all, n)}

\* A ranking of the counters: the N highest, with their values.
Ranks(ranking) ==
    /\ \A k \in DOMAIN ranking : ranking[k] = counter[k]
    /\ \A k \in Keys \ DOMAIN ranking :
          counter[k] > 0 => /\ Cardinality(DOMAIN ranking) = N
                            /\ \A j \in DOMAIN ranking : counter[k] <= counter[j]

\* The stored ranking is right for the counters it is stored with, whatever
\* rounds failed after they had sorted the ranking in memory: from the moment the
\* cursor has passed what was sorted.
RankingFollows == sortedTo <= topnPos => Ranks(heapRow)

\* The stored ranking is right at any time.
RankingRight == Ranks(heapRow)

\* The number of transactions of a key counts each transaction once.
TxsExact ==
    \A k \in Keys :
        txs[k] = Cardinality(Distinct({i \in Items : Pos[i] <= topnPos /\ Key[i] = k}))

\* Every final item is counted in the end, but for those of the newest block
\* after its first, which the query may return.
FinalAreCounted == <>[](FinalPos # {} => Min(FinalPos) <= topnPos)

-----------------------------------------------------------------------------
\* The counters of a ranking implement the exactly-once count.
Count == INSTANCE CountOnce WITH done <- topnPos + 1

ImplementsCountOnce == Count!CountSpec
=============================================================================

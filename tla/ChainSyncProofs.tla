--------------------------- MODULE ChainSyncProofs ---------------------------
(***************************************************************************)
(* The types of ChainSync, the distance it keeps from the head, and its    *)
(* inductive invariant: for every chain, configuration and number of       *)
(* failures, the store describes one branch of the chain and, when its tip *)
(* is canonical, exactly the canonical events up to it.                    *)
(***************************************************************************)
EXTENDS ChainSyncInv, TLAPS

-----------------------------------------------------------------------------
(* Hashes and events.                                                       *)

\* The path to an ancestor is a prefix of the path to a block.
LEMMA HashType ==
    ASSUME NEW k \in Nat, NEW c \in [1..k -> Cell], NEW n \in Nat, n <= k
    PROVE  Hash(c, n) \in [1..n -> Cell]
BY DEF Hash

LEMMA HashApply ==
    ASSUME NEW c, NEW n \in Nat, NEW i \in 1..n
    PROVE  Hash(c, n)[i] = c[i]
BY DEF Hash

LEMMA HashSame ==
    ASSUME NEW n \in Nat, NEW c \in [1..n -> Cell]
    PROVE  Hash(c, n) = c
BY DEF Hash

LEMMA HashHash ==
    ASSUME NEW c, NEW m \in Nat, NEW n \in Nat, n <= m
    PROVE  Hash(Hash(c, m), n) = Hash(c, n)
BY DEF Hash

\* Two branches that agree up to m have the same ancestors below m.
LEMMA HashEq ==
    ASSUME NEW c, NEW d, NEW m \in Nat, NEW n \in Nat, n <= m, Hash(c, m) = Hash(d, m)
    PROVE  Hash(c, n) = Hash(d, n)
BY HashHash

LEMMA EventsOfMember ==
    ASSUME NEW c, NEW lo, NEW hi, NEW e
    PROVE  e \in EventsOf(c, lo, hi) <=>
             \E n \in lo..hi : /\ F <= n /\ 1 <= n /\ c[n].kind \in EventKinds
                               /\ e = [num |-> n, hash |-> Hash(c, n)]
BY FlowAssumption DEF EventsOf, F

\* The events of blocks up to hi only depend on the branch up to hi.
LEMMA EventsOfHash ==
    ASSUME NEW c, NEW d, NEW m \in Nat, NEW lo \in Nat, NEW hi \in Nat, hi <= m,
           Hash(c, m) = Hash(d, m)
    PROVE  EventsOf(c, lo, hi) = EventsOf(d, lo, hi)
<1>1. ASSUME NEW n \in lo..hi, 1 <= n PROVE c[n] = d[n] /\ Hash(c, n) = Hash(d, n)
  <2>1. n \in 1..m
    BY <1>1
  <2>2. Hash(c, m)[n] = c[n] /\ Hash(d, m)[n] = d[n]
    BY <2>1, HashApply
  <2> QED
    BY <2>1, <2>2, HashEq
<1>2. ASSUME NEW e PROVE e \in EventsOf(c, lo, hi) <=> e \in EventsOf(d, lo, hi)
  BY <1>1, EventsOfMember
<1> QED
  BY <1>2 DEF EventsOf

\* A range of events is the union of two adjacent ranges.
LEMMA EventsOfSplit ==
    ASSUME NEW c, NEW lo \in Nat, NEW k \in Nat, NEW hi \in Nat, lo <= k, k <= hi + 1
    PROVE  EventsOf(c, lo, hi) = EventsOf(c, lo, k - 1) \cup EventsOf(c, k, hi)
<1>1. ASSUME NEW e
      PROVE  e \in EventsOf(c, lo, hi) <=>
               e \in EventsOf(c, lo, k - 1) \/ e \in EventsOf(c, k, hi)
  <2>1. \A n : n \in lo..hi <=> n \in lo..(k - 1) \/ n \in k..hi
    OBVIOUS
  <2> QED
    BY <2>1, EventsOfMember
<1> QED
  BY <1>1

-----------------------------------------------------------------------------
(* Types.                                                                   *)

USE KindsAssumption, FlowAssumption, InitHeadAssumption, BranchGainAssumption,
    NodeBoundsAssumption, CatchupAssumption, BatchAssumption, Uint64Assumption,
    FaultsAssumption, SwitchesAssumption

TypeInv == TypeOK /\ PhaseInv

\* Rows of EventsOf are typed as the branch they come from.
LEMMA EventsOfType ==
    ASSUME NEW k \in Nat, NEW c \in [1..k -> Cell], NEW lo \in Nat, NEW hi \in Nat, hi <= k,
           NEW e \in EventsOf(c, lo, hi)
    PROVE  /\ e.num \in lo..hi /\ e.num \in Nat /\ e.hash \in [1..e.num -> Cell]
           /\ e.hash = Hash(c, e.num)
<1>1. PICK n \in lo..hi : 1 <= n /\ e = [num |-> n, hash |-> Hash(c, n)]
  BY EventsOfMember
<1>2. n \in Nat /\ n <= k /\ e.num = n /\ e.hash = Hash(c, n)
  BY <1>1
<1> QED
  BY <1>2, HashType

LEMMA InitTypeInv == Init => TypeInv
<1> SUFFICES ASSUME Init PROVE TypeInv
  OBVIOUS
<1>1. NodeTypeOK
  BY DEF Init, NodeInit, NodeTypeOK, Cell
<1>2. StoreTypeOK
  BY DEF Init, StoreInit, StoreTypeOK
<1> QED
  BY <1>1, <1>2 DEF Init, TypeInv, TypeOK, ProcTypeOK, PhaseInv, Phases, Fetching, Following, NoBatch

LEMMA StartType == TypeInv /\ Start => TypeInv'
<1> SUFFICES ASSUME TypeInv, Start PROVE TypeInv'
  OBVIOUS
<1> USE DEF TypeInv, TypeOK, PhaseInv, Phases, Fetching, Following, Fetched
<1>1. NodeTypeOK' /\ StoreTypeOK'
  BY DEF Start, NodeTypeOK, StoreTypeOK, nodeVars, storeVars
<1>2. ProcTypeOK' /\ PhaseInv'
  BY DEF Start, NodeTypeOK, ProcTypeOK, nodeVars
<1> QED
  BY <1>1, <1>2

LEMMA CheckReorgDataType == TypeInv /\ CheckReorgData => TypeInv'
<1> SUFFICES ASSUME TypeInv, CheckReorgData PROVE TypeInv'
  OBVIOUS
<1> USE DEF TypeInv, TypeOK, PhaseInv, Phases, Fetching, Following, Fetched
<1>1. NodeTypeOK'
  BY DEF CheckReorgData, NodeTypeOK, nodeVars
<1>2. StoreTypeOK'
  BY DEF CheckReorgData, Pop, StoreTypeOK, storeVars
<1>3. ProcTypeOK' /\ PhaseInv'
  BY DEF CheckReorgData, NodeTypeOK, StoreTypeOK, ProcTypeOK, nodeVars, IsMaxBlock
<1> QED
  BY <1>1, <1>2, <1>3

LEMMA TryBlockRangeType == TypeInv /\ TryBlockRange => TypeInv'
<1> SUFFICES ASSUME TypeInv, TryBlockRange PROVE TypeInv'
  OBVIOUS
<1> USE DEF TypeInv, TypeOK, PhaseInv, Phases, Fetching, Following, Fetched
<1>1. NodeTypeOK' /\ StoreTypeOK'
  BY DEF TryBlockRange, NodeTypeOK, StoreTypeOK, nodeVars, storeVars
<1>2. ProcTypeOK' /\ PhaseInv'
  BY DEF TryBlockRange, NodeTypeOK, ProcTypeOK, nodeVars
<1> QED
  BY <1>1, <1>2

\* The end of a range lies between its start and the finalized block.
LEMMA SyncRangeEnd ==
    ASSUME TypeInv, phase = "catchup", NEW end \in rangeStart..LastOfRange
    PROVE  end \in Nat /\ rangeStart <= end /\ end <= finalizedBlock /\ finalizedBlock <= head
BY DEF TypeInv, TypeOK, PhaseInv, ProcTypeOK, NodeTypeOK, LastOfRange

LEMMA CanonicalHashType ==
    ASSUME NodeTypeOK, NEW n \in Nat, n <= head
    PROVE  CanonicalHash(n) \in [1..n -> Cell]
BY HashType DEF NodeTypeOK, CanonicalHash

LEMMA PushType ==
    ASSUME StoreTypeOK, NEW n \in Nat, NEW h \in [1..n -> Cell], NEW rows,
           \A e \in rows : e.num \in Nat /\ e.hash \in [1..e.num -> Cell],
           Push(n, h, rows)
    PROVE  StoreTypeOK'
BY DEF StoreTypeOK, Push

LEMMA SyncRangeType == TypeInv /\ SyncRange => TypeInv'
<1> SUFFICES ASSUME TypeInv, SyncRange PROVE TypeInv'
  OBVIOUS
<1> USE DEF TypeInv, TypeOK, PhaseInv, Phases, Fetching, Following, Fetched
<1>1. NodeTypeOK'
  BY DEF SyncRange, NodeTypeOK, nodeVars
<1>2. PICK end \in rangeStart..LastOfRange :
         /\ Push(end, CanonicalHash(end), EventsOf(chain, rangeStart, end))
         /\ IF end >= finalizedBlock
            THEN phase' = "range" /\ UNCHANGED rangeStart
            ELSE rangeStart' = end + 1 /\ UNCHANGED phase
  BY DEF SyncRange
<1>3. end \in Nat /\ end <= head
  BY SyncRangeEnd DEF SyncRange, ProcTypeOK, NodeTypeOK
<1>4. StoreTypeOK'
  <2>1. CanonicalHash(end) \in [1..end -> Cell]
    BY <1>3, CanonicalHashType
  <2>2. head \in Nat /\ chain \in [1..head -> Cell] /\ rangeStart \in Nat
    BY DEF NodeTypeOK, ProcTypeOK
  <2>3. \A e \in EventsOf(chain, rangeStart, end) :
           e.num \in Nat /\ e.hash \in [1..e.num -> Cell]
    BY <1>3, <2>2, EventsOfType
  <2> QED
    BY <1>2, <1>3, <2>1, <2>3, PushType
<1>5. ProcTypeOK' /\ PhaseInv'
  BY <1>2, <1>3 DEF SyncRange, NodeTypeOK, ProcTypeOK, nodeVars
<1> QED
  BY <1>1, <1>4, <1>5

\* The batch of a tick is not empty.
LEMMA BatchEnd ==
    ASSUME TypeInv, SyncOnce
    PROVE  endBlock' \in Nat /\ currentBlock <= endBlock' /\ endBlock' <= MaxSyncBlock
<1>1. MaxSyncBlock \in Nat /\ currentBlock \in Nat /\ currentBlock <= MaxSyncBlock
  BY DEF TypeInv, TypeOK, NodeTypeOK, ProcTypeOK, MaxSyncBlock, SyncOnce
<1> DEFINE size == CalculateBatchSize(MaxSyncBlock - currentBlock + 1)
<1>2. size \in Nat /\ 1 <= size
  BY <1>1 DEF CalculateBatchSize
<1>3. endBlock' = Lesser(currentBlock + size - 1, MaxSyncBlock)
  BY DEF SyncOnce
<1> QED
  BY <1>1, <1>2, <1>3 DEF Lesser

LEMMA SyncOnceType == TypeInv /\ SyncOnce => TypeInv'
<1> SUFFICES ASSUME TypeInv, SyncOnce PROVE TypeInv'
  OBVIOUS
<1>0. endBlock' \in Nat /\ currentBlock <= endBlock'
  BY BatchEnd
<1> USE DEF TypeInv, TypeOK, PhaseInv, Phases, Fetching, Following, Fetched
<1>1. NodeTypeOK' /\ StoreTypeOK'
  BY DEF SyncOnce, NodeTypeOK, StoreTypeOK, nodeVars, storeVars
<1>2. ProcTypeOK' /\ PhaseInv'
  BY <1>0 DEF SyncOnce, ProcTypeOK, NoBatch
<1> QED
  BY <1>1, <1>2

LEMMA FetchLogsType == TypeInv /\ FetchLogs => TypeInv'
<1> SUFFICES ASSUME TypeInv, FetchLogs PROVE TypeInv'
  OBVIOUS
<1> USE DEF TypeInv, TypeOK, PhaseInv, Phases, Fetching, Following, Fetched
<1>1. NodeTypeOK' /\ StoreTypeOK'
  BY DEF FetchLogs, NodeTypeOK, StoreTypeOK, nodeVars, storeVars
<1>2. \A e \in batchLogs' : e.num \in Nat /\ e.hash \in [1..e.num -> Cell]
  <2>1. /\ head \in Nat /\ chain \in [1..head -> Cell] /\ currentBlock \in Nat
        /\ Lesser(endBlock, head) \in Nat /\ Lesser(endBlock, head) <= head
    BY DEF NodeTypeOK, ProcTypeOK, Lesser
  <2>2. batchLogs' = EventsOf(chain, currentBlock, Lesser(endBlock, head))
    BY DEF FetchLogs
  <2> QED
    BY <2>1, <2>2, EventsOfType
<1>3. ProcTypeOK' /\ PhaseInv'
  BY <1>2 DEF FetchLogs, ProcTypeOK
<1> QED
  BY <1>1, <1>3

LEMMA FetchBlockType ==
    ASSUME TypeInv, NEW n \in 1..head, FetchBlock(n)
    PROVE  TypeInv'
<1> USE DEF TypeInv, TypeOK, PhaseInv, Phases, Fetching, Following, Fetched
<1>1. NodeTypeOK' /\ StoreTypeOK'
  BY DEF FetchBlock, NodeTypeOK, StoreTypeOK, nodeVars, storeVars
<1>2. n \in Nat /\ CanonicalHash(n) \in [1..n -> Cell]
  BY CanonicalHashType DEF NodeTypeOK
<1>3. DOMAIN batch' \subseteq Nat /\ \A i \in DOMAIN batch' : batch'[i] \in [1..i -> Cell]
  BY <1>2 DEF FetchBlock, ProcTypeOK
<1>4. ProcTypeOK' /\ PhaseInv'
  BY <1>3 DEF FetchBlock, ProcTypeOK
<1> QED
  BY <1>1, <1>4

\* The block whose receipts are read next is in the batch.
LEMMA ReceiptsBlock ==
    ASSUME TypeInv, FetchReceipts
    PROVE  /\ receiptsAt \in currentBlock..endBlock /\ receiptsAt \in DOMAIN batch
           /\ receiptsAt \in Nat /\ batch[receiptsAt] \in [1..receiptsAt -> Cell] /\ Fetched
BY DEF TypeInv, TypeOK, PhaseInv, ProcTypeOK, Following, Fetching, FetchReceipts, Fetched

LEMMA FetchReceiptsType == TypeInv /\ FetchReceipts => TypeInv'
<1> SUFFICES ASSUME TypeInv, FetchReceipts PROVE TypeInv'
  OBVIOUS
<1>0. /\ receiptsAt \in currentBlock..endBlock
      /\ receiptsAt \in Nat /\ batch[receiptsAt] \in [1..receiptsAt -> Cell] /\ Fetched
  BY ReceiptsBlock
<1> USE DEF TypeInv, TypeOK, PhaseInv, Phases, Fetching, Following, Fetched
<1>1. NodeTypeOK' /\ StoreTypeOK'
  BY DEF FetchReceipts, NodeTypeOK, StoreTypeOK, nodeVars, storeVars
<1>2. \A e \in EventsOf(batch[receiptsAt], receiptsAt, receiptsAt) :
         e.num \in Nat /\ e.hash \in [1..e.num -> Cell]
  BY <1>0, EventsOfType
<1>3. ProcTypeOK' /\ PhaseInv'
  BY <1>0, <1>2 DEF FetchReceipts, ProcTypeOK
<1> QED
  BY <1>1, <1>3

LEMMA MatchLogsType == TypeInv /\ MatchLogs => TypeInv'
<1> SUFFICES ASSUME TypeInv, MatchLogs PROVE TypeInv'
  OBVIOUS
<1> USE DEF TypeInv, TypeOK, PhaseInv, Phases, Fetching, Following, Fetched
<1>1. NodeTypeOK' /\ StoreTypeOK'
  BY DEF MatchLogs, NodeTypeOK, StoreTypeOK, nodeVars, storeVars
<1>2. ProcTypeOK' /\ PhaseInv'
  BY DEF MatchLogs, ProcTypeOK
<1> QED
  BY <1>1, <1>2

LEMMA CheckParentType == TypeInv /\ CheckParent => TypeInv'
<1> SUFFICES ASSUME TypeInv, CheckParent PROVE TypeInv'
  OBVIOUS
<1> USE DEF TypeInv, TypeOK, PhaseInv, Phases, Fetching, Following, Fetched
<1>1. NodeTypeOK'
  BY DEF CheckParent, NodeTypeOK, nodeVars
<1>2. StoreTypeOK'
  BY DEF CheckParent, Pop, StoreTypeOK, storeVars
<1>3. ~Extends => currentBlock - 1 \in Nat
  BY DEF Extends, ProcTypeOK
<1>4. ProcTypeOK' /\ PhaseInv'
  BY <1>3 DEF CheckParent, ProcTypeOK
<1> QED
  BY <1>1, <1>2, <1>4

\* The next block to store is in the batch.
LEMMA StoreBlockBatch ==
    ASSUME TypeInv, phase = "store"
    PROVE  /\ currentBlock \in DOMAIN batch /\ currentBlock \in Nat /\ endBlock \in Nat
           /\ currentBlock <= endBlock /\ batch[currentBlock] \in [1..currentBlock -> Cell]
BY DEF TypeInv, TypeOK, PhaseInv, ProcTypeOK, Following, Fetching, Fetched

LEMMA StoreBlockType == TypeInv /\ StoreBlock => TypeInv'
<1> SUFFICES ASSUME TypeInv, StoreBlock PROVE TypeInv'
  OBVIOUS
<1>0. /\ currentBlock \in DOMAIN batch /\ currentBlock \in Nat
      /\ currentBlock <= endBlock /\ batch[currentBlock] \in [1..currentBlock -> Cell]
  BY StoreBlockBatch DEF StoreBlock, StoreRow
<1> USE DEF TypeInv, TypeOK, PhaseInv, Phases, Fetching, Following, Fetched
<1>1. NodeTypeOK'
  BY DEF StoreBlock, StoreRow, NodeTypeOK, nodeVars
<1>2. StoreTypeOK'
  BY <1>0, PushType DEF StoreBlock, StoreRow, LogsOf, ProcTypeOK
<1>3. ProcTypeOK' /\ PhaseInv'
  BY <1>0 DEF StoreBlock, StoreRow, ProcTypeOK
<1> QED
  BY <1>1, <1>2, <1>3

\* The steps that give a tick up, and the steps that end the process.
GivenUp == StoreRefused \/ EventUnknown

Ended == Ends /\ (FetchBeyondHead \/ TopicMissing \/ Crash)

LEMMA FailureType ==
    TypeInv /\ (GivenUp \/ Ended \/ CallFails) => TypeInv'
<1> SUFFICES ASSUME TypeInv, GivenUp \/ Ended \/ CallFails
             PROVE  TypeInv'
  OBVIOUS
<1> USE DEF TypeInv, TypeOK, PhaseInv, Phases, Fetching, Following, Fetched
<1>1. NodeTypeOK' /\ StoreTypeOK'
  BY DEF GivenUp, StoreRefused, EventUnknown, Ended, Ends, FetchBeyondHead, TopicMissing,
         CallFails, Crash, NodeTypeOK, StoreTypeOK, nodeVars, storeVars
<1>2. CASE GivenUp
  BY <1>1, <1>2 DEF GivenUp, StoreRefused, EventUnknown, ProcTypeOK
<1>3. CASE CallFails
  <2>0. /\ phase' = "down" \/ phase' = "range" \/ phase' = "tail"
        /\ faults' = faults + 1
    BY <1>3, Zenon DEF CallFails
  <2>1. phase' \in {"down", "range", "tail"} /\ faults' \in Nat
    BY <2>0 DEF ProcTypeOK
  <2> QED
    BY <1>1, <1>3, <2>1 DEF CallFails, ProcTypeOK
<1>4. CASE Ended
  <2>1. crashes' \in Nat
    BY <1>4 DEF Ended, Crash, FetchBeyondHead, TopicMissing, ProcTypeOK
  <2> QED
    BY <1>1, <1>4, <2>1 DEF Ended, Ends, ProcTypeOK, NoBatch
<1> QED
  BY <1>2, <1>3, <1>4

\* A step of the node keeps the types, lets the head and the finalized block
\* only rise, and keeps every block up to the finalized one.
LEMMA NodeMoves ==
    ASSUME NodeTypeOK, Node
    PROVE  /\ NodeTypeOK'
           /\ head <= head' /\ finalized <= finalized' /\ reorgs <= reorgs'
           /\ \A n \in Nat : n <= finalized => CanonicalHash(n)' = CanonicalHash(n)
<1>1. CASE \E k \in Kinds : Mine(k)
  BY <1>1 DEF Mine, NodeTypeOK, Cell, CanonicalHash, Hash
<1>2. CASE \E n \in 1..head : \E kinds \in [n..(head + BranchGain) -> Kinds] : Reorg(n, kinds)
  <2>0. PICK n \in 1..head : \E kinds \in [n..(head + BranchGain) -> Kinds] : Reorg(n, kinds)
    BY <1>2
  <2>1. PICK kinds \in [n..(head + BranchGain) -> Kinds] : Reorg(n, kinds)
    BY <2>0
  <2>2. /\ head' \in Nat /\ head' = head + BranchGain /\ reorgs' = reorgs + 1
        /\ finalized' = finalized /\ finalized < n
        /\ chain' = [i \in 1..head' |->
                      IF i < n THEN chain[i] ELSE [fork |-> reorgs + 1, kind |-> kinds[i]]]
    BY <2>1 DEF Reorg, NodeTypeOK
  <2>3. chain' \in [1..head' -> Cell]
    BY <2>2 DEF NodeTypeOK, Cell
  <2>4. \A m \in Nat : m <= finalized => CanonicalHash(m)' = CanonicalHash(m)
    BY <2>2 DEF NodeTypeOK, CanonicalHash, Hash
  <2>5. /\ head' \in Nat /\ reorgs' \in Nat /\ finalized' \in 0..head'
        /\ head <= head' /\ reorgs <= reorgs' /\ finalized <= finalized'
    <3>1. head \in Nat /\ reorgs \in Nat /\ finalized \in 0..head
      BY DEF NodeTypeOK
    <3> QED
      BY <2>2, <3>1
  <2> QED
    BY <2>3, <2>4, <2>5 DEF NodeTypeOK
<1>3. CASE \E n \in 1..head : Finalize(n)
  BY <1>3 DEF Finalize, NodeTypeOK, CanonicalHash, Hash
<1>4. \/ \E k \in Kinds : Mine(k)
      \/ \E n \in 1..head : \E kinds \in [n..(head + BranchGain) -> Kinds] : Reorg(n, kinds)
      \/ \E n \in 1..head : Finalize(n)
  BY DEF Node
<1> QED
  BY <1>1, <1>2, <1>3, <1>4

LEMMA NodeType == TypeInv /\ Node => TypeInv'
<1> SUFFICES ASSUME TypeInv, Node PROVE TypeInv'
  OBVIOUS
<1> USE DEF TypeInv, TypeOK, PhaseInv, Phases, Fetching, Following, Fetched
<1>1. NodeTypeOK' /\ finalized <= finalized' /\ finalized \in Nat /\ finalized' \in Nat
  BY NodeMoves DEF NodeTypeOK
<1>2. UNCHANGED <<storeVars, procVars>>
  BY DEF Node
<1>3. StoreTypeOK' /\ ProcTypeOK'
  BY <1>2 DEF StoreTypeOK, ProcTypeOK, storeVars, procVars
<1>4. PhaseInv'
  BY <1>1, <1>2 DEF procVars, ProcTypeOK
<1> QED
  BY <1>1, <1>3, <1>4

LEMMA StutterType == TypeInv /\ UNCHANGED vars => TypeInv'
BY DEF TypeInv, TypeOK, NodeTypeOK, StoreTypeOK, ProcTypeOK, PhaseInv, Fetched, vars, nodeVars,
       storeVars, procVars

\* The actions of the process.
LEMMA NextCases ==
    ASSUME Next
    PROVE  \/ Node \/ Start \/ CheckReorgData \/ TryBlockRange \/ SyncRange \/ SyncOnce
           \/ FetchLogs \/ (\E n \in 1..head : FetchBlock(n)) \/ FetchReceipts \/ MatchLogs
           \/ CheckParent \/ StoreBlock
           \/ (GivenUp \/ Ended \/ CallFails)
BY DEF Next, Process, GivenUp, Ended, FetchBeyondHead, TopicMissing, Crash

LEMMA StepType == TypeInv /\ [Next]_vars => TypeInv'
<1> SUFFICES ASSUME TypeInv, [Next]_vars PROVE TypeInv'
  OBVIOUS
<1>1. CASE UNCHANGED vars
  BY <1>1, StutterType
<1>2. CASE Next
  BY <1>2, NextCases, NodeType, StartType, CheckReorgDataType, TryBlockRangeType, SyncRangeType,
     SyncOnceType, FetchLogsType, FetchBlockType, FetchReceiptsType, MatchLogsType,
     CheckParentType, StoreBlockType, FailureType
<1> QED
  BY <1>1, <1>2

\* In every reachable state the variables of the node, the store and the process
\* have their types, whatever the node does and whichever calls fail.
THEOREM TypeCorrect == Spec => []TypeOK
<1>1. Init => TypeInv
  BY InitTypeInv
<1>2. TypeInv /\ [Next]_vars => TypeInv'
  BY StepType
<1>3. TypeInv => TypeOK
  BY DEF TypeInv
<1> QED
  BY <1>1, <1>2, <1>3, PTL DEF Spec

-----------------------------------------------------------------------------
(* The distance from the head.                                              *)

\* The chain is longer than the configured distance from the start, or a batch is
\* longer than the chain ever gets: then the batch that a tick reads after its
\* subtraction has wrapped around ends beyond the head, and is never complete.
WrapIsFar ==
    /\ InitHead <= MaxHead
    /\ \/ DelayBlocksAgainstLatest <= InitHead
       \/ MaxHead + 1 < BatchSize /\ MaxHead + DelayBlocksAgainstLatest < Uint64Mod

\* What a batch knows of the head.
DelayInv ==
    /\ KeepsDelay
    /\ InitHead <= head /\ head <= MaxHead
    /\ \A n \in DOMAIN batch : n <= head
    /\ phase \in Following \ {"tail"} =>
          endBlock + DelayBlocksAgainstLatest <= head \/ MaxHead < endBlock

LEMMA Regroup ==
    ASSUME NEW a \in Int, NEW b \in Int, NEW d \in Int, a <= b - d
    PROVE  a + d <= b
OBVIOUS

\* The batch of a tick keeps the distance, or is too long to be read.
LEMMA BatchFar ==
    ASSUME WrapIsFar, TypeInv, DelayInv, SyncOnce
    PROVE  endBlock' + DelayBlocksAgainstLatest <= head \/ MaxHead < endBlock'
<1>1. /\ head \in Nat /\ InitHead \in Nat /\ MaxHead \in Nat /\ currentBlock \in Nat
      /\ DelayBlocksAgainstLatest \in Nat /\ BatchSize \in Nat /\ GapLimit \in Nat
      /\ Uint64Mod \in Nat /\ currentBlock <= MaxSyncBlock
  BY DEF TypeInv, TypeOK, NodeTypeOK, ProcTypeOK, SyncOnce
<1>2. CASE DelayBlocksAgainstLatest <= head
  <2>1. MaxSyncBlock = head - DelayBlocksAgainstLatest
    BY <1>2 DEF MaxSyncBlock
  <2>2. endBlock' \in Nat /\ endBlock' <= MaxSyncBlock
    BY BatchEnd
  <2>3. /\ endBlock' <= head - DelayBlocksAgainstLatest
        /\ endBlock' \in Int /\ head \in Int /\ DelayBlocksAgainstLatest \in Int
    BY <1>1, <2>1, <2>2
  <2>4. endBlock' + DelayBlocksAgainstLatest <= head
    BY <2>3, Regroup, Zenon
  <2> QED
    BY <2>4, Zenon
<1>3. CASE ~(DelayBlocksAgainstLatest <= head)
  <2>1. MaxHead + 1 < BatchSize /\ MaxHead + DelayBlocksAgainstLatest < Uint64Mod
    BY <1>1, <1>3 DEF WrapIsFar, DelayInv
  <2>2. /\ MaxSyncBlock = head - DelayBlocksAgainstLatest + Uint64Mod
        /\ MaxHead < MaxSyncBlock
    BY <1>1, <1>3, <2>1 DEF MaxSyncBlock
  <2> DEFINE gap == MaxSyncBlock - currentBlock + 1
  <2>3. endBlock' = Lesser(currentBlock + CalculateBatchSize(gap) - 1, MaxSyncBlock)
    BY DEF SyncOnce
  <2>4. gap \in Nat /\ gap # 0
    BY <1>1, <2>2
  <2>5. CalculateBatchSize(gap) = gap \/ CalculateBatchSize(gap) = BatchSize
    BY <2>4 DEF CalculateBatchSize
  <2>6. \/ currentBlock + CalculateBatchSize(gap) - 1 = MaxSyncBlock
        \/ currentBlock + CalculateBatchSize(gap) - 1 = currentBlock + BatchSize - 1
    BY <1>1, <2>2, <2>5
  <2> HIDE DEF gap
  <2>7. endBlock' = MaxSyncBlock \/ endBlock' = currentBlock + BatchSize - 1
    BY <2>3, <2>6 DEF Lesser
  <2> QED
    BY <1>1, <2>1, <2>2, <2>7
<1> QED
  BY <1>2, <1>3

LEMMA InitDelay == ASSUME WrapIsFar PROVE Init => DelayInv
  BY DEF WrapIsFar, Init, NodeInit, StoreInit, NoBatch, DelayInv, KeepsDelay, Following, Fetching

\* A step that stores nothing keeps the distance.
LEMMA DelayKept ==
    ASSUME TypeInv, KeepsDelay, NodeTypeOK', head <= head', finalized <= finalized',
           DOMAIN blocks' \subseteq DOMAIN blocks
    PROVE  KeepsDelay'
  BY DEF TypeInv, TypeOK, NodeTypeOK, StoreTypeOK, KeepsDelay

\* The rows that are stored keep it.
LEMMA DelayPushed ==
    ASSUME KeepsDelay, NEW n, NEW hash, NEW rows, Push(n, hash, rows), UNCHANGED nodeVars,
           n <= finalized \/ n + DelayBlocksAgainstLatest <= head
    PROVE  KeepsDelay'
  BY DEF KeepsDelay, Push, nodeVars

LEMMA DelayStep ==
    ASSUME WrapIsFar
    PROVE  TypeInv /\ DelayInv /\ [Next]_vars => DelayInv'
<1> SUFFICES ASSUME TypeInv, DelayInv, [Next]_vars PROVE DelayInv'
  OBVIOUS
<1>0. TypeInv'
  BY StepType
<1> USE DEF DelayInv, Following, Fetching
<1>1. CASE Node
  <2>1. NodeTypeOK' /\ head <= head' /\ finalized <= finalized'
    BY <1>1, NodeMoves DEF TypeInv, TypeOK
  <2>2. head' <= MaxHead
    BY <1>1 DEF Node, Mine, Reorg, Finalize, TypeInv, TypeOK, NodeTypeOK
  <2>3. UNCHANGED <<storeVars, procVars>>
    BY <1>1 DEF Node
  <2>4. KeepsDelay'
    BY <2>1, <2>3, DelayKept DEF storeVars
  <2> QED
    BY <2>1, <2>2, <2>3, <2>4 DEF procVars, TypeInv, TypeOK, NodeTypeOK, ProcTypeOK
<1>2. CASE SyncRange
  <2>1. PICK end \in rangeStart..LastOfRange :
           Push(end, CanonicalHash(end), EventsOf(chain, rangeStart, end))
    BY <1>2 DEF SyncRange
  <2>2. end <= finalizedBlock /\ finalizedBlock <= finalized /\ end \in Nat
    BY <1>2, <2>1, SyncRangeEnd DEF SyncRange, TypeInv, PhaseInv
  <2>3. end <= finalized
    BY <2>2 DEF TypeInv, TypeOK, NodeTypeOK, ProcTypeOK
  <2>4. KeepsDelay'
    BY <1>2, <2>1, <2>3, DelayPushed DEF SyncRange
  <2> QED
    BY <1>2, <2>4 DEF SyncRange, nodeVars
<1>3. CASE SyncOnce
  <2>1. endBlock' + DelayBlocksAgainstLatest <= head \/ MaxHead < endBlock'
    BY <1>3, BatchFar
  <2>2. KeepsDelay'
    BY <1>3 DEF SyncOnce, KeepsDelay, nodeVars, storeVars
  <2> QED
    BY <1>3, <2>1, <2>2 DEF SyncOnce, NoBatch, nodeVars
<1>4. CASE \E n \in 1..head : FetchBlock(n)
  <2>1. PICK n \in 1..head : FetchBlock(n)
    BY <1>4
  <2> QED
    BY <2>1 DEF FetchBlock, KeepsDelay, nodeVars, storeVars, TypeInv, TypeOK, NodeTypeOK
<1>5. CASE StoreBlock
  <2>1. /\ phase = "store" /\ Push(currentBlock, batch[currentBlock], LogsOf(currentBlock))
        /\ UNCHANGED <<nodeVars, endBlock, batch>>
    BY <1>5 DEF StoreBlock, StoreRow
  <2>2. endBlock \in DOMAIN batch /\ currentBlock <= endBlock /\ endBlock <= head
    BY <2>1 DEF TypeInv, TypeOK, PhaseInv, ProcTypeOK, Fetched
  <2>3. currentBlock + DelayBlocksAgainstLatest <= head
    BY <2>1, <2>2 DEF TypeInv, TypeOK, NodeTypeOK, ProcTypeOK
  <2>4. KeepsDelay'
    BY <2>1, <2>3, DelayPushed
  <2> QED
    BY <1>5, <2>1, <2>4 DEF StoreBlock, StoreRow, nodeVars
<1>6. CASE CheckReorgData \/ CheckParent
  <2>1. DOMAIN blocks' \subseteq DOMAIN blocks
    BY <1>6 DEF CheckReorgData, CheckParent, Pop, storeVars
  <2>2. UNCHANGED <<nodeVars, endBlock, batch>>
    BY <1>6 DEF CheckReorgData, CheckParent
  <2>3. KeepsDelay'
    BY <1>0, <2>1, <2>2, DelayKept DEF TypeInv, TypeOK, nodeVars, NodeTypeOK
  <2> QED
    BY <1>6, <2>2, <2>3 DEF CheckReorgData, CheckParent, nodeVars
<1>7. CASE Start \/ TryBlockRange \/ FetchLogs \/ FetchReceipts \/ MatchLogs
  BY <1>7 DEF Start, TryBlockRange, FetchLogs, FetchReceipts, MatchLogs, KeepsDelay, nodeVars,
              storeVars
<1>8. CASE GivenUp \/ Ended \/ UNCHANGED vars
  BY <1>8 DEF GivenUp, StoreRefused, EventUnknown, Ended, Ends, NoBatch, KeepsDelay, vars, nodeVars,
              storeVars, procVars
<1>9. CASE CallFails
  <2>1. phase' = "down" \/ phase' = "range" \/ phase' = "tail"
    BY <1>9, Zenon DEF CallFails
  <2> QED
    BY <1>9, <2>1 DEF CallFails, KeepsDelay, nodeVars, storeVars
<1> QED
  BY <1>1, <1>2, <1>3, <1>4, <1>5, <1>6, <1>7, <1>8, <1>9, NextCases

\* The sync process keeps its distance from the head with every block it stores that is
\* not final, for any chain, failures and reorganisations, also where the subtraction
\* in syncOnce wraps around.
THEOREM DelayIsKept == ASSUME WrapIsFar PROVE Spec => []KeepsDelay
<1>1. Init => TypeInv /\ DelayInv
  BY InitTypeInv, InitDelay
<1>2. TypeInv /\ DelayInv /\ [Next]_vars => (TypeInv /\ DelayInv)'
  BY StepType, DelayStep
<1>3. TypeInv /\ DelayInv => KeepsDelay
  BY DEF DelayInv
<1> QED
  BY <1>1, <1>2, <1>3, PTL DEF Spec

-----------------------------------------------------------------------------
(* The branch that is stored: its invariant.                                *)

\* The part of the invariant that does not depend on the phase.
StoreInv ==
    /\ BranchInv
    /\ EventInv
    /\ GapInv
    /\ DenseFrom(finalized)
    /\ ForkInv

-----------------------------------------------------------------------------
(* The store.                                                               *)

\* In an empty store there are no events, and all events lie up to the highest
\* block.
LEMMA EmptyNoEvents ==
    ASSUME EventInv, EmptyStore
    PROVE  events = {}
BY DEF EventInv, EmptyStore

LEMMA EventsUpToMax ==
    ASSUME StoreTypeOK, EventInv, NEW m \in Nat, \A n \in DOMAIN blocks : n <= m
    PROVE  events = EventsUpTo(m)
<1>1. ASSUME NEW e \in events PROVE e.num <= m
  <2>1. PICK n \in DOMAIN blocks : e.num <= n
    BY DEF EventInv
  <2>2. n \in Nat /\ n <= m /\ e.num \in Nat
    BY DEF StoreTypeOK
  <2> QED
    BY <2>1, <2>2
<1> QED
  BY <1>1 DEF EventsUpTo

\* Hashes of one branch: what a stored row says of the rows below it.
LEMMA RowHash ==
    ASSUME StoreTypeOK, NEW m \in DOMAIN blocks
    PROVE  m \in Nat /\ Hash(blocks[m], m) = blocks[m]
<1>1. m \in Nat /\ blocks[m] \in [1..m -> Cell]
  BY DEF StoreTypeOK
<1> QED
  BY <1>1, HashSame

LEMMA EventsOfEmptyRange ==
    ASSUME NEW c, NEW hi \in Nat, hi < F
    PROVE  EventsOf(c, F, hi) = {}
BY FlowAssumption DEF EventsOf, F

\* No event is older than the flow contract.
LEMMA EventsOfFromF ==
    ASSUME NEW c, NEW lo \in Nat, NEW hi \in Nat, lo <= F
    PROVE  EventsOf(c, lo, hi) = EventsOf(c, F, hi)
<1>1. \A n \in Nat : F <= n /\ n \in lo..hi <=> F <= n /\ n \in F..hi
  BY FlowAssumption DEF F
<1>2. ASSUME NEW e PROVE e \in EventsOf(c, lo, hi) <=> e \in EventsOf(c, F, hi)
  BY <1>1, EventsOfMember, FlowAssumption DEF F
<1> QED
  BY <1>2 DEF EventsOf

LEMMA DenseMonotone ==
    ASSUME StoreTypeOK, NEW f \in Nat, NEW g \in Nat, f <= g, DenseFrom(f)
    PROVE  DenseFrom(g)
BY FlowAssumption DEF DenseFrom, StoreTypeOK, F

\* A step that leaves the node and the store alone keeps StoreInv.
LEMMA StoreInvSame ==
    ASSUME StoreInv, UNCHANGED <<nodeVars, storeVars>>
    PROVE  StoreInv'
BY DEF StoreInv, BranchInv, EventInv, EventsUpTo, GapInv, DenseFrom, ForkInv, nodeVars, storeVars,
       CanonicalHash

\* Popping keeps StoreInv when the block below the popped ones is stored.
LEMMA PopKeeps ==
    ASSUME StoreTypeOK, StoreInv, NEW n \in DOMAIN blocks, Pop(n), UNCHANGED nodeVars,
           F < n => n - 1 \in DOMAIN blocks
    PROVE  /\ StoreInv'
           /\ DOMAIN blocks' = {j \in DOMAIN blocks : j < n}
           /\ \A j \in DOMAIN blocks' : blocks'[j] = blocks[j]
<1>1. n \in Nat /\ DOMAIN blocks \subseteq Nat
  BY DEF StoreTypeOK
<1>2. /\ DOMAIN blocks' = {j \in DOMAIN blocks : j < n}
      /\ \A j \in DOMAIN blocks' : blocks'[j] = blocks[j]
      /\ events' = {e \in events : e.num < n}
  <2>1. n <= n
    BY <1>1
  <2> QED
    BY <2>1 DEF Pop
<1>3. BranchInv'
  BY <1>1, <1>2 DEF StoreInv, BranchInv
<1>4. EventInv'
  <2>1. ASSUME NEW e \in events'
        PROVE  F <= e.num /\ \E m \in DOMAIN blocks' : e.num <= m
    <3>1. e \in events /\ e.num < n /\ F <= e.num /\ e.num \in Nat
      BY <1>2 DEF StoreInv, EventInv, StoreTypeOK
    <3>2. n - 1 \in DOMAIN blocks' /\ e.num <= n - 1
      BY <1>1, <1>2, <3>1, FlowAssumption DEF F
    <3> QED
      BY <3>1, <3>2
  <2>2. ASSUME NEW m \in DOMAIN blocks'
        PROVE  EventsUpTo(m)' = EventsOf(blocks'[m], F, m)
    <3>1. m \in DOMAIN blocks /\ m < n /\ m \in Nat /\ blocks'[m] = blocks[m]
      BY <1>1, <1>2
    <3>2. EventsUpTo(m)' = EventsUpTo(m)
      BY <1>1, <1>2, <3>1 DEF EventsUpTo, StoreTypeOK
    <3> QED
      BY <3>1, <3>2 DEF StoreInv, EventInv
  <2> QED
    BY <2>1, <2>2 DEF EventInv
<1>5. GapInv'
  <2> SUFFICES ASSUME NEW k \in DOMAIN blocks', F < k
               PROVE  \/ k - 1 \in DOMAIN blocks'
                      \/ k <= finalized' /\ blocks'[k] = CanonicalHash(k)'
    BY DEF GapInv
  <2>1. k \in DOMAIN blocks /\ k \in Nat /\ k < n /\ blocks'[k] = blocks[k]
    BY <1>1, <1>2
  <2>2. finalized' = finalized /\ CanonicalHash(k)' = CanonicalHash(k)
    BY DEF nodeVars, CanonicalHash
  <2> QED
    BY <1>1, <1>2, <2>1, <2>2 DEF StoreInv, GapInv
<1>6. DenseFrom(finalized)'
  BY <1>1, <1>2, FlowAssumption DEF StoreInv, DenseFrom, nodeVars, F
<1>7. ForkInv'
  BY <1>2 DEF StoreInv, ForkInv, nodeVars
<1> QED
  BY <1>2, <1>3, <1>4, <1>5, <1>6, <1>7 DEF StoreInv

\* Popping never breaks the density above an older block.
LEMMA PopDense ==
    ASSUME StoreTypeOK, NEW n \in DOMAIN blocks, NEW f \in Nat, DenseFrom(f),
           DOMAIN blocks' = {j \in DOMAIN blocks : j < n}
    PROVE  \A k \in DOMAIN blocks' : \A m \in F..k : f <= m => m \in DOMAIN blocks'
BY FlowAssumption DEF StoreTypeOK, DenseFrom, F

-----------------------------------------------------------------------------
(* Start of the process.                                                    *)

\* The conjuncts of the invariant that speak of the phase.
StageInv == CatchupInv /\ FollowInv /\ BatchInv

LEMMA StartKeeps ==
    ASSUME IInv, Start
    PROVE  StoreInv' /\ StageInv'
<1>1. StoreInv'
  BY StoreInvSame DEF IInv, StoreInv, Start
<1>2. phase' \in {"down", "check"}
  BY DEF Start
<1>3. StageInv'
  <2>1. phase' \notin {"range", "catchup"} /\ phase' \notin Following
    BY <1>2 DEF Following, Fetching
  <2> QED
    BY <1>2, <2>1 DEF StageInv, CatchupInv, FollowInv, BatchInv, BatchBlocks, BatchParent,
       BatchCanonical, LogsFirst, ReceiptsRead, BatchReady, Following, Fetching
<1> QED
  BY <1>1, <1>3

\* When the highest block is canonical, so is every stored block.
LEMMA CanonicalTip ==
    ASSUME TypeOK, BranchInv, NEW m \in DOMAIN blocks, IsMaxBlock(m), blocks[m] = CanonicalHash(m)
    PROVE  AllLive
<1> SUFFICES ASSUME NEW n \in DOMAIN blocks, F <= n
             PROVE  blocks[n] = CanonicalHash(n)
  BY DEF AllLive
<1>1. m \in Nat /\ n \in Nat /\ n <= m
  BY DEF TypeOK, StoreTypeOK, IsMaxBlock
<1>2. blocks[n] = Hash(Hash(chain, m), n)
  BY <1>1 DEF BranchInv, CanonicalHash
<1> QED
  BY <1>1, <1>2, HashHash DEF CanonicalHash

LEMMA CheckReorgDataKeeps ==
    ASSUME IInv, CheckReorgData
    PROVE  StoreInv' /\ StageInv'
<1>1. CASE EmptyStore /\ phase' = "range" /\ UNCHANGED <<storeVars, currentBlock>>
  <2>1. StoreInv'
    BY <1>1, StoreInvSame DEF IInv, StoreInv, CheckReorgData
  <2>2. CatchupInv'
    BY <1>1 DEF CatchupInv, AllLive, EmptyStore, storeVars
  <2>3. BatchInv' /\ FollowInv'
    BY <1>1 DEF FollowInv, BatchInv, BatchBlocks, BatchParent,
       BatchCanonical, LogsFirst, ReceiptsRead, BatchReady, Following, Fetching
  <2> QED
    BY <2>1, <2>2, <2>3 DEF StageInv
<1>2. ASSUME NEW m \in DOMAIN blocks, IsMaxBlock(m), blocks[m] = CanonicalHash(m),
             phase' = "range", UNCHANGED <<storeVars, currentBlock>>
      PROVE  StoreInv' /\ StageInv'
  <2>1. StoreInv'
    BY <1>2, StoreInvSame DEF IInv, StoreInv, CheckReorgData
  <2>2. AllLive
    BY <1>2, CanonicalTip DEF IInv
  <2>3. CatchupInv'
    BY <1>2, <2>2 DEF CatchupInv, AllLive, CheckReorgData, storeVars, nodeVars, CanonicalHash
  <2>4. BatchInv' /\ FollowInv'
    BY <1>2 DEF FollowInv, BatchInv, BatchBlocks, BatchParent,
       BatchCanonical, LogsFirst, ReceiptsRead, BatchReady, Following, Fetching
  <2> QED
    BY <2>1, <2>3, <2>4 DEF StageInv
<1>3. ASSUME NEW m \in DOMAIN blocks, IsMaxBlock(m), blocks[m] # CanonicalHash(m),
             Pop(m), phase' = phase
      PROVE  StoreInv' /\ StageInv'
  <2>1. UNCHANGED nodeVars /\ phase' = "check"
    BY <1>3 DEF CheckReorgData
  <2>2. F < m => m - 1 \in DOMAIN blocks
    BY <1>3 DEF IInv, GapInv
  <2>3. StoreInv'
    BY <1>3, <2>1, <2>2, PopKeeps DEF IInv, TypeOK, StoreInv
  <2>4. StageInv'
    <3>1. phase' \notin {"range", "catchup"} /\ phase' \notin Following
      BY <2>1 DEF Following, Fetching
    <3> QED
      BY <2>1, <3>1 DEF StageInv, CatchupInv, FollowInv, BatchInv, BatchBlocks, BatchParent,
         BatchCanonical, LogsFirst, ReceiptsRead, BatchReady, Following, Fetching
  <2> QED
    BY <2>3, <2>4
<1> QED
  BY <1>1, <1>2, <1>3 DEF CheckReorgData

-----------------------------------------------------------------------------
(* The catch-up.                                                            *)

\* Where the catch-up starts, relative to the rows.
LEMMA FirstMissingIs ==
    ASSUME StoreTypeOK, NEW b, FirstMissing(b)
    PROVE  /\ b \in Nat
           /\ \A n \in DOMAIN blocks : n < b
           /\ IF EmptyStore THEN b = F ELSE b - 1 \in DOMAIN blocks
<1>1. CASE EmptyStore /\ b = BlockWhenFlowCreated
  BY <1>1, FlowAssumption DEF EmptyStore, F
<1>2. ASSUME NEW m \in DOMAIN blocks, IsMaxBlock(m), b = m + 1
      PROVE  /\ b \in Nat
             /\ \A n \in DOMAIN blocks : n < b
             /\ ~EmptyStore /\ b - 1 \in DOMAIN blocks
  <2>1. m \in Nat /\ DOMAIN blocks \subseteq Nat /\ \A n \in DOMAIN blocks : n <= m
    BY <1>2 DEF StoreTypeOK, IsMaxBlock
  <2>2. b - 1 = m
    BY <1>2, <2>1
  <2> QED
    BY <1>2, <2>1, <2>2 DEF EmptyStore
<1> QED
  BY <1>1, <1>2 DEF FirstMissing

LEMMA TryBlockRangeKeeps ==
    ASSUME IInv, TryBlockRange
    PROVE  StoreInv' /\ StageInv'
<1>1. StoreInv'
  BY StoreInvSame DEF IInv, StoreInv, TryBlockRange
<1>2. PICK b : /\ FirstMissing(b)
               /\ rangeStart' = b
               /\ IF b <= finalized
                  THEN phase' = "catchup" /\ UNCHANGED currentBlock
                  ELSE phase' = "tail" /\ currentBlock' = finalized + 1
  BY DEF TryBlockRange
<1>3. /\ b \in Nat
      /\ \A n \in DOMAIN blocks : n < b
      /\ IF EmptyStore THEN b = F ELSE b - 1 \in DOMAIN blocks
  BY <1>2, FirstMissingIs DEF IInv, TypeOK
<1>4. AllLive /\ finalizedBlock' = finalized
  BY DEF TryBlockRange, IInv, CatchupInv
<1>5. UNCHANGED <<head, chain, finalized, blocks>>
  BY DEF TryBlockRange, nodeVars, storeVars
<1>6. finalized \in Nat /\ finalized <= head
  BY DEF IInv, TypeOK, NodeTypeOK
<1>7. CASE b <= finalized
  <2>1. phase' = "catchup"
    BY <1>2, <1>7
  <2>2. CatchupInv'
    BY <1>2, <1>3, <1>4, <1>5, <1>7, <2>1 DEF CatchupInv, AllLive, EmptyStore, CanonicalHash
  <2>3. BatchInv' /\ FollowInv'
    BY <2>1 DEF FollowInv, BatchInv, BatchBlocks, BatchParent,
       BatchCanonical, LogsFirst, ReceiptsRead, BatchReady, Following, Fetching
  <2> QED
    BY <1>1, <2>2, <2>3 DEF StageInv
<1>8. CASE ~(b <= finalized)
  <2>1. phase' = "tail" /\ currentBlock' = finalized + 1
    BY <1>2, <1>8
  <2>2. CatchupInv' /\ BatchInv'
    BY <2>1 DEF CatchupInv, BatchInv, BatchBlocks, BatchParent,
       BatchCanonical, LogsFirst, ReceiptsRead, BatchReady, Following, Fetching
  <2>3. F <= finalized => finalized \in DOMAIN blocks
    <3> SUFFICES ASSUME F <= finalized PROVE finalized \in DOMAIN blocks
      OBVIOUS
    <3>1. ~EmptyStore /\ b - 1 \in DOMAIN blocks /\ finalized <= b - 1
      BY <1>3, <1>6, <1>8
    <3>2. DenseFrom(finalized) /\ b - 1 \in Nat /\ F \in Nat
      BY <1>3, <3>1, FlowAssumption DEF IInv, TypeOK, StoreTypeOK, F
    <3>3. finalized \in F..(b - 1)
      BY <1>6, <3>1, <3>2
    <3> QED
      BY <1>6, <3>1, <3>2, <3>3 DEF DenseFrom
  <2>4. FollowInv'
    <3>1. DenseFrom(finalizedBlock)'
      BY <1>4, <1>5 DEF IInv, DenseFrom
    <3>2. F < currentBlock' => currentBlock' - 1 \in DOMAIN blocks'
      BY <1>5, <1>6, <2>1, <2>3, FlowAssumption DEF F
    <3>3. F <= finalized => blocks[finalized] = CanonicalHash(finalized)
      BY <1>4, <2>3 DEF AllLive
    <3> QED
      BY <1>4, <1>5, <1>6, <2>1, <2>3, <3>1, <3>2, <3>3 DEF FollowInv, CanonicalHash
  <2> QED
    BY <1>1, <2>2, <2>4 DEF StageInv
<1> QED
  BY <1>7, <1>8

\* A range is pushed above every row, up to a final block.
LEMMA RangeFacts ==
    ASSUME IInv, SyncRange, NEW end \in rangeStart..LastOfRange
    PROVE  /\ end \in Nat /\ rangeStart \in Nat /\ rangeStart <= end /\ end <= finalizedBlock
           /\ finalizedBlock \in Nat /\ finalizedBlock <= finalized
           /\ finalized \in Nat /\ finalized <= head /\ head \in Nat
           /\ \A n \in DOMAIN blocks : n \in Nat /\ n < rangeStart
           /\ AllLive
<1>1. TypeInv /\ phase = "catchup" /\ CatchupInv
  BY DEF IInv, TypeInv, SyncRange
<1>2. end \in Nat /\ rangeStart <= end /\ end <= finalizedBlock /\ finalizedBlock <= head
  BY <1>1, SyncRangeEnd
<1>3. rangeStart \in Nat /\ finalizedBlock \in Nat /\ finalizedBlock <= finalized
  BY <1>1 DEF TypeInv, TypeOK, ProcTypeOK, PhaseInv
<1>4. finalized \in Nat /\ finalized <= head /\ head \in Nat /\ DOMAIN blocks \subseteq Nat
  BY <1>1 DEF TypeInv, TypeOK, NodeTypeOK, StoreTypeOK
<1> QED
  BY <1>1, <1>2, <1>3, <1>4 DEF CatchupInv

\* Before the range is pushed, the events are the canonical ones below it.
LEMMA EventsBelowRange ==
    ASSUME IInv, SyncRange, NEW end \in rangeStart..LastOfRange
    PROVE  events \cup EventsOf(chain, rangeStart, end) = EventsOf(chain, F, end)
<1>1. /\ end \in Nat /\ rangeStart \in Nat /\ rangeStart <= end
      /\ \A n \in DOMAIN blocks : n \in Nat /\ n < rangeStart
      /\ AllLive
  BY RangeFacts
<1>2. IF EmptyStore THEN rangeStart = F ELSE rangeStart - 1 \in DOMAIN blocks
  BY DEF IInv, CatchupInv, SyncRange
<1>3. EventInv /\ StoreTypeOK /\ F \in Nat
  BY FlowAssumption DEF IInv, TypeOK, F
<1>4. CASE EmptyStore
  BY <1>2, <1>3, <1>4, EmptyNoEvents
<1>5. CASE ~EmptyStore
  <2> DEFINE k == rangeStart - 1
  <2>1. k \in DOMAIN blocks /\ k \in Nat /\ rangeStart = k + 1
    BY <1>1, <1>2, <1>5
  <2>2. \A n \in DOMAIN blocks : n <= k
    BY <1>1, <2>1
  <2>3. events = EventsOf(blocks[k], F, k)
    BY <1>3, <2>1, <2>2, EventsUpToMax DEF EventInv
  <2>4. CASE F <= k
    <3>1. Hash(blocks[k], k) = Hash(chain, k)
      BY <1>1, <2>1, <2>4, HashHash DEF AllLive, CanonicalHash
    <3>2. events = EventsOf(chain, F, k)
      BY <1>3, <2>1, <2>3, <3>1, EventsOfHash
    <3>3. EventsOf(chain, F, end) = EventsOf(chain, F, k) \cup EventsOf(chain, k + 1, end)
      <4>1. F <= k + 1 /\ k + 1 <= end + 1 /\ k + 1 \in Nat /\ (k + 1) - 1 = k
        BY <1>1, <1>3, <2>1, <2>4
      <4> QED
        BY <1>1, <1>3, <4>1, EventsOfSplit
    <3> QED
      BY <2>1, <3>2, <3>3
  <2>5. CASE k < F
    <3>1. events = {}
      BY <2>1, <2>3, <2>5, EventsOfEmptyRange
    <3>2. EventsOf(chain, rangeStart, end) = EventsOf(chain, F, end)
      BY <1>1, <1>3, <2>1, <2>5, EventsOfFromF
    <3> QED
      BY <3>1, <3>2
  <2> QED
    BY <1>3, <2>1, <2>4, <2>5
<1> QED
  BY <1>4, <1>5

LEMMA SyncRangeKeeps ==
    ASSUME IInv, SyncRange
    PROVE  StoreInv' /\ StageInv'
<1>1. PICK end \in rangeStart..LastOfRange :
         /\ Push(end, CanonicalHash(end), EventsOf(chain, rangeStart, end))
         /\ IF end >= finalizedBlock
            THEN phase' = "range" /\ UNCHANGED rangeStart
            ELSE rangeStart' = end + 1 /\ UNCHANGED phase
  BY DEF SyncRange
<1>2. /\ end \in Nat /\ rangeStart \in Nat /\ rangeStart <= end /\ end <= finalizedBlock
      /\ finalizedBlock \in Nat /\ finalizedBlock <= finalized
      /\ finalized \in Nat /\ finalized <= head /\ head \in Nat
      /\ \A n \in DOMAIN blocks : n \in Nat /\ n < rangeStart
      /\ AllLive
  BY RangeFacts
<1>3. /\ UNCHANGED <<head, chain, finalized, reorgs, finalizedBlock>>
      /\ phase = "catchup"
  BY DEF SyncRange, nodeVars
<1>4. /\ DOMAIN blocks' = DOMAIN blocks \cup {end}
      /\ blocks'[end] = CanonicalHash(end)
      /\ \A n \in DOMAIN blocks : blocks'[n] = blocks[n] /\ n < end
      /\ events' = events \cup EventsOf(chain, rangeStart, end)
  BY <1>1, <1>2 DEF Push
<1>5. F \in Nat
  BY FlowAssumption DEF F
<1>6. AllLive'
  BY <1>2, <1>3, <1>4 DEF AllLive, CanonicalHash
<1>7. BranchInv'
  <2> SUFFICES ASSUME NEW n \in DOMAIN blocks', NEW m \in DOMAIN blocks', F <= n, n <= m
               PROVE  blocks'[n] = Hash(blocks'[m], n)
    BY DEF BranchInv
  <2>1. n \in Nat /\ m \in Nat /\ F <= m
    BY <1>2, <1>4, <1>5
  <2>2. blocks'[n] = Hash(chain, n) /\ blocks'[m] = Hash(chain, m)
    BY <1>3, <1>6, <2>1 DEF AllLive, CanonicalHash
  <2> QED
    BY <2>1, <2>2, HashHash
<1>8. EventInv'
  <2>1. ASSUME NEW e \in events'
        PROVE  F <= e.num /\ \E m \in DOMAIN blocks' : e.num <= m
    <3>1. CASE e \in events
      BY <1>4, <3>1 DEF IInv, EventInv
    <3>2. CASE e \in EventsOf(chain, rangeStart, end)
      <4>1. PICK n \in rangeStart..end : F <= n /\ e = [num |-> n, hash |-> Hash(chain, n)]
        BY <3>2, EventsOfMember
      <4>2. e.num = n /\ n <= end
        BY <1>2, <4>1
      <4> QED
        BY <1>4, <4>1, <4>2
    <3> QED
      BY <1>4, <3>1, <3>2
  <2>2. ASSUME NEW m \in DOMAIN blocks'
        PROVE  EventsUpTo(m)' = EventsOf(blocks'[m], F, m)
    <3>1. CASE m = end
      <4>1. events' = EventsOf(chain, F, end)
        BY <1>4, EventsBelowRange
      <4>2. ASSUME NEW e \in events' PROVE e.num <= end
        <5>1. PICK n \in F..end : e = [num |-> n, hash |-> Hash(chain, n)]
          BY <4>1, EventsOfMember
        <5> QED
          BY <1>2, <1>5, <5>1
      <4>4. EventsUpTo(end)' = events'
        BY <4>2 DEF EventsUpTo
      <4>5. Hash(blocks'[end], end) = Hash(chain, end)
        BY <1>2, <1>4, HashHash DEF CanonicalHash
      <4>6. EventsOf(blocks'[end], F, end) = EventsOf(chain, F, end)
        BY <1>2, <1>5, <4>5, EventsOfHash
      <4> QED
        BY <3>1, <4>1, <4>4, <4>6
    <3>2. CASE m # end
      <4>1. m \in DOMAIN blocks /\ m \in Nat /\ m < rangeStart /\ blocks'[m] = blocks[m]
        BY <1>2, <1>4, <3>2
      <4>2. ASSUME NEW e \in EventsOf(chain, rangeStart, end) PROVE ~(e.num <= m)
        <5>1. PICK n \in rangeStart..end : e = [num |-> n, hash |-> Hash(chain, n)]
          BY EventsOfMember
        <5> QED
          BY <1>2, <4>1, <5>1
      <4>3. EventsUpTo(m)' = EventsUpTo(m)
        BY <1>4, <4>2 DEF EventsUpTo
      <4> QED
        BY <4>1, <4>3 DEF IInv, EventInv
    <3> QED
      BY <3>1, <3>2
  <2> QED
    BY <2>1, <2>2 DEF EventInv
<1>9. GapInv'
  <2> SUFFICES ASSUME NEW k \in DOMAIN blocks', F < k
               PROVE  \/ k - 1 \in DOMAIN blocks'
                      \/ k <= finalized' /\ blocks'[k] = CanonicalHash(k)'
    BY DEF GapInv
  <2>1. CASE k = end
    BY <1>2, <1>3, <1>4, <2>1 DEF CanonicalHash
  <2>2. CASE k # end
    BY <1>3, <1>4, <2>2 DEF IInv, GapInv, CanonicalHash
  <2> QED
    BY <2>1, <2>2
<1>10. DenseFrom(finalized)'
  <2> SUFFICES ASSUME NEW n \in DOMAIN blocks', NEW m \in F..n, finalized <= m
               PROVE  m \in DOMAIN blocks'
    BY <1>3 DEF DenseFrom
  <2>1. n \in Nat /\ n <= end /\ m \in Nat
    BY <1>2, <1>4, <1>5
  <2>2. m = end
    BY <1>2, <1>5, <2>1
  <2> QED
    BY <1>4, <2>2
<1>11. ForkInv'
  <2>1. end <= head /\ \A i \in 1..end : CanonicalHash(end)[i] = chain[i] /\ i \in 1..head
    BY <1>2, HashApply DEF CanonicalHash
  <2>2. \A i \in 1..end : blocks'[end][i].fork <= reorgs
    BY <1>4, <2>1 DEF IInv, ForkInv
  <2> QED
    BY <1>3, <1>4, <2>1, <2>2 DEF IInv, ForkInv
<1>12. CatchupInv'
  <2>1. CASE end >= finalizedBlock
    BY <1>1, <1>6, <2>1 DEF CatchupInv
  <2>2. CASE ~(end >= finalizedBlock)
    <3>1. rangeStart' = end + 1 /\ phase' = "catchup"
      BY <1>1, <1>3, <2>2
    <3>2. rangeStart' <= finalizedBlock' /\ rangeStart' - 1 = end
      BY <1>2, <1>3, <2>2, <3>1
    <3>3. \A n \in DOMAIN blocks' : n < rangeStart'
      BY <1>2, <1>4, <3>1
    <3>4. ~EmptyStore' /\ rangeStart' - 1 \in DOMAIN blocks'
      BY <1>4, <3>2 DEF EmptyStore
    <3> QED
      BY <1>6, <3>2, <3>3, <3>4 DEF CatchupInv
  <2> QED
    BY <2>1, <2>2
<1>13. FollowInv' /\ BatchInv'
  <2>1. phase' \in {"range", "catchup"}
    BY <1>1, <1>3
  <2> QED
    BY <2>1 DEF FollowInv, BatchInv, BatchBlocks, BatchParent,
       BatchCanonical, LogsFirst, ReceiptsRead, BatchReady, Following, Fetching
<1> QED
  BY <1>7, <1>8, <1>9, <1>10, <1>11, <1>12, <1>13 DEF StoreInv, StageInv

-----------------------------------------------------------------------------
(* Reading a batch.                                                         *)

\* A step of the syncer that leaves the node, the store and the place of the
\* syncer alone keeps FollowInv.
LEMMA FollowSame ==
    ASSUME FollowInv, phase \in Following,
           UNCHANGED <<nodeVars, storeVars, currentBlock, finalizedBlock>>
    PROVE  FollowInv'
BY DEF FollowInv, DenseFrom, CanonicalHash, nodeVars, storeVars

LEMMA CatchupDone ==
    ASSUME phase' \in Following
    PROVE  CatchupInv'
BY DEF CatchupInv, Following, Fetching

LEMMA NoBatchYet ==
    ASSUME phase' = "tail"
    PROVE  BatchInv'
BY DEF BatchInv, BatchBlocks, BatchParent,
   BatchCanonical, LogsFirst, ReceiptsRead, BatchReady, Following, Fetching

\* A step that only moves the syncer back to waiting for its next tick.
LEMMA GiveUpKeeps ==
    ASSUME IInv, phase \in Following, phase' = "tail",
           UNCHANGED <<nodeVars, storeVars, currentBlock, finalizedBlock>>
    PROVE  StoreInv' /\ StageInv'
<1>1. StoreInv'
  BY StoreInvSame DEF IInv, StoreInv
<1>2. phase' \in Following
  BY DEF Following
<1> QED
  BY <1>1, <1>2, FollowSame, CatchupDone, NoBatchYet DEF IInv, StageInv

\* In by-logs mode a batch stays below the head.
LEMMA BatchBelowHead ==
    ASSUME Stable, IInv, SyncOnce, ByLogs
    PROVE  endBlock' <= head
<1>1. TypeInv
  BY DEF IInv, TypeInv
<1>2. /\ head \in Nat /\ InitHead \in Nat /\ DelayBlocksAgainstLatest \in Nat
      /\ InitHead <= head /\ DelayBlocksAgainstLatest <= InitHead
  BY InitHeadAssumption, Uint64Assumption DEF Stable, IInv, TypeOK, NodeTypeOK, ForkInv
<1>3. MaxSyncBlock \in Nat /\ MaxSyncBlock <= head
  BY <1>2 DEF MaxSyncBlock
<1> QED
  BY <1>1, <1>2, <1>3, BatchEnd

LEMMA SyncOnceKeeps ==
    ASSUME Stable, IInv, SyncOnce
    PROVE  StoreInv' /\ StageInv'
<1>1. /\ phase = "tail"
      /\ batch' = NoBatch /\ batchLogs' = {}
      /\ phase' = IF ByLogs THEN "logs" ELSE "blocks"
      /\ UNCHANGED <<nodeVars, storeVars, currentBlock, finalizedBlock>>
  BY DEF SyncOnce
<1>2. phase \in Following /\ phase' \in Following
  BY <1>1 DEF Following, Fetching
<1>3. StoreInv' /\ FollowInv' /\ CatchupInv'
  BY <1>1, <1>2, StoreInvSame, FollowSame, CatchupDone DEF IInv, StoreInv
<1>4. BatchInv'
  <2>1. DOMAIN batch' = {}
    BY <1>1 DEF NoBatch
  <2>2. ByLogs => endBlock' <= head'
    BY <1>1, BatchBelowHead DEF nodeVars
  <2>3. BatchBlocks' /\ BatchParent' /\ BatchCanonical'
    BY <2>1 DEF BatchBlocks, BatchParent, BatchCanonical
  <2>4. LogsFirst'
    BY <1>1, <2>2 DEF LogsFirst
  <2>5. ReceiptsRead' /\ BatchReady'
    BY <1>1 DEF ReceiptsRead, BatchReady
  <2> QED
    BY <2>3, <2>4, <2>5 DEF BatchInv
<1> QED
  BY <1>3, <1>4 DEF StageInv

LEMMA FetchLogsKeeps ==
    ASSUME IInv, FetchLogs
    PROVE  StoreInv' /\ StageInv'
<1>1. /\ phase = "logs" /\ phase' = "blocks" /\ ByLogs
      /\ batchLogs' = EventsOf(chain, currentBlock, Lesser(endBlock, head))
      /\ UNCHANGED <<nodeVars, storeVars, currentBlock, finalizedBlock, endBlock, batch>>
  BY DEF FetchLogs, IInv, PhaseInv
<1>2. phase \in Following /\ phase' \in Following
  BY <1>1 DEF Following, Fetching
<1>3. StoreInv' /\ FollowInv' /\ CatchupInv'
  BY <1>1, <1>2, StoreInvSame, FollowSame, CatchupDone DEF IInv, StoreInv
<1>4. BatchInv'
  <2>1. phase \in Fetching /\ phase \in Following \ {"tail"} /\ BatchInv
    BY <1>1 DEF Following, Fetching, IInv
  <2>2. BatchBlocks' /\ BatchParent' /\ BatchCanonical'
    BY <1>1, <2>1 DEF BatchInv, BatchBlocks, BatchParent, BatchCanonical, nodeVars, storeVars,
       CanonicalHash, Live
  <2>3. endBlock <= head /\ endBlock \in Nat /\ head \in Nat
    BY <1>1, <2>1 DEF BatchInv, LogsFirst, IInv, TypeOK, NodeTypeOK, ProcTypeOK
  <2>4. Lesser(endBlock, head) = endBlock
    BY <2>3 DEF Lesser
  <2>5. LogsFirst'
    BY <1>1, <2>3, <2>4 DEF LogsFirst, nodeVars
  <2>6. ReceiptsRead' /\ BatchReady'
    BY <1>1 DEF ReceiptsRead, BatchReady
  <2> QED
    BY <2>2, <2>5, <2>6 DEF BatchInv
<1> QED
  BY <1>3, <1>4 DEF StageInv

LEMMA FetchBlockKeeps ==
    ASSUME IInv, NEW n \in 1..head, FetchBlock(n)
    PROVE  StoreInv' /\ StageInv'
<1>1. /\ phase = "blocks" /\ phase' = "blocks"
      /\ n \in currentBlock..Lesser(endBlock, head)
      /\ DOMAIN batch' = DOMAIN batch \cup {n} /\ batch'[n] = CanonicalHash(n)
      /\ \A m \in DOMAIN batch : m # n /\ batch'[m] = batch[m]
      /\ UNCHANGED <<nodeVars, storeVars, currentBlock, finalizedBlock, endBlock, batchLogs>>
  BY DEF FetchBlock
<1>2. phase \in Following /\ phase' \in Following
  BY <1>1 DEF Following, Fetching
<1>3. StoreInv' /\ FollowInv' /\ CatchupInv'
  BY <1>1, <1>2, StoreInvSame, FollowSame, CatchupDone DEF IInv, StoreInv
<1>4. BatchInv'
  <2>1. phase \in Fetching /\ phase \in Following \ {"tail"} /\ BatchInv
    BY <1>1 DEF Following, Fetching, IInv
  <2>2. /\ finalizedBlock \in Nat /\ currentBlock \in Nat /\ n \in Nat /\ endBlock \in Nat
        /\ finalizedBlock < currentBlock /\ currentBlock <= n /\ n <= endBlock /\ n <= head
    BY <1>1, <1>2 DEF IInv, FollowInv, TypeOK, NodeTypeOK, ProcTypeOK, Lesser
  <2>3. UNCHANGED <<head, chain, reorgs, blocks>>
    BY <1>1 DEF nodeVars, storeVars
  <2>4. BatchBlocks'
    <3>1. Hash(CanonicalHash(n), finalizedBlock) = CanonicalHash(finalizedBlock)
      BY <2>2, HashHash DEF CanonicalHash
    <3>2. \A i \in 1..n : CanonicalHash(n)[i].fork <= reorgs
      BY <2>2, HashApply DEF CanonicalHash, IInv, ForkInv, TypeOK, NodeTypeOK
    <3>3. CanonicalHash(finalizedBlock)' = CanonicalHash(finalizedBlock)
      BY <1>1, <2>3 DEF CanonicalHash
    <3> QED
      BY <1>1, <2>1, <2>2, <2>3, <3>1, <3>2, <3>3 DEF BatchInv, BatchBlocks
  <2>5. BatchParent'
    <3> SUFFICES ASSUME currentBlock - 1 \in DOMAIN blocks, Live(currentBlock - 1)
                 PROVE  \A m \in DOMAIN batch' :
                           Hash(batch'[m], currentBlock - 1) = blocks[currentBlock - 1]
      BY <1>1, <2>3 DEF BatchParent, Live, CanonicalHash
    <3>1. currentBlock - 1 \in Nat /\ currentBlock - 1 <= n
      BY <2>2
    <3>2. Hash(CanonicalHash(n), currentBlock - 1) = CanonicalHash(currentBlock - 1)
      BY <2>2, <3>1, HashHash DEF CanonicalHash
    <3> QED
      BY <1>1, <2>1, <3>2 DEF BatchInv, BatchParent, Live
  <2>6. BatchCanonical'
    BY <1>1, <2>1, <2>3 DEF BatchInv, BatchCanonical, CanonicalHash
  <2>7. LogsFirst'
    BY <1>1, <2>1, <2>3 DEF BatchInv, LogsFirst
  <2>8. ReceiptsRead' /\ BatchReady'
    BY <1>1 DEF ReceiptsRead, BatchReady
  <2> QED
    BY <2>4, <2>5, <2>6, <2>7, <2>8 DEF BatchInv
<1> QED
  BY <1>3, <1>4 DEF StageInv

\* A receipt read that agrees with its block shows that the block is canonical
\* at that moment.
LEMMA ReceiptsCanonical ==
    ASSUME Stable, IInv, FetchReceipts, ReceiptsAgree(receiptsAt)
    PROVE  batch[receiptsAt] = CanonicalHash(receiptsAt)
<1>1. /\ receiptsAt \in DOMAIN batch /\ receiptsAt \in Nat
      /\ currentBlock <= receiptsAt /\ currentBlock \in Nat
  BY ReceiptsBlock DEF IInv, TypeInv, TypeOK, ProcTypeOK
<1>2. phase \in Fetching /\ phase \in Following \ {"tail"} /\ phase \in Following
  BY DEF FetchReceipts, Following, Fetching
<1>3. CASE ~ReorgDuringFetch
  BY <1>1, <1>2, <1>3 DEF IInv, BatchInv, BatchCanonical
<1>4. CASE ReorgDuringFetch
  <2>1. receiptsAt <= head /\ 1 <= receiptsAt
    BY <1>1, <1>2 DEF IInv, BatchInv, BatchBlocks, FollowInv, TypeOK, ProcTypeOK
  <2>2. chain[receiptsAt].kind # "empty"
    BY <1>1, <1>4, <2>1 DEF Stable, IInv, TypeOK, NodeTypeOK, Cell
  <2> QED
    BY <2>2 DEF ReceiptsAgree
<1> QED
  BY <1>3, <1>4

LEMMA FetchReceiptsKeeps ==
    ASSUME Stable, IInv, FetchReceipts
    PROVE  StoreInv' /\ StageInv'
<1>1. /\ phase \in {"blocks", "receipts"} /\ phase \in Following
      /\ phase \in Following \ {"tail"} /\ phase \in Fetching
      /\ UNCHANGED <<nodeVars, storeVars, currentBlock, finalizedBlock, endBlock, batch>>
  BY DEF FetchReceipts, Following, Fetching
<1>2. /\ receiptsAt \in currentBlock..endBlock /\ receiptsAt \in DOMAIN batch
      /\ receiptsAt \in Nat /\ batch[receiptsAt] \in [1..receiptsAt -> Cell] /\ Fetched
      /\ currentBlock \in Nat /\ endBlock \in Nat
  BY ReceiptsBlock DEF IInv, TypeInv, TypeOK, ProcTypeOK
<1>3. CASE ~ReceiptsAgree(receiptsAt)
  <2>1. phase' = "tail"
    BY <1>3 DEF FetchReceipts
  <2> QED
    BY <1>1, <2>1, GiveUpKeeps
<1>4. CASE ReceiptsAgree(receiptsAt)
  <2>1. /\ phase' = (IF receiptsAt = endBlock THEN "parent" ELSE "receipts")
        /\ receiptsAt' = receiptsAt + 1
        /\ batchLogs' = batchLogs \cup EventsOf(batch[receiptsAt], receiptsAt, receiptsAt)
    BY <1>4 DEF FetchReceipts
  <2>2. phase' \in Following /\ phase' \in {"receipts", "parent"}
    BY <2>1 DEF Following, Fetching
  <2>3. StoreInv' /\ FollowInv' /\ CatchupInv'
    BY <1>1, <2>2, StoreInvSame, FollowSame, CatchupDone DEF IInv, StoreInv
  <2>4. BatchInv /\ ReceiptsRead /\ LogsFirst
    BY DEF IInv, BatchInv
  <2>5. UNCHANGED <<head, chain, reorgs, blocks>>
    BY <1>1 DEF nodeVars, storeVars
  <2>6. batch[receiptsAt] = Hash(chain, receiptsAt)
    BY <1>4, ReceiptsCanonical DEF CanonicalHash
  <2>7. ASSUME NEW e \in EventsOf(batch[receiptsAt], receiptsAt, receiptsAt)
        PROVE  e.num = receiptsAt
    BY <1>2, EventsOfType
  <2>8. \A e \in batchLogs : e.num < receiptsAt /\ e.num \in Nat
    <3>1. CASE phase = "receipts"
      BY <2>4, <3>1 DEF ReceiptsRead, IInv, TypeOK, ProcTypeOK
    <3>2. CASE phase = "blocks"
      BY <2>4, <3>2 DEF LogsFirst, FetchReceipts
    <3> QED
      BY <1>1, <3>1, <3>2
  <2>9. ASSUME NEW n \in currentBlock..receiptsAt
        PROVE  /\ LogsOf(n)' = EventsOf(batch[n], n, n)
               /\ \A m \in DOMAIN batch :
                     n <= m /\ batch[m] = CanonicalHash(m) => batch[n] = Hash(batch[m], n)
    <3>1. CASE n = receiptsAt
      <4>1. LogsOf(n)' = EventsOf(batch[n], n, n)
        BY <1>2, <2>1, <2>7, <2>8, <3>1 DEF LogsOf
      <4>2. ASSUME NEW m \in DOMAIN batch, n <= m, batch[m] = CanonicalHash(m)
            PROVE  batch[n] = Hash(batch[m], n)
        <5>1. m \in Nat
          BY DEF IInv, TypeOK, ProcTypeOK
        <5>2. Hash(Hash(chain, m), n) = Hash(chain, n)
          BY <1>2, <3>1, <4>2, <5>1, HashHash
        <5> QED
          BY <2>6, <3>1, <4>2, <5>2 DEF CanonicalHash
      <4> QED
        BY <4>1, <4>2
    <3>2. CASE n # receiptsAt
      <4>1. n \in currentBlock..(receiptsAt - 1) /\ n # receiptsAt
        BY <1>2, <3>2
      <4>2. phase = "receipts"
        BY <1>1, <1>2, <4>1 DEF IInv, PhaseInv
      <4>3. LogsOf(n)' = LogsOf(n)
        BY <2>1, <2>7, <4>1 DEF LogsOf
      <4> QED
        BY <2>4, <4>1, <4>2, <4>3 DEF ReceiptsRead
    <3> QED
      BY <3>1, <3>2
  <2>10. BatchBlocks' /\ BatchParent' /\ BatchCanonical'
    <3>1. phase' \in Following \ {"tail"}
      BY <2>2, <2>1 DEF Following, Fetching
    <3>2. BatchBlocks'
      BY <1>1, <2>4, <2>5, <3>1 DEF BatchInv, BatchBlocks, CanonicalHash
    <3>3. BatchParent'
      BY <1>1, <2>4, <2>5 DEF BatchInv, BatchParent, CanonicalHash, Live
    <3>4. BatchCanonical'
      BY <1>1, <2>4, <2>5 DEF BatchInv, BatchCanonical, CanonicalHash
    <3> QED
      BY <3>2, <3>3, <3>4
  <2>11. LogsFirst'
    BY <2>2 DEF LogsFirst
  <2>12. ReceiptsRead'
    <3> SUFFICES ASSUME phase' = "receipts" PROVE ReceiptsRead'
      BY DEF ReceiptsRead
    <3>1. \A e \in batchLogs' : e.num < receiptsAt'
      BY <1>2, <2>1, <2>7, <2>8
    <3>2. currentBlock'..(receiptsAt' - 1) = currentBlock..receiptsAt
      BY <1>1, <1>2, <2>1
    <3>3. \A m \in DOMAIN batch : CanonicalHash(m)' = CanonicalHash(m)
      BY <2>5 DEF CanonicalHash
    <3> QED
      BY <1>1, <2>9, <3>1, <3>2, <3>3 DEF ReceiptsRead
  <2>13. BatchReady'
    <3> SUFFICES ASSUME phase' = "parent"
                 PROVE  \A n \in currentBlock..endBlock :
                           /\ batch[n] = Hash(batch[endBlock], n)
                           /\ LogsOf(n)' = EventsOf(batch[n], n, n)
      BY <1>1, <2>2 DEF BatchReady
    <3>1. receiptsAt = endBlock
      BY <2>1
    <3>2. batch[endBlock] = CanonicalHash(endBlock) /\ endBlock \in DOMAIN batch
      BY <1>2, <2>6, <3>1 DEF CanonicalHash
    <3> QED
      BY <1>2, <2>9, <3>1, <3>2
  <2> QED
    BY <2>3, <2>10, <2>11, <2>12, <2>13 DEF StageInv, BatchInv
<1> QED
  BY <1>3, <1>4

LEMMA MatchLogsKeeps ==
    ASSUME Stable, IInv, MatchLogs
    PROVE  StoreInv' /\ StageInv'
<1>1. /\ phase = "blocks" /\ ByLogs /\ Fetched /\ phase \in Following /\ phase \in Fetching
      /\ UNCHANGED <<nodeVars, storeVars, currentBlock, finalizedBlock, endBlock, batch>>
  BY DEF MatchLogs, Following, Fetching
<1>2. CASE phase' = "tail"
  BY <1>1, <1>2, GiveUpKeeps
<1>3. CASE phase' = "parent"
  <2>1. /\ phase' = "parent"
        /\ batchLogs' = {e \in batchLogs : LogMatches(e)}
    BY <1>3 DEF MatchLogs
  <2>2. phase' \in Following
    BY <2>1 DEF Following, Fetching
  <2>3. StoreInv' /\ FollowInv' /\ CatchupInv'
    BY <1>1, <2>2, StoreInvSame, FollowSame, CatchupDone DEF IInv, StoreInv
  <2>4. BatchInv /\ ~ReorgDuringFetch
    BY <1>1 DEF IInv, Stable
  <2>5. UNCHANGED <<head, chain, reorgs, blocks>>
    BY <1>1 DEF nodeVars, storeVars
  <2>6. /\ currentBlock \in Nat /\ endBlock \in Nat /\ currentBlock <= endBlock
        /\ finalizedBlock \in Nat /\ finalizedBlock < currentBlock
    BY <1>1 DEF IInv, TypeOK, ProcTypeOK, PhaseInv, FollowInv, Following, Fetching
  <2>7. /\ batchLogs = EventsOf(chain, currentBlock, endBlock)
        /\ endBlock <= head /\ head \in Nat
        /\ \A n \in currentBlock..endBlock : n \in DOMAIN batch /\ batch[n] = Hash(chain, n)
    BY <1>1, <2>4 DEF BatchInv, LogsFirst, BatchCanonical, CanonicalHash, Fetched, IInv, TypeOK,
       NodeTypeOK
  <2>8. batchLogs' = batchLogs
    <3>1. ASSUME NEW e \in batchLogs PROVE LogMatches(e)
      <4>1. PICK n \in currentBlock..endBlock :
               1 <= n /\ chain[n].kind \in EventKinds /\ e = [num |-> n, hash |-> Hash(chain, n)]
        BY <2>7, EventsOfMember
      <4> QED
        BY <2>7, <4>1 DEF LogMatches
    <3> QED
      BY <2>1, <3>1
  <2>9. ASSUME NEW n \in currentBlock..endBlock
        PROVE  /\ batch[n] = Hash(batch[endBlock], n)
               /\ LogsOf(n) = EventsOf(batch[n], n, n)
    <3>1. n \in Nat /\ n <= endBlock /\ endBlock \in currentBlock..endBlock
      BY <2>6
    <3>2. batch[n] = Hash(batch[endBlock], n)
      BY <2>6, <2>7, <3>1, HashHash
    <3>3. LogsOf(n) = EventsOf(chain, n, n)
      <4>1. ASSUME NEW e
            PROVE  e \in LogsOf(n) <=> e \in EventsOf(chain, n, n)
        BY <2>6, <2>7, <3>1, EventsOfMember DEF LogsOf
      <4> QED
        BY <4>1
    <3>4. EventsOf(batch[n], n, n) = EventsOf(chain, n, n)
      <4>1. Hash(batch[n], n) = Hash(chain, n)
        BY <2>7, <3>1, HashHash
      <4> QED
        BY <3>1, <4>1, EventsOfHash
    <3> QED
      BY <3>2, <3>3, <3>4
  <2>10. BatchReady'
    BY <1>1, <2>1, <2>8, <2>9 DEF BatchReady, LogsOf
  <2>11. BatchBlocks' /\ BatchParent' /\ BatchCanonical'
    <3>1. BatchBlocks'
      BY <1>1, <2>4, <2>5 DEF BatchInv, BatchBlocks, CanonicalHash, Following, Fetching
    <3>2. BatchParent'
      BY <1>1, <2>4, <2>5 DEF BatchInv, BatchParent, CanonicalHash, Live
    <3>3. BatchCanonical'
      BY <2>1 DEF BatchCanonical, Fetching
    <3> QED
      BY <3>1, <3>2, <3>3
  <2>12. LogsFirst' /\ ReceiptsRead'
    BY <2>1 DEF LogsFirst, ReceiptsRead
  <2> QED
    BY <2>3, <2>10, <2>11, <2>12 DEF StageInv, BatchInv
<1> QED
  BY <1>2, <1>3 DEF MatchLogs

-----------------------------------------------------------------------------
(* Storing a batch.                                                         *)

\* The block before the batch is popped only above the finalized one, and only
\* when no stored block from it on is canonical.
LEMMA OrphanParent ==
    ASSUME IInv, CheckParent, ~Extends
    PROVE  /\ currentBlock - 1 \in DOMAIN blocks /\ F < currentBlock
           /\ finalizedBlock < currentBlock - 1
           /\ currentBlock \in Nat /\ finalizedBlock \in Nat
           /\ \A n \in DOMAIN blocks : currentBlock - 1 <= n => ~Live(n)
<1> DEFINE r == currentBlock - 1
<1>1. /\ r \in DOMAIN blocks /\ F < currentBlock
      /\ Hash(batch[currentBlock], r) # blocks[r]
  BY FlowAssumption DEF Extends, F, IInv, TypeOK, ProcTypeOK
<1>2. phase = "parent" /\ phase \in Following \ {"tail"} /\ phase \in Following
  BY DEF CheckParent, Following
<1>3. /\ currentBlock \in Nat /\ finalizedBlock \in Nat /\ F \in Nat /\ r \in Nat
      /\ finalizedBlock <= r /\ currentBlock <= endBlock /\ currentBlock \in DOMAIN batch
  BY <1>1, <1>2, FlowAssumption DEF IInv, TypeOK, ProcTypeOK, StoreTypeOK, FollowInv, PhaseInv,
     Fetched, F
<1>4. finalizedBlock # r
  <2> SUFFICES ASSUME finalizedBlock = r PROVE FALSE
    OBVIOUS
  <2>1. blocks[r] = CanonicalHash(r)
    BY <1>1, <1>2, <1>3 DEF IInv, FollowInv
  <2>2. Hash(batch[currentBlock], r) = CanonicalHash(r)
    BY <1>2, <1>3 DEF IInv, BatchInv, BatchBlocks
  <2> QED
    BY <1>1, <2>1, <2>2
<1>5. ~Live(r)
  BY <1>1, <1>2, <1>3 DEF IInv, BatchInv, BatchParent
<1>6. ASSUME NEW n \in DOMAIN blocks, r <= n, Live(n) PROVE FALSE
  <2>1. n \in Nat /\ F <= r
    BY <1>1, <1>3 DEF IInv, TypeOK, StoreTypeOK
  <2>2. blocks[r] = Hash(Hash(chain, n), r)
    BY <1>1, <1>6, <2>1 DEF IInv, BranchInv, Live, CanonicalHash
  <2>3. blocks[r] = CanonicalHash(r)
    BY <1>3, <1>6, <2>1, <2>2, HashHash DEF CanonicalHash
  <2>4. r <= head
    BY <1>1 DEF IInv, ForkInv
  <2> QED
    BY <1>5, <2>3, <2>4 DEF Live
<1> QED
  BY <1>1, <1>3, <1>4, <1>6

LEMMA CheckParentKeeps ==
    ASSUME IInv, CheckParent
    PROVE  StoreInv' /\ StageInv'
<1>1. /\ phase = "parent" /\ phase \in Following /\ phase \in Following \ {"tail"}
      /\ UNCHANGED <<nodeVars, finalizedBlock, endBlock, batch, batchLogs>>
  BY DEF CheckParent, Following
<1>2. CASE Extends
  <2>1. phase' = "store" /\ UNCHANGED <<storeVars, currentBlock>>
    BY <1>2 DEF CheckParent
  <2>2. phase' \in Following
    BY <2>1 DEF Following
  <2>3. StoreInv' /\ FollowInv' /\ CatchupInv'
    BY <1>1, <2>1, <2>2, StoreInvSame, FollowSame, CatchupDone DEF IInv, StoreInv
  <2>4. F < currentBlock => blocks[currentBlock - 1] = Hash(batch[currentBlock], currentBlock - 1)
    <3> SUFFICES ASSUME F < currentBlock
                 PROVE  blocks[currentBlock - 1] = Hash(batch[currentBlock], currentBlock - 1)
      OBVIOUS
    <3>1. currentBlock - 1 \in DOMAIN blocks /\ ~(currentBlock <= BlockWhenFlowCreated)
      BY <1>1, FlowAssumption DEF IInv, FollowInv, TypeOK, ProcTypeOK, F
    <3> QED
      BY <1>2, <3>1 DEF Extends
  <2>5. BatchBlocks'
    BY <1>1, <2>1 DEF IInv, BatchInv, BatchBlocks, CanonicalHash, nodeVars
  <2>6. BatchParent' /\ BatchCanonical' /\ LogsFirst' /\ ReceiptsRead'
    BY <2>1 DEF BatchParent, BatchCanonical, LogsFirst, ReceiptsRead, Fetching
  <2>7. BatchReady'
    BY <1>1, <2>1, <2>4 DEF IInv, BatchInv, BatchReady, LogsOf, storeVars
  <2> QED
    BY <2>3, <2>5, <2>6, <2>7 DEF StageInv, BatchInv
<1>3. CASE ~Extends
  <2> DEFINE r == currentBlock - 1
  <2>1. Pop(r) /\ currentBlock' = r /\ phase' = "tail"
    BY <1>3 DEF CheckParent
  <2>2. /\ r \in DOMAIN blocks /\ r \in Nat /\ F < currentBlock /\ finalizedBlock < r
        /\ finalizedBlock \in Nat /\ F \in Nat /\ F <= r
    BY <1>3, OrphanParent, FlowAssumption DEF IInv, TypeOK, StoreTypeOK, F
  <2>3. FollowInv /\ DenseFrom(finalizedBlock) /\ StoreTypeOK
    BY <1>1 DEF IInv, FollowInv, TypeOK
  <2>4. F < r => r - 1 \in DOMAIN blocks
    <3> SUFFICES ASSUME F < r PROVE r - 1 \in DOMAIN blocks
      OBVIOUS
    <3>1. r - 1 \in F..r /\ finalizedBlock <= r - 1
      BY <2>2
    <3> QED
      BY <2>2, <2>3, <3>1 DEF DenseFrom
  <2>5. /\ StoreInv'
        /\ DOMAIN blocks' = {j \in DOMAIN blocks : j < r}
        /\ \A j \in DOMAIN blocks' : blocks'[j] = blocks[j]
    BY <1>1, <2>1, <2>2, <2>3, <2>4, PopKeeps DEF IInv, StoreInv
  <2>6. FollowInv'
    <3>1. finalizedBlock' <= finalized' /\ finalizedBlock' < currentBlock'
      BY <1>1, <2>1, <2>2, <2>3 DEF FollowInv, nodeVars
    <3>2. DenseFrom(finalizedBlock)'
      BY <1>1, <2>2, <2>3, <2>5, PopDense DEF DenseFrom
    <3>3. F <= finalizedBlock' =>
             /\ finalizedBlock' \in DOMAIN blocks'
             /\ blocks'[finalizedBlock'] = CanonicalHash(finalizedBlock)'
      BY <1>1, <2>2, <2>3, <2>5 DEF FollowInv, nodeVars, CanonicalHash
    <3>4. F < currentBlock' => currentBlock' - 1 \in DOMAIN blocks'
      BY <2>1, <2>2, <2>4, <2>5
    <3> QED
      BY <3>1, <3>2, <3>3, <3>4 DEF FollowInv
  <2>7. CatchupInv' /\ BatchInv'
    <3>1. phase' \in Following
      BY <2>1 DEF Following
    <3> QED
      BY <2>1, <3>1, CatchupDone, NoBatchYet
  <2> QED
    BY <2>5, <2>6, <2>7 DEF StageInv
<1> QED
  BY <1>2, <1>3

\* What is known when a block is pushed: from the flow contract on, it extends
\* the highest stored block.
LEMMA PushFacts ==
    ASSUME IInv, StoreBlock
    PROVE  /\ currentBlock \in Nat /\ endBlock \in Nat /\ currentBlock <= endBlock
           /\ currentBlock \in DOMAIN batch /\ batch[currentBlock] \in [1..currentBlock -> Cell]
           /\ Hash(batch[currentBlock], currentBlock) = batch[currentBlock]
           /\ finalizedBlock \in Nat /\ finalizedBlock < currentBlock /\ F \in Nat
           /\ F <= currentBlock => \A n \in DOMAIN blocks : n \in Nat /\ n < currentBlock
           /\ F < currentBlock =>
                 /\ currentBlock - 1 \in DOMAIN blocks
                 /\ blocks[currentBlock - 1] = Hash(batch[currentBlock], currentBlock - 1)
           /\ LogsOf(currentBlock) = EventsOf(batch[currentBlock], currentBlock, currentBlock)
<1>1. /\ phase = "store" /\ phase \in Following /\ currentBlock \notin DOMAIN blocks
      /\ TypeInv
  BY DEF StoreBlock, StoreRow, Following, IInv, TypeInv
<1>2. /\ currentBlock \in DOMAIN batch /\ currentBlock \in Nat /\ endBlock \in Nat
      /\ currentBlock <= endBlock /\ batch[currentBlock] \in [1..currentBlock -> Cell]
  BY <1>1, StoreBlockBatch
<1>3. FollowInv /\ finalizedBlock \in Nat /\ finalizedBlock < currentBlock /\ F \in Nat
  BY <1>1, FlowAssumption DEF IInv, FollowInv, TypeOK, ProcTypeOK, F
<1>4. ASSUME F <= currentBlock, NEW n \in DOMAIN blocks
      PROVE  n \in Nat /\ n < currentBlock
  <2>1. n \in Nat
    BY DEF IInv, TypeOK, StoreTypeOK
  <2>2. ASSUME currentBlock <= n PROVE FALSE
    <3>1. currentBlock \in F..n /\ finalizedBlock <= currentBlock
      BY <1>2, <1>3, <1>4, <2>1, <2>2
    <3> QED
      BY <1>1, <1>3, <3>1 DEF FollowInv, DenseFrom
  <2> QED
    BY <1>2, <2>1, <2>2
<1>5. F < currentBlock =>
         /\ currentBlock - 1 \in DOMAIN blocks
         /\ blocks[currentBlock - 1] = Hash(batch[currentBlock], currentBlock - 1)
  BY <1>1, <1>3 DEF FollowInv, IInv, BatchInv, BatchReady
<1>6. LogsOf(currentBlock) = EventsOf(batch[currentBlock], currentBlock, currentBlock)
  BY <1>1, <1>2 DEF IInv, BatchInv, BatchReady
<1> QED
  BY <1>2, <1>3, <1>4, <1>5, <1>6, HashSame

\* After the push the events up to the new block are those of its branch.
LEMMA PushedEvents ==
    ASSUME IInv, StoreBlock, F <= currentBlock
    PROVE  events \cup LogsOf(currentBlock) = EventsOf(batch[currentBlock], F, currentBlock)
<1> DEFINE c == currentBlock
           h == batch[currentBlock]
<1>1. /\ c \in Nat /\ F \in Nat /\ LogsOf(c) = EventsOf(h, c, c)
      /\ \A n \in DOMAIN blocks : n \in Nat /\ n < c
      /\ F < c => c - 1 \in DOMAIN blocks /\ blocks[c - 1] = Hash(h, c - 1)
  BY PushFacts
<1>2. EventInv /\ StoreTypeOK
  BY DEF IInv, TypeOK
<1>3. CASE F = c
  <2>1. events = {}
    <3>1. ASSUME NEW e \in events PROVE FALSE
      <4>1. PICK n \in DOMAIN blocks : e.num <= n
        BY <1>2 DEF EventInv
      <4>2. n \in Nat /\ n < c /\ e.num \in Nat /\ F <= e.num
        BY <1>1, <1>2 DEF EventInv, StoreTypeOK
      <4> QED
        BY <1>1, <1>3, <4>1, <4>2
    <3> QED
      BY <3>1
  <2> QED
    BY <1>1, <1>3, <2>1
<1>4. CASE F < c
  <2>1. c - 1 \in DOMAIN blocks /\ c - 1 \in Nat /\ \A n \in DOMAIN blocks : n <= c - 1
    BY <1>1, <1>4
  <2>2. events = EventsOf(blocks[c - 1], F, c - 1)
    BY <1>2, <2>1, EventsUpToMax DEF EventInv
  <2>3. Hash(blocks[c - 1], c - 1) = Hash(h, c - 1)
    BY <1>1, <1>4, <2>1, HashHash
  <2>4. events = EventsOf(h, F, c - 1)
    BY <1>1, <2>1, <2>2, <2>3, EventsOfHash
  <2>5. F \in Nat /\ c \in Nat /\ F <= c /\ c <= c + 1
    BY <1>1, <1>4
  <2>6. EventsOf(h, F, c) = EventsOf(h, F, c - 1) \cup EventsOf(h, c, c)
    BY <2>5, EventsOfSplit
  <2> QED
    BY <1>1, <2>4, <2>6
<1> QED
  BY <1>1, <1>3, <1>4

LEMMA StoreBlockKeeps ==
    ASSUME IInv, StoreBlock
    PROVE  StoreInv' /\ StageInv'
<1> DEFINE c == currentBlock
           h == batch[currentBlock]
<1>1. /\ phase = "store" /\ phase \in Following
      /\ Push(c, h, LogsOf(c)) /\ currentBlock' = c + 1
      /\ phase' = IF c = endBlock THEN "tail" ELSE "store"
      /\ UNCHANGED <<nodeVars, finalizedBlock, endBlock, batch, batchLogs>>
      /\ phase' \in Following
  BY DEF StoreBlock, StoreRow, Following, LogsOf
<1>2. /\ c \in Nat /\ endBlock \in Nat /\ c <= endBlock
      /\ c \in DOMAIN batch /\ h \in [1..c -> Cell] /\ Hash(h, c) = h
      /\ finalizedBlock \in Nat /\ finalizedBlock < c /\ F \in Nat
      /\ F <= c => \A n \in DOMAIN blocks : n \in Nat /\ n < c
      /\ F < c => c - 1 \in DOMAIN blocks /\ blocks[c - 1] = Hash(h, c - 1)
      /\ LogsOf(c) = EventsOf(h, c, c)
  BY PushFacts
<1>3. /\ c \notin DOMAIN blocks
      /\ DOMAIN blocks' = DOMAIN blocks \cup {c} /\ blocks'[c] = h
      /\ \A n \in DOMAIN blocks : blocks'[n] = blocks[n]
      /\ events' = events \cup LogsOf(c)
  BY <1>1 DEF Push
<1>4. DOMAIN blocks \subseteq Nat /\ StoreTypeOK /\ EventInv
  BY DEF IInv, TypeOK, StoreTypeOK
<1>5. UNCHANGED <<head, chain, finalized, reorgs>>
  BY <1>1 DEF nodeVars
<1>6. BranchInv'
  <2> SUFFICES ASSUME NEW n \in DOMAIN blocks', NEW m \in DOMAIN blocks', F <= n, n <= m
               PROVE  blocks'[n] = Hash(blocks'[m], n)
    BY DEF BranchInv
  <2>1. n \in Nat /\ m \in Nat
    BY <1>2, <1>3, <1>4
  <2>2. CASE m # c /\ n # c
    BY <1>3, <2>2 DEF IInv, BranchInv
  <2>3. CASE m = c /\ n = c
    BY <1>2, <1>3, <2>3
  <2>4. CASE m = c /\ n # c
    <3>1. n \in DOMAIN blocks /\ n <= c - 1 /\ F < c /\ c - 1 \in Nat
      BY <1>2, <1>3, <2>1, <2>4
    <3>2. blocks[n] = Hash(Hash(h, c - 1), n)
      BY <1>2, <3>1 DEF IInv, BranchInv
    <3> QED
      BY <1>3, <2>1, <2>4, <3>1, <3>2, HashHash
  <2>5. CASE m # c /\ n = c
    <3>1. m \in DOMAIN blocks /\ m < c
      BY <1>2, <1>3, <2>5
    <3> QED
      BY <1>2, <2>1, <2>5, <3>1
  <2> QED
    BY <2>2, <2>3, <2>4, <2>5
<1>7. EventInv'
  <2>1. ASSUME NEW e \in LogsOf(c) PROVE e.num = c /\ F <= c
    <3>1. PICK n \in c..c : F <= n /\ e = [num |-> n, hash |-> Hash(h, n)]
      BY <1>2, EventsOfMember
    <3> QED
      BY <1>2, <3>1
  <2>2. ASSUME NEW e \in events'
        PROVE  F <= e.num /\ \E m \in DOMAIN blocks' : e.num <= m
    <3>1. CASE e \in events
      BY <1>3, <1>4, <3>1 DEF EventInv
    <3>2. CASE e \in LogsOf(c)
      BY <1>2, <1>3, <2>1, <3>2
    <3> QED
      BY <1>3, <3>1, <3>2
  <2>3. ASSUME NEW m \in DOMAIN blocks'
        PROVE  EventsUpTo(m)' = EventsOf(blocks'[m], F, m)
    <3>1. CASE m # c
      <4>1. m \in DOMAIN blocks /\ m \in Nat /\ blocks'[m] = blocks[m]
        BY <1>3, <1>4, <3>1
      <4>2. ASSUME NEW e \in LogsOf(c) PROVE ~(e.num <= m)
        BY <1>2, <2>1, <4>1
      <4>3. EventsUpTo(m)' = EventsUpTo(m)
        BY <1>3, <4>2 DEF EventsUpTo
      <4> QED
        BY <1>4, <4>1, <4>3 DEF EventInv
    <3>2. CASE m = c /\ F <= c
      <4>1. events' = EventsOf(h, F, c)
        BY <1>3, <3>2, PushedEvents
      <4>2. ASSUME NEW e \in events' PROVE e.num <= c
        <5>1. PICK n \in F..c : e = [num |-> n, hash |-> Hash(h, n)]
          BY <4>1, EventsOfMember
        <5> QED
          BY <1>2, <5>1
      <4> QED
        BY <1>3, <3>2, <4>1, <4>2 DEF EventsUpTo
    <3>3. CASE m = c /\ c < F
      <4>1. \A e \in events' : F <= e.num /\ e.num \in Nat
        BY <1>3, <1>4, <2>1, <2>2, <1>2 DEF StoreTypeOK
      <4>2. EventsUpTo(m)' = {}
        BY <1>2, <3>3, <4>1 DEF EventsUpTo
      <4>3. EventsOf(blocks'[m], F, m) = {}
        BY <1>2, <3>3, EventsOfEmptyRange
      <4> QED
        BY <4>2, <4>3
    <3> QED
      BY <1>2, <3>1, <3>2, <3>3
  <2> QED
    BY <2>2, <2>3 DEF EventInv
<1>8. GapInv'
  <2> SUFFICES ASSUME NEW k \in DOMAIN blocks', F < k
               PROVE  \/ k - 1 \in DOMAIN blocks'
                      \/ k <= finalized' /\ blocks'[k] = CanonicalHash(k)'
    BY DEF GapInv
  <2>1. CASE k = c
    BY <1>2, <1>3, <2>1
  <2>2. CASE k # c
    BY <1>3, <1>5, <2>2 DEF IInv, GapInv, CanonicalHash
  <2> QED
    BY <2>1, <2>2
<1>9. DenseFrom(finalizedBlock)'
  <2> SUFFICES ASSUME NEW n \in DOMAIN blocks', NEW m \in F..n, finalizedBlock <= m
               PROVE  m \in DOMAIN blocks'
    BY <1>1 DEF DenseFrom
  <2>1. DenseFrom(finalizedBlock) /\ n \in Nat /\ m \in Nat /\ F <= m /\ m <= n
    BY <1>1, <1>2, <1>3, <1>4 DEF IInv, FollowInv
  <2>2. CASE n # c
    BY <1>3, <2>1, <2>2 DEF DenseFrom
  <2>3. CASE n = c /\ m # c
    <3>1. F < c /\ c - 1 \in DOMAIN blocks /\ m \in F..(c - 1)
      BY <1>2, <2>1, <2>3
    <3> QED
      BY <1>3, <2>1, <3>1 DEF DenseFrom
  <2> QED
    BY <1>3, <2>2, <2>3
<1>10. finalized \in Nat /\ finalizedBlock <= finalized
  BY <1>1 DEF IInv, TypeOK, NodeTypeOK, FollowInv
<1>11. DenseFrom(finalized)'
  BY <1>1, <1>2, <1>3, <1>4, <1>5, <1>9, <1>10 DEF DenseFrom
<1>12. ForkInv'
  <2>1. c <= head /\ \A i \in 1..c : h[i].fork <= reorgs
    BY <1>1, <1>2 DEF IInv, BatchInv, BatchBlocks
  <2> QED
    BY <1>3, <1>5, <2>1 DEF IInv, ForkInv
<1>13. FollowInv'
  <2>1. FollowInv /\ finalizedBlock # c
    BY <1>2 DEF IInv
  <2>2. F < c + 1 => (c + 1) - 1 \in DOMAIN blocks'
    BY <1>2, <1>3
  <2>3. F <= finalizedBlock =>
           /\ finalizedBlock \in DOMAIN blocks'
           /\ blocks'[finalizedBlock] = CanonicalHash(finalizedBlock)
    BY <1>1, <1>3, <2>1 DEF FollowInv
  <2>4. CanonicalHash(finalizedBlock)' = CanonicalHash(finalizedBlock)
    BY <1>1, <1>5 DEF CanonicalHash
  <2> QED
    BY <1>1, <1>2, <1>5, <1>9, <1>10, <2>2, <2>3, <2>4 DEF FollowInv
<1>14. BatchInv'
  <2>1. CASE c = endBlock
    BY <1>1, <2>1, NoBatchYet
  <2>2. CASE c # endBlock
    <3>1. phase' = "store" /\ phase \in Following \ {"tail"}
      BY <1>1, <2>2 DEF Following
    <3>2. BatchBlocks'
      BY <1>1, <1>5, <3>1 DEF IInv, BatchInv, BatchBlocks, CanonicalHash
    <3>3. BatchParent' /\ BatchCanonical' /\ LogsFirst' /\ ReceiptsRead'
      BY <3>1 DEF BatchParent, BatchCanonical, LogsFirst, ReceiptsRead, Fetching
    <3>4. \A n \in c..endBlock : /\ batch[n] = Hash(batch[endBlock], n)
                                 /\ LogsOf(n) = EventsOf(batch[n], n, n)
      BY <1>1 DEF IInv, BatchInv, BatchReady
    <3>5. h = Hash(batch[c + 1], c)
      <4>1. c + 1 \in c..endBlock /\ c \in c..endBlock /\ c + 1 \in Nat /\ c <= c + 1
        BY <1>2, <2>2
      <4>2. h = Hash(batch[endBlock], c) /\ batch[c + 1] = Hash(batch[endBlock], c + 1)
        BY <3>4, <4>1
      <4> QED
        BY <1>2, <4>1, <4>2, HashHash
    <3>6. BatchReady'
      <4>1. ASSUME NEW n \in (c + 1)..endBlock
            PROVE  /\ batch[n] = Hash(batch[endBlock], n)
                   /\ LogsOf(n)' = EventsOf(batch[n], n, n)
        <5>1. n \in c..endBlock
          BY <1>2
        <5> QED
          BY <1>1, <3>4, <5>1 DEF LogsOf
      <4>2. blocks'[currentBlock' - 1] = Hash(batch'[currentBlock'], currentBlock' - 1)
        BY <1>1, <1>2, <1>3, <3>5
      <4> QED
        BY <1>1, <4>1, <4>2 DEF BatchReady
    <3> QED
      BY <3>2, <3>3, <3>6 DEF BatchInv
  <2> QED
    BY <2>1, <2>2
<1> QED
  BY <1>1, <1>6, <1>7, <1>8, <1>11, <1>12, <1>13, <1>14, CatchupDone DEF StoreInv, StageInv

-----------------------------------------------------------------------------
(* Failures, the node, and the whole step.                                  *)

LEMMA FailureKeeps ==
    ASSUME IInv, GivenUp \/ Ended \/ CallFails
    PROVE  StoreInv' /\ StageInv'
<1>1. CASE GivenUp
  <2>1. /\ phase \in Following /\ phase' = "tail"
        /\ UNCHANGED <<nodeVars, storeVars, currentBlock, finalizedBlock>>
    BY <1>1 DEF GivenUp, StoreRefused, EventUnknown, Following, Fetching
  <2> QED
    BY <2>1, GiveUpKeeps
<1>2. CASE CallFails
  <2>1. /\ UNCHANGED <<nodeVars, storeVars, currentBlock, finalizedBlock>>
        /\ phase \notin {"down", "range", "tail"} /\ phase \in Phases
    BY <1>2 DEF CallFails, IInv, TypeOK, ProcTypeOK
  <2>2. CASE phase = "check"
    <3>1. phase' = "down"
      BY <1>2, <2>2 DEF CallFails
    <3>2. CatchupInv' /\ FollowInv' /\ BatchInv'
      BY <3>1 DEF CatchupInv, FollowInv, BatchInv, BatchBlocks, BatchParent,
         BatchCanonical, LogsFirst, ReceiptsRead, BatchReady, Following, Fetching
    <3> QED
      BY <2>1, <3>2, StoreInvSame DEF IInv, StoreInv, StageInv
  <2>3. CASE phase = "catchup"
    <3>1. phase' = "range"
      BY <1>2, <2>3 DEF CallFails
    <3>2. FollowInv' /\ BatchInv'
      BY <3>1 DEF FollowInv, BatchInv, BatchBlocks, BatchParent,
         BatchCanonical, LogsFirst, ReceiptsRead, BatchReady, Following, Fetching
    <3>3. CatchupInv'
      BY <2>1, <2>3, <3>1 DEF IInv, CatchupInv, AllLive, CanonicalHash, nodeVars, storeVars
    <3> QED
      BY <2>1, <3>2, <3>3, StoreInvSame DEF IInv, StoreInv, StageInv
  <2>4. CASE phase \notin {"check", "catchup"}
    <3>1. phase \in Following
      BY <2>1, <2>4 DEF Following, Phases
    <3>2. phase' = "tail"
      BY <1>2, <2>4 DEF CallFails
    <3> QED
      BY <2>1, <3>1, <3>2, GiveUpKeeps
  <2> QED
    BY <2>2, <2>3, <2>4
<1>3. CASE Ended
  <2>1. phase' = "down" /\ UNCHANGED <<nodeVars, storeVars>>
    BY <1>3 DEF Ended, Ends
  <2>2. CatchupInv' /\ FollowInv' /\ BatchInv'
    BY <2>1 DEF CatchupInv, FollowInv, BatchInv, BatchBlocks, BatchParent,
       BatchCanonical, LogsFirst, ReceiptsRead, BatchReady, Following, Fetching
  <2> QED
    BY <2>1, <2>2, StoreInvSame DEF IInv, StoreInv, StageInv
<1> QED
  BY <1>1, <1>2, <1>3

\* What a step of the node does to the canonical hashes: a block that was not
\* canonical does not become so, because a reorganisation brings a new fork, and
\* when no reorganisation is allowed no hash changes.
LEMMA NodeHashes ==
    ASSUME NodeTypeOK, ForkInv, Node
    PROVE  /\ NodeTypeOK' /\ head \in Nat /\ head' \in Nat /\ head <= head'
           /\ finalized \in Nat /\ finalized' \in Nat /\ finalized <= finalized'
           /\ finalized <= head
           /\ reorgs \in Nat /\ reorgs' \in Nat /\ reorgs <= reorgs'
           /\ \A n \in Nat : n <= finalized => CanonicalHash(n)' = CanonicalHash(n)
           /\ \A n \in 1..head' : chain'[n].fork <= reorgs'
           /\ \A n \in Nat : \A h :
                 n <= head /\ (\A i \in 1..n : h[i].fork <= reorgs) /\ h = CanonicalHash(n)'
                 => h = CanonicalHash(n)
           /\ ~ReorgAllowed => \A n \in Nat : n <= head => CanonicalHash(n)' = CanonicalHash(n)
<1>1. /\ NodeTypeOK' /\ head \in Nat /\ head' \in Nat /\ head <= head'
      /\ finalized \in Nat /\ finalized' \in Nat /\ finalized <= finalized'
      /\ finalized <= head
      /\ reorgs \in Nat /\ reorgs' \in Nat /\ reorgs <= reorgs'
      /\ \A n \in Nat : n <= finalized => CanonicalHash(n)' = CanonicalHash(n)
  BY NodeMoves DEF NodeTypeOK
<1>2. ASSUME NEW k \in Kinds, Mine(k)
      PROVE  /\ \A n \in Nat : n <= head => CanonicalHash(n)' = CanonicalHash(n)
             /\ \A n \in 1..head' : chain'[n].fork <= reorgs'
  <2>1. \A i \in 1..head : chain'[i] = chain[i]
    BY <1>1, <1>2 DEF Mine
  <2>2. head' = head + 1 /\ reorgs' = reorgs /\ chain'[head + 1].fork = reorgs
    BY <1>1, <1>2 DEF Mine
  <2>3. \A n \in 1..head' : chain'[n].fork <= reorgs'
    BY <1>1, <2>1, <2>2 DEF ForkInv
  <2> QED
    BY <1>1, <2>1, <2>3 DEF CanonicalHash, Hash
<1>3. ASSUME NEW k \in 1..head, Finalize(k)
      PROVE  /\ \A n \in Nat : n <= head => CanonicalHash(n)' = CanonicalHash(n)
             /\ \A n \in 1..head' : chain'[n].fork <= reorgs'
  BY <1>3 DEF Finalize, CanonicalHash, ForkInv
<1>4. ASSUME NEW k \in 1..head, NEW kinds, ReorgAllowed /\ Reorg(k, kinds)
      PROVE  /\ \A n \in 1..head' : chain'[n].fork <= reorgs'
             /\ \A n \in Nat : \A h :
                   n <= head /\ (\A i \in 1..n : h[i].fork <= reorgs) /\ h = CanonicalHash(n)'
                   => h = CanonicalHash(n)
             /\ ReorgAllowed
  <2>1. /\ reorgs' = reorgs + 1 /\ k \in Nat
        /\ \A i \in 1..head' : i < k => chain'[i] = chain[i]
        /\ \A i \in 1..head' : i >= k => chain'[i].fork = reorgs + 1
    BY <1>1, <1>4 DEF Reorg
  <2>2. \A n \in 1..head' : chain'[n].fork <= reorgs'
    <3>1. \A n \in 1..head : chain[n].fork \in Nat /\ chain[n].fork <= reorgs
      BY DEF ForkInv, NodeTypeOK, Cell
    <3>2. \A n \in 1..head' : n < k => n \in 1..head
      BY <1>1, <2>1
    <3> QED
      BY <1>1, <2>1, <3>1, <3>2
  <2>3. ASSUME NEW n \in Nat, NEW h, n <= head, \A i \in 1..n : h[i].fork <= reorgs,
               h = CanonicalHash(n)'
        PROVE  h = CanonicalHash(n)
    <3>1. \A i \in 1..n : i \in 1..head' /\ h[i] = chain'[i]
      BY <1>1, <2>3, HashApply DEF CanonicalHash, Hash
    <3>2. n < k
      <4>1. ASSUME k <= n PROVE FALSE
        <5>1. k \in 1..n /\ k \in 1..head'
          BY <1>1, <2>1, <2>3, <4>1
        <5> QED
          BY <1>1, <2>1, <2>3, <3>1, <5>1
      <4> QED
        BY <2>1, <4>1
    <3>3. \A i \in 1..n : chain'[i] = chain[i]
      BY <2>1, <3>1, <3>2
    <3> QED
      BY <2>3, <3>3 DEF CanonicalHash, Hash
  <2> QED
    BY <1>4, <2>2, <2>3
<1>5. \/ \E k \in Kinds : Mine(k)
      \/ \E n \in 1..head : \E kinds : ReorgAllowed /\ Reorg(n, kinds)
      \/ \E n \in 1..head : Finalize(n)
  BY DEF Node
<1> QED
  BY <1>1, <1>2, <1>3, <1>4, <1>5

LEMMA NodeKeeps ==
    ASSUME Stable, IInv, Node
    PROVE  StoreInv' /\ StageInv'
<1>1. /\ NodeTypeOK' /\ head \in Nat /\ head' \in Nat /\ head <= head'
      /\ finalized \in Nat /\ finalized' \in Nat /\ finalized <= finalized'
      /\ finalized <= head
      /\ reorgs \in Nat /\ reorgs' \in Nat /\ reorgs <= reorgs'
      /\ \A n \in Nat : n <= finalized => CanonicalHash(n)' = CanonicalHash(n)
      /\ \A n \in 1..head' : chain'[n].fork <= reorgs'
      /\ \A n \in Nat : \A h :
            n <= head /\ (\A i \in 1..n : h[i].fork <= reorgs) /\ h = CanonicalHash(n)'
            => h = CanonicalHash(n)
      /\ ~ReorgAllowed => \A n \in Nat : n <= head => CanonicalHash(n)' = CanonicalHash(n)
  BY NodeHashes DEF IInv, TypeOK
<1>2. UNCHANGED <<storeVars, procVars>>
  BY DEF Node
<1>3. UNCHANGED <<blocks, events, phase, currentBlock, finalizedBlock, rangeStart, endBlock, batch,
                  batchLogs, receiptsAt>>
  BY <1>2 DEF storeVars, procVars
<1>4. /\ DOMAIN blocks \subseteq Nat /\ currentBlock \in Nat /\ finalizedBlock \in Nat
      /\ endBlock \in Nat /\ DOMAIN batch \subseteq Nat /\ F \in Nat
      /\ \A n \in DOMAIN blocks : blocks[n] \in [1..n -> Cell]
      /\ \A n \in DOMAIN batch : batch[n] \in [1..n -> Cell]
  BY FlowAssumption DEF IInv, TypeOK, StoreTypeOK, ProcTypeOK, F
<1>5. BranchInv' /\ EventInv'
  BY <1>3 DEF IInv, BranchInv, EventInv, EventsUpTo
<1>6. GapInv'
  <2> SUFFICES ASSUME NEW k \in DOMAIN blocks, F < k
               PROVE  \/ k - 1 \in DOMAIN blocks
                      \/ k <= finalized' /\ blocks[k] = CanonicalHash(k)'
    BY <1>3 DEF GapInv
  <2>1. CASE k - 1 \in DOMAIN blocks
    BY <2>1
  <2>2. CASE k <= finalized /\ blocks[k] = CanonicalHash(k)
    BY <1>1, <1>4, <2>2
  <2> QED
    BY <2>1, <2>2 DEF IInv, GapInv
<1>7. DenseFrom(finalized)'
  BY <1>1, <1>3, <1>4 DEF IInv, DenseFrom
<1>8. ForkInv'
  <2>1. \A n \in DOMAIN blocks : n <= head' /\ \A i \in 1..n : blocks[n][i].fork <= reorgs'
    <3>1. ASSUME NEW n \in DOMAIN blocks, NEW i \in 1..n
          PROVE  blocks[n][i].fork \in Nat /\ blocks[n][i].fork <= reorgs
      BY <1>4, <3>1 DEF IInv, ForkInv, Cell
    <3> QED
      BY <1>1, <1>4, <3>1 DEF IInv, ForkInv
  <2> QED
    BY <1>1, <1>3, <2>1, InitHeadAssumption DEF IInv, ForkInv
<1>9. CatchupInv'
  <2>1. AllLive => \A n \in DOMAIN blocks : F <= n /\ (n <= finalized \/ ~ReorgAllowed) =>
           blocks[n] = CanonicalHash(n)'
    <3>1. \A n \in DOMAIN blocks : n \in Nat /\ n <= head
      BY <1>4 DEF IInv, ForkInv
    <3> QED
      BY <1>1, <3>1 DEF AllLive
  <2>2. CASE phase = "range"
    <3>1. ~ReorgAllowed
      BY <2>2 DEF ReorgAllowed, Stable
    <3> QED
      BY <1>3, <2>1, <2>2, <3>1 DEF IInv, CatchupInv, AllLive
  <2>3. CASE phase = "catchup"
    <3>1. /\ AllLive /\ rangeStart <= finalizedBlock /\ rangeStart \in Nat
          /\ finalizedBlock <= finalized /\ \A n \in DOMAIN blocks : n < rangeStart
      BY <2>3 DEF IInv, CatchupInv, PhaseInv, TypeOK, ProcTypeOK
    <3>2. \A n \in DOMAIN blocks : n <= finalized
      BY <1>1, <1>4, <3>1
    <3>3. AllLive'
      BY <1>3, <2>1, <3>1, <3>2 DEF AllLive
    <3> QED
      BY <1>3, <2>3, <3>3 DEF IInv, CatchupInv, EmptyStore
  <2>4. CASE phase \notin {"range", "catchup"}
    BY <1>3, <2>4 DEF CatchupInv
  <2> QED
    BY <2>2, <2>3, <2>4
<1>10. FollowInv'
  <2> SUFFICES ASSUME phase \in Following PROVE FollowInv'
    BY <1>3 DEF FollowInv
  <2>1. FollowInv /\ finalizedBlock <= finalized
    BY DEF IInv, FollowInv
  <2>2. CanonicalHash(finalizedBlock)' = CanonicalHash(finalizedBlock)
    BY <1>1, <1>3, <1>4, <2>1 DEF CanonicalHash
  <2> QED
    BY <1>1, <1>3, <1>4, <2>1, <2>2 DEF FollowInv, DenseFrom
<1>11. BatchInv'
  <2>1. BatchInv
    BY DEF IInv
  <2>2. phase \in Following \ {"tail"} => \A n \in DOMAIN batch : n \in Nat /\ n <= head
    BY <1>4, <2>1 DEF BatchInv, BatchBlocks
  <2>3. phase \in Fetching /\ ~ReorgDuringFetch => ~ReorgAllowed
    BY DEF ReorgAllowed
  <2>4. BatchBlocks'
    <3> SUFFICES ASSUME phase \in Following \ {"tail"}, NEW n \in DOMAIN batch
                 PROVE  /\ finalizedBlock < n /\ n <= endBlock /\ n <= head'
                        /\ Hash(batch[n], finalizedBlock) = CanonicalHash(finalizedBlock)'
                        /\ \A i \in 1..n : batch[n][i].fork <= reorgs'
      BY <1>3 DEF BatchBlocks
    <3>1. /\ finalizedBlock < n /\ n <= endBlock /\ n <= head
          /\ Hash(batch[n], finalizedBlock) = CanonicalHash(finalizedBlock)
          /\ \A i \in 1..n : batch[n][i].fork <= reorgs
      BY <2>1 DEF BatchInv, BatchBlocks
    <3>2. CanonicalHash(finalizedBlock)' = CanonicalHash(finalizedBlock)
      BY <1>1, <1>3, <1>4 DEF IInv, FollowInv, CanonicalHash
    <3>3. n <= head' /\ \A i \in 1..n : batch[n][i].fork <= reorgs'
      <4>1. \A i \in 1..n : batch[n][i].fork \in Nat
        BY <1>4 DEF Cell
      <4> QED
        BY <1>1, <1>4, <3>1, <4>1
    <3> QED
      BY <3>1, <3>2, <3>3
  <2>5. BatchParent'
    <3> DEFINE r == currentBlock - 1
    <3> SUFFICES ASSUME phase \in Fetching \cup {"parent"}, r \in DOMAIN blocks, Live(r)'
                 PROVE  \A n \in DOMAIN batch : Hash(batch[n], r) = blocks[r]
      BY <1>3 DEF BatchParent
    <3>1. r \in Nat /\ r <= head /\ \A i \in 1..r : blocks[r][i].fork <= reorgs
      BY <1>4 DEF IInv, ForkInv
    <3>2. blocks[r] = Hash(chain', r)
      BY <1>3 DEF Live, CanonicalHash
    <3>3. Live(r)
      BY <1>1, <3>1, <3>2 DEF Live, CanonicalHash
    <3> QED
      BY <2>1, <3>3 DEF BatchInv, BatchParent
  <2>6. BatchCanonical'
    <3> SUFFICES ASSUME phase \in Fetching, ~ReorgDuringFetch
                 PROVE  \A n \in DOMAIN batch : batch[n] = CanonicalHash(n)'
      BY <1>3 DEF BatchCanonical
    <3>1. phase \in Following \ {"tail"}
      BY DEF Following, Fetching
    <3> QED
      BY <1>1, <2>1, <2>2, <2>3, <3>1 DEF BatchInv, BatchCanonical
  <2>7. LogsFirst'
    <3> SUFFICES ASSUME phase \in {"logs", "blocks"} PROVE LogsFirst'
      BY <1>3 DEF LogsFirst
    <3>1. phase \in Fetching
      BY DEF Fetching
    <3>2. ASSUME ByLogs
          PROVE  EventsOf(chain', currentBlock, endBlock) = EventsOf(chain, currentBlock, endBlock)
      <4>1. endBlock <= head /\ ~ReorgAllowed
        BY <2>1, <2>3, <3>1, <3>2 DEF BatchInv, LogsFirst, Stable
      <4>2. Hash(chain', endBlock) = Hash(chain, endBlock)
        BY <1>1, <1>4, <4>1 DEF CanonicalHash
      <4> QED
        BY <1>4, <4>2, EventsOfHash
    <3> QED
      BY <1>1, <1>3, <1>4, <2>1, <3>2 DEF BatchInv, LogsFirst
  <2>8. ReceiptsRead'
    <3> SUFFICES ASSUME phase = "receipts" PROVE ReceiptsRead'
      BY <1>3 DEF ReceiptsRead
    <3>1. phase \in Following \ {"tail"}
      BY DEF Following, Fetching
    <3>2. ASSUME NEW m \in DOMAIN batch, batch[m] = CanonicalHash(m)'
          PROVE  batch[m] = CanonicalHash(m)
      <4>1. m \in Nat /\ m <= head /\ \A i \in 1..m : batch[m][i].fork <= reorgs
        BY <1>4, <2>1, <3>1 DEF BatchInv, BatchBlocks
      <4> QED
        BY <1>1, <3>2, <4>1
    <3> QED
      BY <1>3, <2>1, <3>2 DEF BatchInv, ReceiptsRead, LogsOf
  <2>9. BatchReady'
    BY <1>3, <2>1 DEF BatchInv, BatchReady, LogsOf
  <2> QED
    BY <2>4, <2>5, <2>6, <2>7, <2>8, <2>9 DEF BatchInv
<1> QED
  BY <1>5, <1>6, <1>7, <1>8, <1>9, <1>10, <1>11 DEF StoreInv, StageInv

LEMMA InitIInv == Init => IInv
<1> SUFFICES ASSUME Init PROVE IInv
  OBVIOUS
<1>1. TypeOK /\ PhaseInv
  BY InitTypeInv DEF TypeInv
<1>2. DOMAIN blocks = {} /\ events = {} /\ phase = "down" /\ head = InitHead /\ reorgs = 0
  BY DEF Init, StoreInit, NodeInit
<1>3. ForkInv
  <2>1. \A n \in 1..head : chain[n].fork = 0
    BY <1>2 DEF Init, NodeInit
  <2> QED
    BY <1>2, <2>1, InitHeadAssumption DEF ForkInv
<1>4. BranchInv /\ EventInv /\ GapInv /\ DenseFrom(finalized)
  BY <1>2 DEF BranchInv, EventInv, GapInv, DenseFrom
<1>5. CatchupInv /\ FollowInv /\ BatchInv
  BY <1>2 DEF CatchupInv, FollowInv, BatchInv, BatchBlocks, BatchParent, BatchCanonical,
     LogsFirst, ReceiptsRead, BatchReady, Following, Fetching
<1> QED
  BY <1>1, <1>3, <1>4, <1>5 DEF IInv

LEMMA StutterKeeps ==
    ASSUME IInv, UNCHANGED vars
    PROVE  StoreInv' /\ StageInv'
<1>1. StoreInv'
  BY StoreInvSame DEF IInv, StoreInv, vars
<1>2. CatchupInv' /\ FollowInv'
  BY DEF IInv, CatchupInv, FollowInv, AllLive, EmptyStore, DenseFrom, CanonicalHash, vars,
     nodeVars, storeVars, procVars
<1>3. BatchInv'
  BY DEF IInv, BatchInv, BatchBlocks, BatchParent, BatchCanonical, LogsFirst, ReceiptsRead,
     BatchReady, LogsOf, Live, CanonicalHash, vars, nodeVars, storeVars, procVars
<1> QED
  BY <1>1, <1>2, <1>3 DEF StageInv

\* The invariant is inductive.
LEMMA StepIInv == Stable /\ IInv /\ [Next]_vars => IInv'
<1> SUFFICES ASSUME Stable, IInv, [Next]_vars PROVE IInv'
  OBVIOUS
<1>1. TypeOK' /\ PhaseInv'
  BY StepType DEF IInv, TypeInv
<1>2. StoreInv' /\ StageInv'
  <2>1. CASE UNCHANGED vars
    BY <2>1, StutterKeeps
  <2>2. CASE Next
    BY <2>2, NextCases, NodeKeeps, StartKeeps, CheckReorgDataKeeps, TryBlockRangeKeeps,
       SyncRangeKeeps, SyncOnceKeeps, FetchLogsKeeps, FetchBlockKeeps, FetchReceiptsKeeps,
       MatchLogsKeeps, CheckParentKeeps, StoreBlockKeeps, FailureKeeps
  <2> QED
    BY <2>1, <2>2
<1> QED
  BY <1>1, <1>2 DEF IInv, StoreInv, StageInv

-----------------------------------------------------------------------------
(* The theorems.                                                            *)

\* In a stable environment every reachable state satisfies the inductive
\* invariant.
THEOREM Invariance == ASSUME Stable PROVE Spec => []IInv
<1>1. Init => IInv
  BY InitIInv
<1>2. IInv /\ [Next]_vars => IInv'
  BY StepIInv
<1> QED
  BY <1>1, <1>2, PTL DEF Spec

LEMMA IInvOneBranch == IInv => StoreOnOneBranch
<1> SUFFICES ASSUME IInv PROVE StoreOnOneBranch
  OBVIOUS
<1>1. \A n, m \in DOMAIN blocks :
         BlockWhenFlowCreated <= n /\ n <= m => blocks[n] = Hash(blocks[m], n)
  BY DEF IInv, BranchInv, F
<1>2. ASSUME NEW m \in DOMAIN blocks, IsMaxBlock(m)
      PROVE  events = EventsOf(blocks[m], BlockWhenFlowCreated, m)
  <2>1. m \in Nat /\ \A n \in DOMAIN blocks : n <= m
    BY <1>2 DEF IInv, TypeOK, StoreTypeOK, IsMaxBlock
  <2>2. events = EventsUpTo(m)
    BY <2>1, EventsUpToMax DEF IInv, TypeOK
  <2> QED
    BY <2>2 DEF IInv, EventInv, F
<1>3. EmptyStore => events = {}
  BY EmptyNoEvents DEF IInv
<1> QED
  BY <1>1, <1>2, <1>3 DEF StoreOnOneBranch

\* Whatever mix of catch-up ranges, batches, pops, failures and crashes produced
\* it, the store describes one branch of the chain: Push and Pop and the reorg
\* checks of syncOnce and checkReorgData leave no gap and no orphaned row.
THEOREM OneBranch == ASSUME Stable PROVE Spec => []StoreOnOneBranch
<1>1. IInv => StoreOnOneBranch
  BY IInvOneBranch
<1> QED
  BY <1>1, Invariance, PTL

\* When the highest stored block is canonical, the event tables hold exactly the
\* canonical events up to it: what the statistics and the API read.
THEOREM TipComplete == ASSUME Stable PROVE Spec => []CanonicalTipComplete
<1>1. IInv => CanonicalTipComplete
  <2> SUFFICES ASSUME IInv, NEW m \in DOMAIN blocks, IsMaxBlock(m), Live(m)
               PROVE  events = EventsOf(chain, BlockWhenFlowCreated, m)
    BY DEF CanonicalTipComplete
  <2>1. m \in Nat /\ BlockWhenFlowCreated \in Nat
    BY FlowAssumption DEF IInv, TypeOK, StoreTypeOK
  <2>2. events = EventsOf(blocks[m], BlockWhenFlowCreated, m)
    BY IInvOneBranch DEF StoreOnOneBranch
  <2>3. Hash(blocks[m], m) = Hash(chain, m)
    BY <2>1, HashHash DEF Live, CanonicalHash
  <2> QED
    BY <2>1, <2>2, <2>3, EventsOfHash
<1> QED
  BY <1>1, Invariance, PTL

\* No step discards a block of the canonical chain: the loop at the start and
\* the parent check of a batch pop orphans only.
THEOREM RowsStay == ASSUME Stable PROVE Spec => CanonicalRowsStay
<1> DEFINE Stay == \A n \in DOMAIN blocks :
                      Live(n) => n \in DOMAIN blocks' /\ blocks'[n] = blocks[n]
<1>1. IInv /\ [Next]_vars => Stay
  <2> SUFFICES ASSUME IInv, [Next]_vars, NEW n \in DOMAIN blocks, Live(n)
               PROVE  n \in DOMAIN blocks' /\ blocks'[n] = blocks[n]
    OBVIOUS
  <2>1. DOMAIN blocks \subseteq Nat
    BY DEF IInv, TypeOK, StoreTypeOK
  <2>2. CASE UNCHANGED blocks
    BY <2>2
  <2>3. CASE CheckReorgData
    <3>1. CASE UNCHANGED storeVars
      BY <3>1 DEF storeVars
    <3>2. ASSUME NEW m \in DOMAIN blocks, IsMaxBlock(m), blocks[m] # CanonicalHash(m), Pop(m)
          PROVE  n \in DOMAIN blocks' /\ blocks'[n] = blocks[n]
      <4>1. n < m
        BY <2>1, <3>2 DEF IsMaxBlock, Live
      <4> QED
        BY <3>2, <4>1 DEF Pop, storeVars
    <3> QED
      BY <2>3, <3>1, <3>2 DEF CheckReorgData
  <2>4. CASE CheckParent
    <3>1. CASE Extends
      BY <2>4, <3>1 DEF CheckParent, storeVars
    <3>2. CASE ~Extends
      <4>1. Pop(currentBlock - 1) /\ currentBlock \in Nat /\ ~(currentBlock - 1 <= n)
        BY <2>4, <3>2, OrphanParent DEF CheckParent
      <4>2. n < currentBlock - 1
        BY <2>1, <4>1
      <4> QED
        BY <4>1, <4>2 DEF Pop, storeVars
    <3> QED
      BY <3>1, <3>2
  <2>5. CASE SyncRange \/ StoreBlock
    BY <2>5 DEF SyncRange, StoreBlock, StoreRow, Push
  <2>6. CASE UNCHANGED vars \/ Node \/ Start \/ TryBlockRange \/ SyncOnce \/ FetchLogs
             \/ (\E k \in 1..head : FetchBlock(k)) \/ FetchReceipts \/ MatchLogs
             \/ GivenUp \/ Ended \/ CallFails
    BY <2>2, <2>6 DEF vars, storeVars, Node, Start, TryBlockRange, SyncOnce, FetchLogs,
       FetchBlock, FetchReceipts, MatchLogs, GivenUp, StoreRefused, EventUnknown, Ended, Ends,
       CallFails
  <2> QED
    BY <2>3, <2>4, <2>5, <2>6, NextCases
<1>2. Stay => [Stay]_vars
  OBVIOUS
<1> QED
  BY <1>1, Invariance, PTL DEF Spec, CanonicalRowsStay

-----------------------------------------------------------------------------
(* The store implements the index of one branch (ChainIndex).              *)

\* A stored block from the flow contract on has a highest one above it.
TopExists ==
    (\E n \in DOMAIN blocks : F <= n) => \E m \in DOMAIN blocks : IsMaxBlock(m) /\ F <= m

\* What the index shows of the store.
IndexShown ==
    /\ \A m \in DOMAIN blocks :
          IsMaxBlock(m) /\ F <= m => IndexTop = m /\ IndexBranch = blocks[m]
    /\ (\A n \in DOMAIN blocks : n < F) => IndexTop = 0 /\ IndexBranch = Hash(chain, 0)

\* The first block is on every branch.
LEMMA RootHash == \A c, d : Hash(c, 0) = Hash(d, 0)
BY DEF Hash

\* The index shows the highest stored block from the flow contract on.
LEMMA IndexIs == StoreTypeOK => IndexShown
<1> SUFFICES ASSUME StoreTypeOK PROVE IndexShown
  OBVIOUS
<1>1. F \in Nat /\ DOMAIN blocks \subseteq Nat
  BY FlowAssumption DEF StoreTypeOK, F
<1>2. ASSUME NEW m \in DOMAIN blocks, IsMaxBlock(m), F <= m
      PROVE  IndexTop = m /\ IndexBranch = blocks[m]
  <2>1. \A k \in DOMAIN blocks : IsMaxBlock(k) => k = m
    BY <1>1, <1>2 DEF IsMaxBlock
  <2>2. IndexTop = m
    BY <1>2, <2>1 DEF IndexTop, F
  <2>3. CASE m # 0
    BY <2>2, <2>3 DEF IndexBranch
  <2>4. CASE m = 0
    <3>1. Hash(blocks[m], 0) = blocks[m]
      BY <1>2, <2>4, RowHash
    <3> QED
      BY <2>2, <2>4, <3>1, RootHash DEF IndexBranch
  <2> QED
    BY <2>2, <2>3, <2>4
<1>3. ASSUME \A n \in DOMAIN blocks : n < F
      PROVE  IndexTop = 0 /\ IndexBranch = Hash(chain, 0)
  <2>1. ~ \E m \in DOMAIN blocks : IsMaxBlock(m) /\ BlockWhenFlowCreated <= m
    BY <1>1, <1>3 DEF F
  <2> QED
    BY <2>1 DEF IndexTop, IndexBranch
<1> QED
  BY <1>2, <1>3 DEF IndexShown

\* The invariant gives what the steps below need of the store.
LEMMA InvShown == IInv => StoreOnOneBranch /\ IndexShown
BY IInvOneBranch, IndexIs DEF IInv, TypeOK

\* A row above all others extends the branch.
LEMMA PushExtends ==
    ASSUME IInv, IInv', NEW n \in Nat, n # 0, F <= n, NEW h \in [1..n -> Cell], NEW rows,
           Push(n, h, rows), \A k \in DOMAIN blocks : k < n,
           NEW b \in Nat,
           \/ \A k \in DOMAIN blocks : k < F
           \/ IsMaxBlock(b) /\ F <= b /\ Hash(h, b) = blocks[b]
    PROVE  Index!Extend /\ TopExists'
<1>1. StoreOnOneBranch' /\ IndexShown'
  BY InvShown, PTL
<1>2. IndexShown
  BY InvShown
<1>3. n \in DOMAIN blocks' /\ blocks'[n] = h /\ DOMAIN blocks' = DOMAIN blocks \cup {n}
  BY DEF Push
<1>4. F \in Nat /\ DOMAIN blocks \subseteq Nat
  BY FlowAssumption DEF IInv, TypeOK, StoreTypeOK, F
<1>5. IsMaxBlock(n)'
  BY <1>3, <1>4 DEF IsMaxBlock
<1>6. IndexTop' = n /\ IndexBranch' = h
  BY <1>1, <1>3, <1>5 DEF IndexShown
<1>7. events' = EventsOf(h, BlockWhenFlowCreated, n)
  BY <1>1, <1>3, <1>5 DEF StoreOnOneBranch
<1>8. IndexTop \in Nat /\ IndexTop < n /\ Hash(h, IndexTop) = IndexBranch
  <2>1. CASE \A k \in DOMAIN blocks : k < F
    BY <1>2, <2>1, RootHash DEF IndexShown
  <2>2. CASE ~ \A k \in DOMAIN blocks : k < F
    <3>1. IsMaxBlock(b) /\ F <= b /\ Hash(h, b) = blocks[b] /\ b \in DOMAIN blocks
      BY <2>2 DEF IsMaxBlock
    <3> QED
      BY <1>2, <3>1 DEF IndexShown
  <2> QED
    BY <2>1, <2>2
<1>9. TopExists'
  BY <1>3, <1>5 DEF TopExists
<1> QED
  BY <1>6, <1>7, <1>8, <1>9 DEF Index!Extend, Index!Indexes, Index!EventsOf, EventsOf,
     Index!EventKinds, EventKinds, Index!Hash, Hash, Index!Cell, Cell

\* A row below the flow contract does not show in the index.
LEMMA PushHidden ==
    ASSUME IInv, TopExists, NEW n \in Nat, n < F, NEW h, NEW rows, Push(n, h, rows),
           UNCHANGED chain
    PROVE  UNCHANGED <<IndexTop, IndexBranch>> /\ TopExists'
<1>1. F \in Nat /\ DOMAIN blocks \subseteq Nat
  BY FlowAssumption DEF IInv, TypeOK, StoreTypeOK, F
<1>2. /\ DOMAIN blocks' = DOMAIN blocks \cup {n}
      /\ \A k \in DOMAIN blocks : k # n /\ blocks'[k] = blocks[k]
  BY DEF Push
<1>3. \A m : F <= m /\ IsMaxBlock(m) => IsMaxBlock(m)'
  BY <1>1, <1>2 DEF IsMaxBlock
<1>4. \A m \in Nat : F <= m /\ IsMaxBlock(m)' => IsMaxBlock(m)
  BY <1>1, <1>2 DEF IsMaxBlock
<1>5. CASE \A k \in DOMAIN blocks : k < F
  <2>1. \A k \in DOMAIN blocks' : k < F
    BY <1>2, <1>5
  <2>2. ~ \E m \in DOMAIN blocks : IsMaxBlock(m) /\ BlockWhenFlowCreated <= m
    BY <1>1, <1>5 DEF F
  <2>3. ~ \E m \in DOMAIN blocks' : IsMaxBlock(m)' /\ BlockWhenFlowCreated <= m
    BY <1>1, <1>2, <2>1 DEF F
  <2>4. IndexTop = 0 /\ IndexTop' = 0
    BY <2>2, <2>3 DEF IndexTop
  <2>5. ~ \E k \in DOMAIN blocks' : F <= k
    BY <1>1, <1>2, <2>1
  <2> QED
    BY <2>4, <2>5 DEF IndexBranch, TopExists
<1>6. CASE ~ \A k \in DOMAIN blocks : k < F
  <2>1. PICK m \in DOMAIN blocks : IsMaxBlock(m) /\ F <= m
    BY <1>1, <1>6 DEF TopExists
  <2>2. IndexTop = m /\ IndexBranch = blocks[m]
    BY <2>1, InvShown DEF IndexShown
  <2>3. m \in DOMAIN blocks' /\ IsMaxBlock(m)' /\ m \in Nat
    BY <1>1, <1>2, <1>3, <2>1
  <2>4. \A k \in DOMAIN blocks' : IsMaxBlock(k)' => k = m
    BY <1>1, <1>2, <2>3 DEF IsMaxBlock
  <2>5. IndexTop' = m
    BY <2>1, <2>3, <2>4 DEF IndexTop, F
  <2>6. IndexBranch' = IndexBranch
    BY <1>2, <2>1, <2>2, <2>5 DEF IndexBranch
  <2> QED
    BY <2>1, <2>2, <2>3, <2>5, <2>6 DEF TopExists
<1> QED
  BY <1>5, <1>6

\* Dropping an orphan and what is above it shortens the branch to its parent.
LEMMA PopRollsBack ==
    ASSUME IInv, IInv', TopExists, UNCHANGED chain, NEW p \in DOMAIN blocks, F <= p,
           Pop(p), F < p => p - 1 \in DOMAIN blocks,
           \A n \in DOMAIN blocks : p <= n => ~Live(n)
    PROVE  Index!Rollback /\ TopExists'
<1>1. StoreOnOneBranch /\ IndexShown /\ StoreOnOneBranch' /\ IndexShown'
  BY InvShown, PTL
<1>2. F \in Nat /\ DOMAIN blocks \subseteq Nat /\ p \in Nat
  BY FlowAssumption DEF IInv, TypeOK, StoreTypeOK, F
<1>3. PICK m \in DOMAIN blocks : IsMaxBlock(m) /\ F <= m
  BY DEF TopExists
<1>4. m \in Nat /\ p <= m /\ ~Live(m) /\ IndexTop = m /\ IndexBranch = blocks[m]
  BY <1>1, <1>2, <1>3 DEF IndexShown, IsMaxBlock
<1>5. ~(IndexTop <= head /\ IndexBranch = CanonicalHash(IndexTop))
  BY <1>4 DEF Live
<1>6. /\ DOMAIN blocks' = {j \in DOMAIN blocks : j < p}
      /\ \A j \in DOMAIN blocks' : blocks'[j] = blocks[j]
  BY <1>2 DEF Pop
<1>7. CASE F < p
  <2>1. p - 1 \in DOMAIN blocks' /\ F <= p - 1 /\ IsMaxBlock(p - 1)'
    BY <1>2, <1>6, <1>7 DEF IsMaxBlock
  <2>2. IndexTop' = p - 1 /\ IndexBranch' = blocks[p - 1]
    BY <1>1, <1>6, <2>1 DEF IndexShown
  <2>3. blocks[p - 1] = Hash(blocks[m], p - 1)
    BY <1>1, <1>2, <1>4, <1>6, <2>1 DEF StoreOnOneBranch, F
  <2>4. events' = EventsOf(IndexBranch', BlockWhenFlowCreated, IndexTop')
    BY <1>1, <1>6, <2>1, <2>2 DEF StoreOnOneBranch
  <2>5. IndexTop' \in 0..(IndexTop - 1)
    BY <1>2, <1>4, <1>7, <2>2
  <2>6. TopExists'
    BY <2>1 DEF TopExists
  <2> QED
    BY <1>4, <1>5, <2>2, <2>3, <2>4, <2>5, <2>6
       DEF Index!Rollback, Index!Indexes, Index!EventsOf, EventsOf, Index!EventKinds,
           EventKinds, Index!Hash, Hash, Index!CanonicalHash, CanonicalHash
<1>8. CASE F = p
  <2>1. \A n \in DOMAIN blocks' : n < F
    BY <1>6, <1>8
  <2>2. IndexTop' = 0 /\ IndexBranch' = Hash(chain, 0)
    BY <1>1, <2>1 DEF IndexShown
  <2>3. events' = {}
    <3>1. (EventInv /\ StoreTypeOK)'
      BY DEF IInv, TypeOK
    <3>2. \A e \in events' : F <= e.num /\ e.num \in Nat /\ \E k \in DOMAIN blocks' : e.num <= k
      BY <3>1 DEF EventInv, StoreTypeOK
    <3> QED
      BY <1>2, <1>6, <2>1, <3>2
  <2>4. EventsOf(IndexBranch', BlockWhenFlowCreated, 0) = {}
    BY <1>2 DEF EventsOf, F
  <2>5. m # 0
    <3>1. m = 0 => Live(m)
      <4>1. Hash(blocks[m], m) = blocks[m]
        BY RowHash DEF IInv, TypeOK
      <4>2. head \in Nat
        BY DEF IInv, TypeOK, NodeTypeOK
      <4> QED
        BY <4>1, <4>2, RootHash DEF Live, CanonicalHash
    <3> QED
      BY <1>4, <3>1
  <2>6. IndexTop' \in 0..(IndexTop - 1)
    BY <1>4, <2>2, <2>5
  <2>7. IndexBranch' = Hash(IndexBranch, IndexTop')
    BY <2>2, RootHash
  <2>8. TopExists'
    BY <1>2, <1>6, <2>1 DEF TopExists
  <2> QED
    BY <1>5, <2>2, <2>3, <2>4, <2>6, <2>7, <2>8
       DEF Index!Rollback, Index!Indexes, Index!EventsOf, EventsOf, Index!EventKinds,
           EventKinds, Index!Hash, Hash, Index!CanonicalHash, CanonicalHash
<1> QED
  BY <1>2, <1>7, <1>8

\* What a step of the process does to the index.
IndexMoves ==
    \/ Index!Extend
    \/ Index!Rollback
    \/ UNCHANGED <<IndexTop, IndexBranch, events>>

\* One lemma for every action that changes the store.
LEMMA SyncRangeMoves ==
    ASSUME IInv, IInv', TopExists, SyncRange
    PROVE  IndexMoves /\ TopExists'
<1>1. PICK end \in rangeStart..LastOfRange :
             Push(end, CanonicalHash(end), EventsOf(chain, rangeStart, end))
  BY DEF SyncRange
<1>2. /\ end \in Nat /\ rangeStart \in Nat /\ rangeStart <= end /\ end <= head /\ head \in Nat
      /\ \A n \in DOMAIN blocks : n \in Nat /\ n < rangeStart
      /\ AllLive
  BY RangeFacts
<1>3. F \in Nat /\ UNCHANGED chain
  BY FlowAssumption DEF F, SyncRange, nodeVars
<1>4. CanonicalHash(end) \in [1..end -> Cell]
  BY <1>2, CanonicalHashType DEF IInv, TypeOK
<1>5. CASE end < F
  <2>1. EventsOf(chain, rangeStart, end) = {}
    BY <1>2, <1>3, <1>5 DEF EventsOf, F
  <2>2. events' = events
    BY <1>1, <2>1 DEF Push
  <2> QED
    BY <1>1, <1>2, <1>3, <1>5, <2>2, PushHidden DEF IndexMoves
<1>6. CASE F <= end /\ end # 0
  <2>1. \A k \in DOMAIN blocks : k < end
    BY <1>2
  <2>2. \/ \A k \in DOMAIN blocks : k < F
        \/ /\ rangeStart - 1 \in Nat /\ IsMaxBlock(rangeStart - 1) /\ F <= rangeStart - 1
           /\ Hash(CanonicalHash(end), rangeStart - 1) = blocks[rangeStart - 1]
    <3> SUFFICES ASSUME NEW k \in DOMAIN blocks, ~(k < F)
                 PROVE  /\ rangeStart - 1 \in Nat /\ IsMaxBlock(rangeStart - 1)
                        /\ F <= rangeStart - 1
                        /\ Hash(CanonicalHash(end), rangeStart - 1) = blocks[rangeStart - 1]
      OBVIOUS
    <3>1. rangeStart - 1 \in DOMAIN blocks
      BY DEF IInv, CatchupInv, EmptyStore, SyncRange
    <3>2. IsMaxBlock(rangeStart - 1) /\ F <= rangeStart - 1 /\ rangeStart - 1 \in Nat
      BY <1>2, <1>3, <3>1 DEF IsMaxBlock
    <3>3. blocks[rangeStart - 1] = CanonicalHash(rangeStart - 1)
      BY <1>2, <3>1, <3>2 DEF AllLive
    <3>4. Hash(CanonicalHash(end), rangeStart - 1) = CanonicalHash(rangeStart - 1)
      BY <1>2, <3>2, HashHash DEF CanonicalHash
    <3> QED
      BY <3>2, <3>3, <3>4
  <2>3. PICK b \in Nat :
             \/ \A k \in DOMAIN blocks : k < F
             \/ IsMaxBlock(b) /\ F <= b /\ Hash(CanonicalHash(end), b) = blocks[b]
    BY <2>2
  <2> QED
    BY <1>1, <1>2, <1>4, <1>6, <2>1, <2>3, PushExtends DEF IndexMoves
<1>7. CASE F <= end /\ end = 0
  <2>1. DOMAIN blocks = {} /\ F = 0 /\ DOMAIN blocks' = {0}
    BY <1>1, <1>2, <1>3, <1>7 DEF Push
  <2>2. events' = events
    BY <1>1, <1>7 DEF Push, EventsOf
  <2>3. IndexTop = 0 /\ IndexBranch = Hash(chain, 0)
    BY <2>1, InvShown DEF IndexShown
  <2>4. IndexShown' /\ IsMaxBlock(0)' /\ blocks'[0] = CanonicalHash(0)
    <3>1. IndexShown'
      BY InvShown, PTL
    <3> QED
      BY <1>1, <1>7, <2>1, <3>1 DEF Push, IsMaxBlock
  <2>5. IndexTop' = 0 /\ IndexBranch' = CanonicalHash(0)
    BY <2>1, <2>4 DEF IndexShown
  <2> QED
    BY <2>1, <2>2, <2>3, <2>4, <2>5 DEF IndexMoves, TopExists, CanonicalHash
<1> QED
  BY <1>2, <1>3, <1>5, <1>6, <1>7

LEMMA StoreBlockMoves ==
    ASSUME IInv, IInv', TopExists, StoreBlock
    PROVE  IndexMoves /\ TopExists'
<1> DEFINE c == currentBlock
<1>1. Push(c, batch[c], LogsOf(c)) /\ UNCHANGED chain
  BY DEF StoreBlock, StoreRow, nodeVars
<1>2. /\ c \in Nat /\ batch[c] \in [1..c -> Cell] /\ c # 0 /\ F \in Nat
      /\ F <= c => \A n \in DOMAIN blocks : n \in Nat /\ n < c
      /\ F < c => c - 1 \in DOMAIN blocks /\ blocks[c - 1] = Hash(batch[c], c - 1)
      /\ LogsOf(c) = EventsOf(batch[c], c, c)
  BY PushFacts
<1>3. CASE c < F
  <2>1. EventsOf(batch[c], c, c) = {}
    BY <1>2, <1>3 DEF EventsOf, F
  <2>2. events' = events
    BY <1>1, <1>2, <2>1 DEF Push
  <2> QED
    BY <1>1, <1>2, <1>3, <2>2, PushHidden DEF IndexMoves
<1>4. CASE F <= c
  <2>1. PICK b \in Nat :
             \/ \A k \in DOMAIN blocks : k < F
             \/ IsMaxBlock(b) /\ F <= b /\ Hash(batch[c], b) = blocks[b]
    <3>1. CASE F < c
      <4>1. IsMaxBlock(c - 1) /\ F <= c - 1 /\ Hash(batch[c], c - 1) = blocks[c - 1] /\ c - 1 \in Nat
        BY <1>2, <3>1 DEF IsMaxBlock
      <4> QED
        BY <4>1
    <3>2. CASE F = c
      <4>1. \A k \in DOMAIN blocks : k < F
        BY <1>2, <3>2
      <4> QED
        BY <4>1
    <3> QED
      BY <1>2, <1>4, <3>1, <3>2
  <2> QED
    BY <1>1, <1>2, <1>4, <2>1, PushExtends DEF IndexMoves
<1> QED
  BY <1>2, <1>3, <1>4

LEMMA CheckReorgDataMoves ==
    ASSUME IInv, IInv', TopExists, CheckReorgData
    PROVE  IndexMoves /\ TopExists'
<1>1. UNCHANGED chain
  BY DEF CheckReorgData, nodeVars
<1>2. CASE UNCHANGED storeVars
  BY <1>1, <1>2 DEF storeVars, IndexMoves, IndexTop, IndexBranch, TopExists, IsMaxBlock
<1>3. ASSUME NEW m \in DOMAIN blocks, IsMaxBlock(m), blocks[m] # CanonicalHash(m), Pop(m)
      PROVE  IndexMoves /\ TopExists'
  <2>1. F \in Nat /\ DOMAIN blocks \subseteq Nat
    BY FlowAssumption DEF IInv, TypeOK, StoreTypeOK, F
  <2>2. CASE F <= m
    <3>1. F < m => m - 1 \in DOMAIN blocks
      BY <1>3 DEF IInv, GapInv
    <3>2. \A n \in DOMAIN blocks : m <= n => ~Live(n)
      <4>1. \A n \in DOMAIN blocks : m <= n => n = m
        BY <1>3, <2>1 DEF IsMaxBlock
      <4> QED
        BY <1>3, <4>1 DEF Live
    <3> QED
      BY <1>1, <1>3, <2>2, <3>1, <3>2, PopRollsBack DEF IndexMoves
  <2>3. CASE m < F
    <3>1. DOMAIN blocks' = {j \in DOMAIN blocks : j < m}
      BY <1>3, <2>1 DEF Pop
    <3>2. (\A n \in DOMAIN blocks : n < F) /\ (\A n \in DOMAIN blocks' : n < F)
      BY <1>3, <2>1, <2>3, <3>1 DEF IsMaxBlock
    <3>3. IndexShown /\ IndexShown'
      BY InvShown, PTL
    <3>4. events = {} /\ events' = {}
      <4>1. EventInv /\ StoreTypeOK /\ (EventInv /\ StoreTypeOK)'
        BY DEF IInv, TypeOK
      <4>2. events = {}
        BY <2>1, <3>2, <4>1 DEF EventInv, StoreTypeOK
      <4> QED
        BY <1>3, <4>2 DEF Pop, storeVars
    <3> QED
      BY <1>1, <2>1, <3>1, <3>2, <3>3, <3>4 DEF IndexShown, IndexMoves, TopExists
  <2> QED
    BY <2>1, <2>2, <2>3
<1> QED
  BY <1>2, <1>3 DEF CheckReorgData

LEMMA CheckParentMoves ==
    ASSUME IInv, IInv', TopExists, CheckParent
    PROVE  IndexMoves /\ TopExists'
<1>1. UNCHANGED chain
  BY DEF CheckParent, nodeVars
<1>2. CASE Extends
  BY <1>1, <1>2 DEF CheckParent, storeVars, IndexMoves, IndexTop, IndexBranch, TopExists, IsMaxBlock
<1>3. CASE ~Extends
  <2> DEFINE p == currentBlock - 1
  <2>1. /\ p \in DOMAIN blocks /\ F < currentBlock /\ finalizedBlock < p
        /\ currentBlock \in Nat /\ finalizedBlock \in Nat
        /\ \A n \in DOMAIN blocks : p <= n => ~Live(n)
    BY <1>3, OrphanParent
  <2>2. Pop(p) /\ F \in Nat
    BY <1>3, FlowAssumption DEF CheckParent, F
  <2>3. F < p => p - 1 \in DOMAIN blocks
    <3>1. DenseFrom(finalizedBlock)
      BY DEF IInv, FollowInv, CheckParent, Following, Fetching
    <3> QED
      BY <2>1, <2>2, <3>1 DEF DenseFrom
  <2> QED
    BY <1>1, <2>1, <2>2, <2>3, PopRollsBack DEF IndexMoves
<1> QED
  BY <1>2, <1>3

\* An empty store shows the first block and no events.
LEMMA IndexInit == Init => Index!IndexInit /\ TopExists
<1> SUFFICES ASSUME Init PROVE Index!IndexInit /\ TopExists
  OBVIOUS
<1>1. DOMAIN blocks = {} /\ events = {}
  BY DEF Init, StoreInit
<1>2. IndexTop = 0 /\ IndexBranch = Hash(chain, 0)
  BY <1>1 DEF IndexTop, IndexBranch
<1> QED
  BY <1>1, <1>2 DEF Init, Index!IndexInit, NodeInit, Index!NodeInit, Hash, Index!Hash, TopExists

\* Every step extends the branch, rolls it back, is one of the node, or is not seen.
LEMMA IndexStep ==
    IInv /\ IInv' /\ TopExists /\ [Next]_vars =>
        /\ TopExists'
        /\ [Index!IndexNext]_<<Index!nodeVars, Index!indexVars>>
<1> SUFFICES ASSUME IInv, IInv', TopExists, [Next]_vars
             PROVE  /\ TopExists'
                    /\ [Index!IndexNext]_<<Index!nodeVars, Index!indexVars>>
  OBVIOUS
<1> USE DEF nodeVars, Index!nodeVars, Index!indexVars
<1>1. CASE IndexMoves /\ TopExists' /\ UNCHANGED nodeVars
  BY <1>1 DEF IndexMoves, Index!IndexNext
<1>2. CASE SyncRange \/ StoreBlock \/ CheckReorgData \/ CheckParent
  <2>1. IndexMoves /\ TopExists'
    BY <1>2, SyncRangeMoves, StoreBlockMoves, CheckReorgDataMoves, CheckParentMoves
  <2>2. UNCHANGED nodeVars
    BY <1>2 DEF SyncRange, StoreBlock, StoreRow, CheckReorgData, CheckParent
  <2> QED
    BY <1>1, <2>1, <2>2
<1>3. CASE UNCHANGED vars \/ Start \/ TryBlockRange \/ SyncOnce \/ FetchLogs
             \/ (\E k \in 1..head : FetchBlock(k)) \/ FetchReceipts \/ MatchLogs
             \/ GivenUp \/ Ended \/ CallFails
  <2>1. UNCHANGED <<nodeVars, storeVars>>
    BY <1>3 DEF vars, Start, TryBlockRange, SyncOnce, FetchLogs, FetchBlock, FetchReceipts,
       MatchLogs, GivenUp, StoreRefused, EventUnknown, Ended, Ends, CallFails
  <2>2. UNCHANGED <<IndexTop, IndexBranch, events>> /\ TopExists'
    BY <2>1 DEF storeVars, IndexTop, IndexBranch, TopExists, IsMaxBlock
  <2> QED
    BY <1>1, <2>1, <2>2 DEF IndexMoves
<1>4. CASE Node
  <2>1. UNCHANGED storeVars
    BY <1>4 DEF Node
  <2>2. Index!NodeStep
    BY <1>4 DEF Node, Index!NodeStep, Mine, Index!Mine, Reorg, Index!Reorg, Finalize,
       Index!Finalize
  <2>3. IndexTop' = IndexTop /\ TopExists'
    BY <2>1 DEF storeVars, IndexTop, TopExists, IsMaxBlock
  <2>4. IndexBranch' = IndexBranch
    BY <2>1, <2>3, RootHash DEF storeVars, IndexBranch
  <2> QED
    BY <2>1, <2>2, <2>3, <2>4 DEF Index!IndexNext, storeVars
<1> QED
  BY <1>2, <1>3, <1>4, NextCases

\* Theorem.  What the sync process stores implements the index of one branch: seen
\* through its highest row, the store is only ever extended by a block of the branch
\* with the events of that block, or rolled back to an ancestor (sync/sync.go,
\* sync/catchup.go, store/store.go:107 and 241), and rolled back only while its last
\* block is an orphan.
THEOREM IndexRefinement == ASSUME Stable PROVE Spec => ImplementsIndex
<1>1. IInv /\ IInv' /\ TopExists /\ [Next]_vars =>
          TopExists' /\ [Index!IndexNext]_<<Index!nodeVars, Index!indexVars>>
  BY IndexStep
<1>2. Init => Index!IndexInit /\ TopExists
  BY IndexInit
<1> QED
  BY <1>1, <1>2, Invariance, PTL DEF Spec, ImplementsIndex, Index!IndexSpec
=============================================================================

------------------------------ MODULE ChainSync ------------------------------
(***************************************************************************)
(* The sync process (sync/sync.go, sync/catchup.go, rpc/blockchain.go):    *)
(* it checks the stored tip against the node when it starts, catches up    *)
(* with the finalized block in ranges, then follows the head in batches,   *)
(* popping its tip when the next block does not extend it.  The module     *)
(* composes the process with the node (EthNode) and the store (ScanStore), *)
(* lets the node move between any two of its RPC calls, and crashes and    *)
(* restarts the process at any point.                                      *)
(***************************************************************************)
EXTENDS EthNode, ScanStore

CONSTANTS
    DelayBlocksAgainstLatest,   \* config: distance kept from the head
    BatchBlocksOnCatchup,       \* config: longest catch-up range, 0 = no limit
    ByLogs,                     \* eth_getLogs instead of block receipts
    GapLimit, BatchSize,        \* calculateBatchSize: 2000 and 1000 in the code
    Uint64Mod,                  \* 2^64
    MaxFaults,                  \* bound: failed calls
    MaxCrashes,                 \* bound: crashes of the process
    ReorgDuringFetch,           \* may the chain reorganise while a batch is read?
    ReorgBeforeCatchup          \* ... between the startup check and the catch-up?

ASSUME CatchupAssumption == BatchBlocksOnCatchup \in Nat
ASSUME BatchAssumption ==
    /\ GapLimit \in Nat
    /\ BatchSize \in Nat \ {0}
ASSUME Uint64Assumption ==
    /\ Uint64Mod \in Nat
    /\ DelayBlocksAgainstLatest \in 0..(Uint64Mod - 1)
ASSUME FaultsAssumption == MaxFaults \in Nat /\ MaxCrashes \in Nat
ASSUME SwitchesAssumption ==
    /\ ByLogs \in BOOLEAN
    /\ ReorgDuringFetch \in BOOLEAN
    /\ ReorgBeforeCatchup \in BOOLEAN

VARIABLES
    phase,          \* where the process is, "down" when it does not run
    currentBlock,   \* Syncer.currentBlock: next block to store
    finalizedBlock, \* CatchupSyncer.finalizedBlock
    rangeStart,     \* start of the next catch-up range
    endBlock,       \* last block of the batch being read or stored
    batch,          \* blocks of the batch read so far: number -> hash
    batchLogs,      \* logs of the batch: records [num, hash] of the blocks that hold them
    receiptsAt,     \* next block of the batch whose receipts are to be read
    faults, crashes

procVars == <<phase, currentBlock, finalizedBlock, rangeStart, endBlock, batch,
              batchLogs, receiptsAt, faults, crashes>>
vars == <<nodeVars, storeVars, procVars>>

\* The phases in which the calls that make up one batch are under way.
Fetching == {"logs", "blocks", "receipts"}
Phases == Fetching \cup {"down", "check", "range", "catchup", "tail", "parent", "store"}

NoBatch == [n \in {} |-> <<>>]

Init ==
    /\ NodeInit
    /\ StoreInit
    /\ phase = "down"
    /\ currentBlock = 0 /\ finalizedBlock = 0 /\ rangeStart = 0 /\ endBlock = 0
    /\ batch = NoBatch /\ batchLogs = {} /\ receiptsAt = 0
    /\ faults = 0 /\ crashes = 0

-----------------------------------------------------------------------------
(* Start of the process: MustNewSyncer and Syncer.checkReorgData.           *)

\* The first block after the stored ones, the block of the flow contract in an
\* empty store.
FirstMissing(b) ==
    \/ EmptyStore /\ b = BlockWhenFlowCreated
    \/ \E m \in DOMAIN blocks : IsMaxBlock(m) /\ b = m + 1

Start ==
    /\ phase = "down"
    /\ \E b \in 0..(head + BlockWhenFlowCreated + 1) :
          FirstMissing(b) /\ currentBlock' = b
    /\ phase' = "check"
    /\ UNCHANGED <<nodeVars, storeVars, finalizedBlock, rangeStart, endBlock, batch,
                   batchLogs, receiptsAt, faults, crashes>>

\* One round of the loop: the highest stored block is dropped when the node has
\* another block at its number, and the loop ends when the node has the same.
CheckReorgData ==
    /\ phase = "check"
    /\ \/ /\ EmptyStore
          /\ phase' = "range"
          /\ UNCHANGED <<storeVars, currentBlock>>
       \/ \E m \in DOMAIN blocks :
             /\ IsMaxBlock(m)
             /\ IF blocks[m] = CanonicalHash(m)
                THEN phase' = "range" /\ UNCHANGED <<storeVars, currentBlock>>
                ELSE Pop(m) /\ currentBlock' = m /\ UNCHANGED phase
    /\ UNCHANGED <<nodeVars, finalizedBlock, rangeStart, endBlock, batch, batchLogs,
                   receiptsAt, faults, crashes>>

-----------------------------------------------------------------------------
(* CatchupSyncer.                                                           *)

\* tryBlockRange: where the store ends and where finality is.  When nothing
\* finalized is missing the catch-up returns and the syncer goes on from the
\* block after the finalized one.
TryBlockRange ==
    /\ phase = "range"
    /\ finalizedBlock' = finalized
    /\ \E b \in 0..(head + BlockWhenFlowCreated + 1) :
          /\ FirstMissing(b)
          /\ rangeStart' = b
          /\ IF b <= finalized
             THEN phase' = "catchup" /\ UNCHANGED currentBlock
             ELSE phase' = "tail" /\ currentBlock' = finalized + 1
    /\ UNCHANGED <<nodeVars, storeVars, endBlock, batch, batchLogs, receiptsAt, faults, crashes>>

\* nextSyncRange
LastOfRange ==
    IF BatchBlocksOnCatchup > 0 /\ rangeStart + BatchBlocksOnCatchup - 1 <= finalizedBlock
    THEN rangeStart + BatchBlocksOnCatchup - 1
    ELSE finalizedBlock

\* One range of syncRange.  The node may make it narrow the range, to its half
\* or to an end it suggests; the logs of the range and one row for its last
\* block are pushed together.
SyncRange ==
    /\ phase = "catchup"
    /\ \E end \in rangeStart..LastOfRange :
          /\ Push(end, CanonicalHash(end), EventsOf(chain, rangeStart, end))
          /\ IF end >= finalizedBlock
             THEN phase' = "range" /\ UNCHANGED rangeStart
             ELSE rangeStart' = end + 1 /\ UNCHANGED phase
    /\ UNCHANGED <<nodeVars, currentBlock, finalizedBlock, endBlock, batch, batchLogs,
                   receiptsAt, faults, crashes>>

-----------------------------------------------------------------------------
(* Syncer.syncOnce, one step per call to the node or the database.          *)

Lesser(a, b) == IF a <= b THEN a ELSE b

\* Faulty variant of MaxSyncBlock: the delay is forgotten.
LatestBlock == head

\* latestBlock - DelayBlocksAgainstLatest in uint64 arithmetic
MaxSyncBlock ==
    IF DelayBlocksAgainstLatest <= head
    THEN head - DelayBlocksAgainstLatest
    ELSE head - DelayBlocksAgainstLatest + Uint64Mod

CalculateBatchSize(gap) ==
    IF gap = 0 THEN 1 ELSE IF gap > GapLimit THEN BatchSize ELSE gap

\* A tick reads the head and, unless the store is complete up to it, starts to
\* read the batch that follows the last stored block.
SyncOnce ==
    /\ phase = "tail"
    /\ currentBlock <= MaxSyncBlock
    /\ endBlock' = Lesser(currentBlock + CalculateBatchSize(MaxSyncBlock - currentBlock + 1) - 1,
                          MaxSyncBlock)
    /\ batch' = NoBatch
    /\ batchLogs' = {}
    /\ receiptsAt' = currentBlock
    /\ phase' = IF ByLogs THEN "logs" ELSE "blocks"
    /\ UNCHANGED <<nodeVars, storeVars, currentBlock, finalizedBlock, rangeStart, faults, crashes>>

\* getEthDataBatchByLogs reads the logs of the whole batch in one call, first.
FetchLogs ==
    /\ phase = "logs"
    /\ batchLogs' = EventsOf(chain, currentBlock, Lesser(endBlock, head))
    /\ phase' = "blocks"
    /\ UNCHANGED <<nodeVars, storeVars, currentBlock, finalizedBlock, rangeStart, endBlock,
                   batch, receiptsAt, faults, crashes>>

\* BatchGetBlocks reads the blocks in an order taken from a hash set, some per
\* call.
FetchBlock(n) ==
    /\ phase = "blocks"
    /\ n \in currentBlock..Lesser(endBlock, head)
    /\ n \notin DOMAIN batch
    /\ batch' = [i \in DOMAIN batch \cup {n} |-> IF i = n THEN CanonicalHash(n) ELSE batch[i]]
    /\ UNCHANGED <<nodeVars, storeVars, phase, currentBlock, finalizedBlock, rangeStart,
                   endBlock, batchLogs, receiptsAt, faults, crashes>>

Fetched == currentBlock..endBlock \subseteq DOMAIN batch

\* Faulty variant of ReceiptsAgree: the block hash of a receipt is not compared.
AnyReceipts(n) == TRUE

\* getEthDataBatchByReceipts: the receipts of one block, by number.  They are
\* compared with the block transaction by transaction, so that a block and
\* receipts without transactions always agree.
ReceiptsAgree(n) ==
    \/ CanonicalHash(n) = batch[n]
    \/ chain[n].kind = "empty" /\ batch[n][n].kind = "empty"

FetchReceipts ==
    /\ \/ phase = "blocks" /\ ~ByLogs /\ Fetched
       \/ phase = "receipts"
    /\ LET n == receiptsAt IN
          IF ReceiptsAgree(n)
          THEN /\ phase' = IF n = endBlock THEN "parent" ELSE "receipts"
               /\ receiptsAt' = n + 1
               /\ batchLogs' = batchLogs \cup EventsOf(batch[n], n, n)
          ELSE /\ phase' = "tail"
               /\ UNCHANGED <<receiptsAt, batchLogs>>
    /\ UNCHANGED <<nodeVars, storeVars, currentBlock, finalizedBlock, rangeStart, endBlock,
                   batch, faults, crashes>>

\* getEthDataBatchByLogs compares a log with the fetched block only when that
\* block has a transaction at the log's index, and leaves the log out when it
\* has none: a block without transactions has none, another block may have as
\* many as it takes or fewer.  A block without logs is compared with nothing.
LogMatches(e) == e.hash = batch[e.num]

MatchLogs ==
    /\ phase = "blocks" /\ ByLogs /\ Fetched
    /\ \/ /\ phase' = "parent"
          /\ batchLogs' = {e \in batchLogs : LogMatches(e)}
       \/ /\ \E e \in batchLogs : ~LogMatches(e) /\ batch[e.num][e.num].kind # "empty"
          /\ phase' = "tail"
          /\ UNCHANGED batchLogs
    /\ UNCHANGED <<nodeVars, storeVars, currentBlock, finalizedBlock, rangeStart, endBlock,
                   batch, receiptsAt, faults, crashes>>

\* Faulty variants of Extends: no check at all, and the block's own hash in place
\* of its parent's.
AlwaysExtends == TRUE

ExtendsByOwnHash ==
    \/ currentBlock <= BlockWhenFlowCreated
    \/ currentBlock - 1 \notin DOMAIN blocks
    \/ batch[currentBlock] = blocks[currentBlock - 1]

\* The stored block the batch must extend.  There is no check up to the block
\* of the flow contract, and none when the row is missing.
Extends ==
    \/ currentBlock <= BlockWhenFlowCreated
    \/ currentBlock - 1 \notin DOMAIN blocks
    \/ Hash(batch[currentBlock], currentBlock - 1) = blocks[currentBlock - 1]

\* The reorg check of syncOnce, against the first block of the batch only.
CheckParent ==
    /\ phase = "parent"
    /\ IF Extends
       THEN phase' = "store" /\ UNCHANGED <<storeVars, currentBlock>>
       ELSE /\ Pop(currentBlock - 1)
            /\ currentBlock' = currentBlock - 1
            /\ phase' = "tail"
    /\ UNCHANGED <<nodeVars, finalizedBlock, rangeStart, endBlock, batch, batchLogs,
                   receiptsAt, faults, crashes>>

\* parseEthData hands convertLogs every log of a block read by receipts, where
\* the logs of a batch read by logs are those the filter asked for.
Decodes(n) == ByLogs \/ batch[n][n].kind \notin {"alien", "bare"}

\* Each block of the batch is decoded and pushed in a transaction of its own.
StoreRow(hash, rows, next) ==
    /\ phase = "store"
    /\ Decodes(currentBlock)
    /\ currentBlock \notin DOMAIN blocks
    /\ Push(currentBlock, hash, rows)
    /\ currentBlock' = next
    /\ phase' = IF currentBlock = endBlock THEN "tail" ELSE "store"
    /\ UNCHANGED <<nodeVars, finalizedBlock, rangeStart, endBlock, batch, batchLogs,
                   receiptsAt, faults, crashes>>

LogsOf(n) == {e \in batchLogs : e.num = n}

\* Faulty variants of StoreBlock: the blocks of a batch share the variable of the
\* loop, the logs are not grouped by block, or currentBlock does not advance.
StoreLastBlock == StoreRow(batch[endBlock], LogsOf(currentBlock), currentBlock + 1)
StoreAllLogs == StoreRow(batch[currentBlock], batchLogs, currentBlock + 1)
StoreSameBlock == StoreRow(batch[currentBlock], LogsOf(currentBlock), currentBlock)

StoreBlock == StoreRow(batch[currentBlock], LogsOf(currentBlock), currentBlock + 1)

\* The insert of a block number that is already stored fails, and the tick
\* with it.
StoreRefused ==
    /\ phase = "store"
    /\ Decodes(currentBlock)
    /\ currentBlock \in DOMAIN blocks
    /\ phase' = "tail"
    /\ UNCHANGED <<nodeVars, storeVars, currentBlock, finalizedBlock, rangeStart, endBlock,
                   batch, batchLogs, receiptsAt, faults, crashes>>

\* The default case of convertLogs: an event of an unknown signature is an error,
\* and the tick ends before the block is pushed, as will every later one.
EventUnknown ==
    /\ phase = "store"
    /\ ~Decodes(currentBlock)
    /\ batch[currentBlock][currentBlock].kind = "alien"
    /\ phase' = "tail"
    /\ UNCHANGED <<nodeVars, storeVars, currentBlock, finalizedBlock, rangeStart, endBlock,
                   batch, batchLogs, receiptsAt, faults, crashes>>

-----------------------------------------------------------------------------
(* Failures.                                                                *)

\* An RPC or database error: the startup check panics, the catch-up sleeps and
\* reads its range again, a tick is given up.
CallFails ==
    /\ faults < MaxFaults
    /\ phase \notin {"down", "range", "tail"}
    /\ phase' = CASE phase = "check" -> "down"
                  [] phase = "catchup" -> "range"
                  [] OTHER -> "tail"
    /\ faults' = faults + 1
    /\ UNCHANGED <<nodeVars, storeVars, currentBlock, finalizedBlock, rangeStart, endBlock,
                   batch, batchLogs, receiptsAt, crashes>>

\* The process ends, and what it holds in memory is lost.
Ends ==
    /\ phase' = "down"
    /\ currentBlock' = 0 /\ finalizedBlock' = 0 /\ rangeStart' = 0 /\ endBlock' = 0
    /\ batch' = NoBatch /\ batchLogs' = {} /\ receiptsAt' = 0
    /\ UNCHANGED <<nodeVars, storeVars, faults>>

\* The process is killed or shut down.
Crash ==
    /\ crashes < MaxCrashes
    /\ phase # "down"
    /\ crashes' = crashes + 1
    /\ Ends

\* The node answers a number beyond its head with an empty block, whose number
\* BatchGetBlocks uses before it looks whether every block was found: a panic.
FetchBeyondHead ==
    /\ phase = "blocks"
    /\ endBlock > head
    /\ Ends
    /\ UNCHANGED crashes

\* convertLogs takes the first topic of a log that has none: a panic.
TopicMissing ==
    /\ phase = "store"
    /\ ~Decodes(currentBlock)
    /\ batch[currentBlock][currentBlock].kind = "bare"
    /\ Ends
    /\ UNCHANGED crashes

-----------------------------------------------------------------------------
\* The two moments at which a run may rule a reorganisation out.
ReorgAllowed ==
    /\ phase \in Fetching => ReorgDuringFetch
    /\ phase = "range" => ReorgBeforeCatchup

Node ==
    /\ \/ \E k \in Kinds : Mine(k)
       \/ \E n \in 1..head : \E kinds \in [n..(head + BranchGain) -> Kinds] : ReorgAllowed /\ Reorg(n, kinds)
       \/ \E n \in 1..head : Finalize(n)
    /\ UNCHANGED <<storeVars, procVars>>

Process ==
    \/ Start \/ CheckReorgData
    \/ TryBlockRange \/ SyncRange
    \/ SyncOnce \/ FetchLogs \/ (\E n \in 1..head : FetchBlock(n)) \/ FetchBeyondHead
    \/ FetchReceipts \/ MatchLogs
    \/ CheckParent \/ StoreBlock \/ StoreRefused \/ EventUnknown \/ TopicMissing

Next == Node \/ Process \/ CallFails \/ Crash

Spec == Init /\ [][Next]_vars

\* The process is a loop that a supervisor restarts, so it takes a step as
\* long as it has one; the number of failures is finite by MaxFaults.
FairSpec == Spec /\ WF_vars(Process)

-----------------------------------------------------------------------------
(* Properties.                                                              *)

\* The types of the store and of the process.
StoreTypeOK ==
    /\ DOMAIN blocks \subseteq Nat
    /\ \A n \in DOMAIN blocks : blocks[n] \in [1..n -> Cell]
    /\ \A e \in events : e.num \in Nat /\ e.hash \in [1..e.num -> Cell]

ProcTypeOK ==
    /\ phase \in Phases
    /\ currentBlock \in Nat /\ finalizedBlock \in Nat /\ rangeStart \in Nat
    /\ endBlock \in Nat /\ receiptsAt \in Nat
    /\ DOMAIN batch \subseteq Nat
    /\ \A n \in DOMAIN batch : batch[n] \in [1..n -> Cell]
    /\ \A e \in batchLogs : e.num \in Nat /\ e.hash \in [1..e.num -> Cell]
    /\ faults \in Nat /\ crashes \in Nat

\* Every variable has its type.
TypeOK == NodeTypeOK /\ StoreTypeOK /\ ProcTypeOK

Live(n) == n <= head /\ blocks[n] = CanonicalHash(n)

\* The store describes one branch of the chain: the stored blocks from the flow
\* contract on are ancestors of the highest one, and the event rows are exactly
\* the events of its ancestors, whatever mix of catch-up ranges, batches, pops
\* and restarts produced them (Push and Pop in store/store.go, the reorg checks
\* of sync/sync.go).
StoreOnOneBranch ==
    /\ \A n, m \in DOMAIN blocks :
          BlockWhenFlowCreated <= n /\ n <= m => blocks[n] = Hash(blocks[m], n)
    /\ \A m \in DOMAIN blocks :
          IsMaxBlock(m) => events = EventsOf(blocks[m], BlockWhenFlowCreated, m)
    /\ EmptyStore => events = {}

\* What a reader of the store relies on: when the highest stored block is on the
\* canonical chain, the event rows are the canonical events up to it, none
\* missing and none left over from an abandoned fork.
CanonicalTipComplete ==
    \A m \in DOMAIN blocks :
        IsMaxBlock(m) /\ Live(m) => events = EventsOf(chain, BlockWhenFlowCreated, m)

\* A stored block is final or as far behind the head as the configuration asks
\* (DelayBlocksAgainstLatest), also while the head is below that distance and
\* the subtraction in syncOnce wraps around.
KeepsDelay ==
    \A n \in DOMAIN blocks : n <= finalized \/ n + DelayBlocksAgainstLatest <= head

\* No reorg check discards a block that is on the canonical chain: neither the
\* loop at the start nor the parent check of a batch pops more than orphans.
CanonicalRowsStay ==
    [][\A n \in DOMAIN blocks :
          Live(n) => n \in DOMAIN blocks' /\ blocks'[n] = blocks[n]]_vars

\* Block n can only be stored by the catch-up, which reads by logs.
Undecodable(n) == ~ByLogs /\ n \in 1..head /\ chain[n].kind \in {"alien", "bare"}

\* The next block to store is one the ticks stop at.
StopsHere ==
    /\ Undecodable(currentBlock)
    /\ EmptyStore \/ IsMaxBlock(currentBlock - 1)

\* Once the chain and the failures stop, the store ends up on the canonical
\* chain, and either DelayBlocksAgainstLatest behind the head or, when batches
\* are read by receipts, right before a block with an event the scan cannot
\* decode: one foreign event stops the indexing for good (parseEthData,
\* convertLogs), and nothing else does.
CatchesUp ==
    <>[](/\ \A m \in DOMAIN blocks : IsMaxBlock(m) /\ BlockWhenFlowCreated <= m => Live(m)
         /\ \/ StopsHere
            \/ IF EmptyStore
               THEN head < BlockWhenFlowCreated + DelayBlocksAgainstLatest
               ELSE \A m \in DOMAIN blocks :
                       IsMaxBlock(m) => head <= m + DelayBlocksAgainstLatest)

-----------------------------------------------------------------------------
(* Refinement.                                                              *)

\* The store implements the index of one branch: the branch is that of the
\* highest stored block.  Rows below the flow contract carry no event, and no
\* reorg check looks at them.
IndexTop ==
    IF \E m \in DOMAIN blocks : IsMaxBlock(m) /\ BlockWhenFlowCreated <= m
    THEN CHOOSE m \in DOMAIN blocks : IsMaxBlock(m)
    ELSE 0

IndexBranch == IF IndexTop = 0 THEN Hash(chain, 0) ELSE blocks[IndexTop]

Index == INSTANCE ChainIndex
            WITH top <- IndexTop, branch <- IndexBranch, data <- events

\* Every step of the process extends the index along its branch, rolls back an
\* orphaned tip, or leaves the index alone.
ImplementsIndex == Index!IndexSpec
=============================================================================

# A TLA+ verification of 0g-storage-scan

0g-storage-scan indexes the storage and data-availability (DA) contracts of the
0g chain. It reads blocks and contract logs from a full node, keeps them in
MySQL, enriches the rows with data of the storage network (file status, hot or
standard class, node types), derives statistics and rankings from them, and
serves all of it over a REST API. This directory holds TLA+ modules that model
the state-changing parts of that program, the TLC configurations that check
them, and machine-checked proofs of the central properties.

Contents: [inventory](#1-inventory), [modules](#2-modules),
[runs](#3-runs-and-what-they-show), [proofs](#4-proofs),
[what is not modelled](#5-what-is-not-modelled), [what may come next](#6-what-may-come-next).

## 1. Inventory

Three kinds of process share one MySQL database; they know nothing of each
other but the rows they read and write.

| process | command | goroutines |
|---|---|---|
| sync | `cmd/sync.go` | `Syncer` (with `CatchupSyncer`), `StorageSyncer` x4, `PatchSyncer` x2 |
| stat | `cmd/stat.go` | ten storage statistics, three DA statistics |
| api | `cmd/api.go`, `cmd/da_api.go` | REST handlers, rate limiter, `ScheduleCache` |

| component | state | operations | correct when |
|---|---|---|---|
| `Syncer` (`sync/sync.go`) | `currentBlock`, `latestBlock`; tables `blocks` and event tables | load the last block, drop orphans at start, tick: read a batch, compare the parent, push | the store is one branch of the chain with exactly its events; it follows the head at the configured distance; it never drops a canonical block |
| `CatchupSyncer` (`sync/catchup.go`) | `currentBlock`, `finalizedBlock` | read the block range, read logs of a range the node may narrow, push | the events up to finality are complete, one row in `blocks` per range |
| chain access (`rpc/blockchain.go`) | none | batch reads of blocks, receipts, logs, with comparisons between the calls | a batch whose parts come from two forks is refused |
| `MysqlStore` (`store/store.go`) | all tables | `Push`, `Pop`, `UpdateFileInfos`, `UpdateSubmitByPrimaryKey` | a push is all or nothing, a pop removes every row from a block on |
| event tables (`sync/base_sync.go`, `store/store_*.go`) | nine tables, partitions of `submits` | `convertLogs`, `preparePartition`, `Push` with updates in place, `Pop` | the tables hold the rows of the stored blocks, and no key or partition stands in the way of a block |
| addresses, miners (`store_address.go`) | `addresses`, `miners` and caches | `Add` outside the push transaction, delta and absolute upserts | one row per address; whoever is in a row has an id; counters equal the rows counted |
| `StorageSyncer.LatestFiles` (`sync/storage.go`), `refreshFileInfos` (`api/storage/tx_api.go`) | `status`, `uploaded_seg_num` of submits | ask the indexer, write when the status advances | a status only advances; no pruned file is counted twice |
| `StorageSyncer.ReconcileStorageClass` | `storage_class` of submits and address_submits | page the hot set, promote, demote | both tables follow the hot set and agree |
| `StorageSyncer.RefreshNodeTypes` | `storage_node_types` | upsert and clear per source | a node's flags follow the last answer of each source |
| `StorageSyncer.NodeSyncHeight` | config row, alert counters | read status, upsert, alert | alerts on a gap |
| `PatchSyncer` (`sync/patch.go`) | `lastSubmitId`, `currentBlock`, `Extra` of submits, `mining_attempts` of miners | fill in L1 data of submits; count mining attempts | every submit is patched; an attempt is counted once |
| interval statistics (`stat_*.go`) | `*_stats` tables, a time cursor | statistics per hour and day, with the base interval | a row's figures are those of its interval |
| rankings (`topn.go`, `topn_submit.go`, `topn_reward.go`) | absolute counters of addresses and miners, a heap, a cursor | add a range of submits or rewards, rank, store | counters equal the rows up to the cursor, the ranking follows them |
| rankings per period (`topn_*_range.go`) | buckets of an hour, a start time | add an interval, delete old buckets; the API sums the buckets of a period | each item of the period counts once, whenever it is asked |
| expired and pruned files (`stat_submit_expired.go`, `stat_submit_pruned.go`) | per-address counters, an in-memory total, config rows | count a range, count pruned files | the total equals the sum of the counters and each file counts once |
| API keys (`rate/key_loader.go`) | LRU cache with a lifetime | two lookups, a query, a store | a key follows its row; a failed query harms one request |
| rate limiters (`rate/limiter_factory.go`) | strategies by name and by id, limiters | reload, look up, make, collect | a limiter limits by the rule of its strategy |
| `ScheduleCache` (`api/storage/cache.go`) | rankings, heights, totals | refresh every ten seconds, read | no answer is older than an earlier one; the memory follows the database |
| lists (`List...` of `store/`, their handlers) | none | count, sort, page | a client that pages to the end misses no row |
| answers about one account, miner or file (`api/storage/*_api.go`) | none | several reads in no transaction | the parts of an answer, and two answers, agree |
| commands (`cmd/`, `Must...`) | config row of the lifetime, contexts, WaitGroup | start, stop, restart | processes come up; an interrupted catch-up is not taken for a complete one; both processes use one lifetime |
| contract bindings, swagger docs, dashboards (`contract/`, `docs/`, `grafana/`) | none | generated | - |

What is hard to test here:

* the node answers a sequence of calls while its chain reorganises; every call
  of a batch may see another fork;
* the process dies between two transactions, and what it resumes from is read
  from the store or from the node;
* tables written by several goroutines and processes without a lock, each of
  which reads, calls a service, and writes later;
* two reads of one request, or two pages of one list, with writes in between;
* caches and limiters that are reloaded while requests hold what was loaded before;
* contexts that are cancelled while a goroutine is about to select on them;
* values kept both in memory and in the database, changed before a transaction
  that may fail;
* cursors over rows that a reorganisation may still remove;
* intervals, buckets and pages whose ends fall inside a block, an hour or a second.

The hazards, each at its line, are in PROJECT.json; every one names the properties
that would catch it going wrong.


## 2. Modules

A module models one component; its state is the state the code keeps, its
actions are the steps of the code between which another process can act. A step
is one call to a service or to the database, or a transaction; what a goroutine
computes between two calls is part of the step. A `CONSTANT` named `Max...` is a
bound for model checking and nothing in the code. Operators called a *faulty
variant* in a comment are not part of the model: they are the bugs against which
the properties are tested (each property is violated when its variant takes the
place of the definition, see `mutants` in PROJECT.json).

| module | models | stands on |
|---|---|---|
| `EthNode` | the full node: a chain that grows, reorganises above the finalized block, and finalizes (environment) | |
| `ScanStore` | `MysqlStore.Push`, `Pop`, `MaxBlock`: `blocks` and the event tables as one set of rows | |
| `ChainSync` | `Syncer` and `CatchupSyncer` with their calls to the node, failed calls and crashes | EthNode, ScanStore |
| `ChainIndex` | *abstract*: an index of one branch, extended along the branch or rolled back | |
| `ChainSyncInv`, `ChainSyncProofs` | the inductive invariant of `ChainSync`, and theorems | ChainSync |
| `EventStore`, `EventStoreProofs` | `convertLogs`, `preparePartition`, `Push`, `Pop`: the nine event tables with their keys | |
| `FileStatus`, `FileStatusProofs` | the writers of a submission's status: `LatestFiles`, `refreshFileInfos`, `StatSubmitPruned` | |
| `NodeTypes` | `RefreshNodeTypes` | |
| `StorageClass` | `ReconcileStorageClass` with pushes and pops | |
| `SyncHeights` | `NodeSyncHeight` and its alarm | |
| `L1Txs` | `PatchSyncer.L1Txs` over rows that are not final | |
| `MinerAttempts` | `PatchSyncer.MinerAttempts` | CountOnce |
| `SyncWorkers`, `SyncWorkersProofs` | the five workers above as those of one process | the five |
| `CountOnce` | *abstract*: items counted once, in order, per key | |
| `IntervalStat` | the statistics per interval (`AbsStat` and the seven that use it) | |
| `Topn`, `TopnProofs` | the overall rankings (`AbsTopn`, `TopnSubmit`, `TopnReward`) | CountOnce |
| `TopnRange` | the rankings per period (`TopnSubmitRange`, `TopnRewardRange`) | |
| `ExpiredFiles` | `StatSubmitExpired` | CountOnce |
| `StatWorkers`, `StatWorkersProofs` | the last four as workers of one process | the four |
| `KeyCache` | `LimitKeyLoader`: the cache of API keys | |
| `LimiterFactory` | the strategies, their reload, and the limiters | |
| `ApiCache` | `ScheduleCache` and the handlers that read it | |
| `Listing` | the lists of the REST API, page after page | |
| `Answers` | the answers about one account, miner or file | |
| `Lifecycle` | start, stop and restart of the processes | |
| `Services`, `ServicesProofs` | the last six as parts of one system | the six |
| `FoldLemmas` | lemmas: induction over finite sets and sequences, sums, folds, orders | |
| `MC...` | values of constants for TLC | |

### ChainSync, EthNode, ScanStore

A branch of the chain is a sequence of cells, a cell says which fork made it and
whether the block has transactions and events: `"empty"` (no transaction),
`"idle"` (a transaction without an event of the contracts), `"busy"` (with
events), `"alien"` (also with an event of a signature the scan does not know) and
`"bare"` (also with a log without topics). The hash of a block is the branch up to it (`Hash`), so equal hashes
mean equal ancestors, and a parent hash is `Hash` of one block less.

| code | model |
|---|---|
| `Syncer.currentBlock`, `CatchupSyncer.finalizedBlock` | `currentBlock`, `finalizedBlock` |
| the position of the goroutine | `phase`: `down`, `check`, `range`, `catchup`, `tail`, `logs`, `blocks`, `receipts`, `parent`, `store` |
| `MustNewSyncer`, `loadLastSyncBlock` | `Start` |
| `checkReorgData` and `revertReorgData` | `CheckReorgData`, one stored block per step |
| `tryBlockRange` | `TryBlockRange` |
| `syncRange` with `batchGetLogsBestEffort` | `SyncRange`, any end the node may narrow the range to |
| `syncOnce`: read of the head, batch size | `SyncOnce`, with the subtraction modulo `Uint64Mod` |
| `getEthDataBatchByReceipts` | `FetchBlock`, `FetchReceipts`, one call per step |
| `getEthDataBatchByLogs` | `FetchLogs`, `FetchBlock`, `MatchLogs` |
| the parent check, `Store.Pop` | `CheckParent` |
| the loop of `Store.Push` | `StoreBlock`, one transaction per step; `StoreRefused` for the duplicate key |
| `parseEthData`, `convertLogs` | `Decodes`; `EventUnknown` for its error, `TopicMissing` for its panic |
| `BatchGetBlocks` beyond the head | `FetchBeyondHead`, a panic |
| an error anywhere | `CallFails`; a process that ends: `Crash` |

`EthNode.Mine`, `Reorg` and `Finalize` may happen between any two steps. A
reorganisation replaces the blocks from a number above the finalized block by
blocks of a new fork.

### FileStatus

`truth` is the status of a file in the storage network, `row` the status in
`submits`, `addrRow` the one in `address_submits`. `jobs` holds what the worker
and one handler of the API have read and not written yet: a job is begun
(`LatestFiles`, `RefreshFileInfos`), asks the indexer once per file
(`GetFileInfo`), and writes (`UpdateSubmit`). `StatSubmitPruned` walks over the
submissions in batches: `NewRound`, `QueryPruned`, `CommitPruned` or
`CommitFails`. The statuses of the code between available and pruned are one
value, `Uploaded`, since nothing tells them apart.

### Parts that share no data: SyncWorkers, StatWorkers, Services

The workers of a process, and the parts of the API server, read and write
different tables and variables. `SyncWorkers`, `StatWorkers` and `Services` take each
as an `INSTANCE` over the variables of the composition, and a variable (`worker`,
`running`) names the one that runs: a step is a step of that one, and leaves the
data of the others alone. Only the one that runs has a choice of its initial state,
so the states of a composition are the sum of those of its parts. That what holds of a
part alone holds of it in the composition is proved, not presumed (section 4). Where parts do share data, a single module has
them side by side: `FileStatus` its three writers, `ChainSync` the process with the
node and the store, `IntervalStat`, `L1Txs` and `StorageClass` the pushes and pops
beside the worker, `Answers` the two processes whose rows a handler reads.

### EventStore

The events of a block are of ten types (`Decoded`), their rows go to nine tables
(`RowsOf`). `Convert` adds the addresses, miners and clients a block names, outside
any transaction; `PreparePartition` adds at most one partition to `submits`; `Push`
inserts the rows and then changes signers and DA submissions in place, or `Refused`
ends it at a duplicate key or a missing partition; `Pop` removes the rows of the
tip from every table. `undone` says whether a removed block had changed a row in
place, which `Pop` does not restore.

### StorageClass

The hot set is the state of an external router that caches and evicts files at
any time. A cycle pages through it in the order of the roots, then writes the
promotions, chunk by chunk, each chunk in two statements for the two tables,
then reads the hot roots of `submits` and writes the demotions in the same way.
`held` is a history variable: the roots the router has had since the cycle
began; `torn` another, the roots whose rows per address were left hot when those of
`submits` were not.

### NodeTypes, SyncHeights, L1Txs

`NodeTypes` asks two sources, the indexer and the router, which may be out; each
statement (`Upsert...`, `Clear...`) is a step. `SyncHeights` is the round of
`NodeSyncHeight`: `GetStatus`, `CheckGaps`, `AlertErr` with the counter of the alarm,
and notices that may be lost. `L1Txs` runs over the submissions by index and asks the
node for the transaction and the receipt of each; `Push` and `Pop` are the steps of
the sync process that follows the chain.

### ExpiredFiles, MinerAttempts, CountOnce

Both components have a cursor in memory, a cursor in a config row, and counters.
`CountOnce` says what they are for: the items before a position are counted,
each once, under its key, and the position only moves up. `StatSubmitExpired`
writes its cursor in the transaction of the counts and implements `CountOnce`.
`MinerAttempts` stores its cursor on another connection: it implements
`CountOnce` until the first restart, and afterwards counts nothing twice.

### IntervalStat, Topn, TopnRange

`IntervalStat` is one of seven statistics, which differ in what they count (new
rows, or senders by their first block), where their first total comes from, and
whether they count who was active (`stat`). `NextTimeRange` and `CheckFinalized` are the
two reads of `tryAcquireTimeRange`, `CalculateStat` the transaction. Time is counted
in base intervals, and the longer types are named by their length.

`Topn` is the round of a ranking: `NextStatRange` reads the newest final item,
`ReadCounters` groups the range and reads the counters, `CalculateStat` is the
transaction, and `CalculateFails` its rollback, behind or before the sort. `heap`
is the ranking in memory, `heapRow` the one in `configs`; a ranking is a function
from keys to counters, and any of the best `N` are kept where counters are equal,
as the iteration over a Go map does. With `Pos` the submission index it is
`TopnSubmit`, with `Pos` the block number `TopnReward`; `sortedTo` is a history
variable, the end of what was sorted.

`TopnRange` keeps buckets of an hour. `NextTimeRange` is the gate, `CalculateStat` adds
an interval, deletes the old buckets and stores the start in whole seconds; the
clock is finer (`Second` units of it make a second), and `Topn` sums the buckets of
a period at any moment.

### KeyCache, LimiterFactory, ApiCache

`KeyCache` follows one key: `Lookup`, `Recheck` under the lock, `Query`, `StoreCache` for each
of several requests, `Expire` and `Evict`; `Untyped` is the nil an error leaves in the
cache. `LimiterFactory` reloads the strategies row by row, in any order, while a request is
between the lookup of its strategy and the making of a limiter. `ApiCache` counts
the data by version: `Refresh` runs the three parts, each of which may fail at each
query, and the handler of the summary copies the two heights in two steps.

### Listing, Answers

A client of `Listing` asks for one list in one order and reads page after page, each in two steps
for the two queries of a request, `ReadTotal` and `ReadPage`; rows, and addresses before them, are added
between any two steps, and a miner may move. `before`, `unsure`, `still` and `slipped` are history
variables: what the client was promised.
`Answers` has one handler per behaviour, each of its reads a step: the row of an
account and the time (`getAccountInfo`), the query over its rows (`getAccountStats`), the
ranking and the rows of the miners (`topnReward`), the row of a file and the node
(`getStorageTx`). `toldExpired` and `promised` remember what was told before.

### Lifecycle

`stage` is where a process is in its main function, `routine` where each goroutine is.
`MustInitDataContext`, `StartSyncService`, `MustDefaultRangeStart`, `StartStatWorker`, `InitTokenInfo`,
`MustInitExpireSeconds` are the steps of the start, `Fatal` what ends a process whose
`Must` function fails, `TryBlockRange`, `SyncRange`, `FirstSelect` and `Tick` the way of the syncer from the catch-up
to the head (`behind` says whether finalized blocks are missing), `Terminate`, `Wait` and `Return` the graceful stop, `Killed` any
other. The market may get another reward contract (`Upgrade`), the node may be out
(`Outage`). `late` holds the goroutines that begin after the wait has returned.

## 3. Runs and what they show

Every run checks all interleavings of its actions, within its bounds. Deadlock is
not checked where the bounds on failures, blocks or changes bring every behaviour
to an end.

| run | module, configuration | checks | distinct states |
|---|---|---|---|
| `sync_receipts` | ChainSyncInv, ChainSyncInv_Receipts.cfg | TypeOK, StoreOnOneBranch, CanonicalTipComplete, CanonicalRowsStay, ImplementsIndex | 401,734 |
| `sync_logs` | ChainSync, ChainSync_Logs.cfg | StoreOnOneBranch, KeepsDelay | 655,652 |
| `sync_live` | ChainSync, ChainSync_Live.cfg | CatchesUp | 180,074 |
| `files` | MCFileStatus | MarkedAreCounted, TotalCoversAddresses, PrunedSettle | 101,953 |
| `sync_workers` | MCSyncWorkers, SyncWorkers.cfg | ReportedAreSpared, SourcesFollowed, CachedAreSpared, ClassFollowsHotSet, PassedArePatched, UntouchedPatched, CountedAtMostOnce, CountsOnceWhileRunning, CountedWhileRunning, AlarmFollows | 202,924 |
| `stat_workers` | MCStatWorkers, StatWorkers.cfg | RowsExact, ActiveAreKnown, RankingFollows, RankedOnce, WindowExact, OnlyExpired, ImplementsCountOnce, EverythingCounted | 152,995 |
| `events` | MCEventStore | RowsFollow, UpdatesFollow, ChainStored | 65,394 |
| `services` | MCServices, Services.cfg | SameExpiry, NothingSkipped, ComesUp, FailureIsLocal, LimitersCurrent, NeverOlder, MemoryFollows, ListsComplete | 192,973 |
| `sync_restart` | ChainSync, ChainSync_Restart.cfg | CatchesUp, violated | |
| `sync_empty_block` | ChainSync, ChainSync_EmptyBlock.cfg | CanonicalTipComplete, violated | |
| `files_twice` | MCFileStatus, FileStatus_Twice.cfg | CountedOnce, violated | |
| `key_panics` | KeyCache, KeyCache_Panics.cfg | NoRequestPanics, violated | |

### The sync process

`StoreOnOneBranch`: the stored blocks are ancestors of the highest one, and the
event rows are exactly the events of its ancestors. `CanonicalTipComplete`: when
the highest stored block is canonical, the rows are the canonical events up to
it. `CanonicalRowsStay`: no step drops or rewrites a canonical block.
`ImplementsIndex`: every step extends the index along a branch, rolls an
orphaned tip back, or leaves it alone. `KeepsDelay`: a stored block is final or
`DelayBlocksAgainstLatest` behind the head. `CatchesUp`: when chain and failures
come to rest the store reaches the canonical chain, or, when batches are read by
receipts, the last block before one that cannot be decoded.

*Foreign events.* Read by logs, a batch has the logs of the followed contracts. Read by
receipts it has all logs of all its transactions (`parseEthData`), and `convertLogs` makes
an error of every event whose signature it does not know: the tick fails, and so does
every later one. A log without topics makes it panic. So one transfer of a token beside
an event of the flow contract stops the index until blocks are read by logs, or until the
block is final and the process is started again, since the catch-up reads by logs.
`sync_live` has such blocks (`"alien"`), `sync_receipts` those that make it panic (`"bare"`),
and `CatchesUp` says that the ticks stop there and nowhere else.

*Bounds.* Up to four blocks, the flow contract in block 2 (or 0), batches of two
blocks (in `sync_logs`, of all that is far enough from the head), one reorganisation
(two in `sync_live`, each of which may lengthen the chain), one failed call, one
crash. A chain of four blocks has a block before the contract, one the catch-up
stores, and a batch of two behind it; a reorganisation may replace any suffix
above finality, so it hits the tip, a batch in the middle of its calls, and both
blocks of a batch. In `sync_logs` the head starts below the delay, where the
subtraction wraps around: no batch is stored then, since the node does not have
the blocks it asks for, and `BatchGetBlocks` panics over the first of them
(`FetchBeyondHead`). What one branch and one batch keep is an invariant that
relates neighbours (section 4), so that longer chains add nothing; the proof
confirms it.

*Two switches* of the environment are constants, because some claims need them.
`ReorgDuringFetch` allows a reorganisation between the calls of one batch;
`ReorgBeforeCatchup` one between the reorg check of the start and the catch-up.
`sync_receipts` and `sync_live` run with the first, with blocks that all have a
transaction; `sync_logs` without. `sync_empty_block` shows what happens in
blocks without transactions.

*Fairness.* `WF_vars(Process)`: the sync goroutine is a loop that takes its next
step as long as it has one, and `docker-compose.yml` starts the container again
whenever it ends (`restart: unless-stopped`); every
call fails only finitely often (`MaxFaults`). No fairness is assumed of the
node.

### Files

`files`: two files of one sender; worker, handler and statistic write their
status in any order, with up to two failed writes, rolled back transactions or
restarts. `MarkedAreCounted`: a file marked as counted is in the counter of its
sender. `TotalCoversAddresses`: the stored total is never behind the sum of the
counters. `PrunedSettle`: a pruned file that stays
among the newest comes to be shown as pruned for good, and no row shown as pruned waits for
ever to be counted. Of a file that newer ones push out it promises nothing: when nobody
asks for it again, or a handler writes back what it had read before, it may be shown as
uploaded for ever. The worker handles the newest
file and the statistic both, so the newest one races with the statistic and the
other one does not. Fairness is weak for the worker's loop and the statistic,
and for the steps of a job that is under way; it is strong for the answer of the
indexer about a file that is asked for again and again (the indexer may be
unreachable, but not for ever).

### Workers of the sync process

`sync_workers` runs one of five workers per behaviour, with failed calls (one; two for
the attempts, three for the heights) and restarts wherever a round may end early.

* *Node types*: three providers on two hosts, pages of two, two changes of the sources
  (outages included). A host reported throughout keeps its flag; either source is
  followed when the other is out for good.
* *Storage class*: two roots in pages and chunks of one, so that a listing has two pages
  and a set two chunks, with four changes of the hot set or the tables.
  No file the router has held since the cycle began is demoted, whatever page fails;
  once nothing changes the classes follow the hot set, in both tables. Excepted are the
  rows per address of the roots in `torn`. The comment on `ReconcileStorageClass` has it
  that labels heal themselves, but a demotion that fails between its two statements leaves
  the rows per address hot, and no later cycle lists them, since it looks for hot files
  in `submits` only. They stay hot until the file is cached and evicted again.
* *Layer-1 data*: three submissions, batches of two, two reorganisations, a pruned
  transaction. Neither cursor passes a row that no reorganisation touched without
  patching it, and all such rows are patched in the end.
* *Mining attempts*: five attempts of three miners in four blocks, one miner never
  registered, two restarts. No attempt is counted twice; until the first restart each
  is counted once, and in the end all are, up to the call without a registration,
  where the worker stops for good.
* *Sync heights*: heights up to four, a gap of one, notices after two rounds and
  again after two more, of which those that say "down" may be lost. What people were
  told comes to be true, and the height of the storage node comes to be stored.

### Workers of the statistics process

`stat_workers` runs one of five per behaviour.

* *Statistics per interval*: each of the seven, with up to three blocks with ties and
  gaps in their times, base intervals from 2 on, longer intervals of 2 and 4, one popped
  tail and a failed round. Each row counts what lies in its interval, with the total
  before it, and those who were active; nobody is active who is not known.
* *Rankings*: six submissions or rewards of three senders or miners in three blocks, a
  ranking of two, ranges of three, which end inside a block and at its end, with equal
  counters. Each range is counted exactly once, and the stored ranking is that of the
  stored counters, from the moment the cursor has passed all that was sorted.
* *Rankings per period*: two periods of one and two hours (of eight units), intervals
  of four, a second of two: blocks have whole seconds, the clock has not. Whenever it is asked, a period
  counts exactly once the items of the intervals that start in its full hours, up to the
  last that is stored, and no others. These are the items of its full hours when the
  intervals start with the hours. They do so for a chain younger than the longest period; for
  an older one the first interval starts that period ago, at whatever second the process was started
  (`topn_submit_range.go:52`), and all that follow keep its offset: the interval that straddles the
  first full hour goes to the bucket before, which the period leaves out.
* *Expired files*: five files of two senders, batches of two, two failed transactions
  and two restarts; blocks of one and of two files, so that a range ends inside one.
  No file is counted before it has expired, and the counts implement `CountOnce`.

`EverythingCounted`: each comes to count all that is there and final. Of the newest
expired or final block only the first item is asked for: of equal blocks the query
returns any.

`RowsExact` is checked with `PopInGate = FALSE`: no block is popped between the two
reads of the finality check. With `TRUE` it fails: the block behind the interval may be
popped between the two, and the node then says that its number is final. For that to
happen, finality has to reach the popped block's number between two consecutive calls.

### Events

`events`: blocks of five contents with the events of two parties, up to three on the
chain, partitions of two submissions, one reorganisation of any depth, and one
failure at any statement. The contents have every type of event, two submissions
around an epoch, a signer with its socket and one whose socket is changed later, blobs
of both parties that a later block verifies, and two blobs of one sender in one block.
`RowsFollow`: the nine tables hold the rows of the stored blocks and no others, and
nobody is in a row who has no id. `UpdatesFollow`: sockets and verified flags are
those the stored blocks leave, as long as no block is removed that had changed some.
`ChainStored`: every block gets stored, up to one that no round can store: whose own rows have one
key (two blobs with different roots of one sender), or that holds an event of a contract
the scan does not follow. What such a block has added before it was refused stands in
the way of no other.

### Start, stop and the API

`services` runs one of six parts per behaviour.

* *Life*: sync, stat and api with two disturbances among signals, kills, failed calls,
  outages of the node and an upgrade of the reward contract. All processes come up in
  the end, and stat and api hold one lifetime. `NothingSkipped`: the head is followed
  only behind a complete catch-up. The catch-up returns in the same way when it is done and
  when it was interrupted, and nothing checks which it was: a range that fails must be
  tried again, and an interrupted catch-up must meet a context that is done at the first
  `select`, before the ticker is due. Hence `SlowSelect = FALSE`: the ticker's five seconds do not
  pass between its making and that `select`; if they could, `select` might take the tick.
* *Keys*: two requests with one key, two changes of its row, two failed queries, expiry
  and eviction at any time. A failed query harms no other request, and the cache comes
  to hold the row.
* *Limiters*: two strategies over three ids, two edits of rows and a reload that fails,
  while a request is on its way; rows are not renamed (`CanRename = FALSE`; two rows
  that swap their names in one reload lose one of them, against `NamesAgree`). A
  limiter limits by the rule its strategy has now.
* *Memory*: two periods and the overall ranking, two heights, the totals; one failed
  query. No handler shows a ranking older than one it has shown.
* *Lists*: every list in both orders, four rows of three owners in pages of two, one or
  two rows added at once at any time, also between the two queries of a request, of which
  the first reads the total and the second the rows. The first row has the index 0 here,
  and 1 in Listing_Address.cfg. A client that pages to the end misses
  no row that was there when it began; without additions it sees each once, in order.
  There are three exceptions. Rows that come in between the two queries of the *last* request,
  ahead of its page, push as many rows behind its end, and the client has read up to the total
  (`slipped`). The list of all submissions takes the greatest index for their number: when indexes start at 0,
  its ascending pages step over one row, and its descending ones may end before the row 0
  (`Overstepped`, `Unasked`). Rows whose order is not determined, or that the counter of an address
  lags behind, may be missed (`unsure`).
* *Answers*: two files of an account, four units of time, a lifetime of one and a time
  ahead of two; a miner with two wins; a file whose gas is patched. What one answer
  says expired, the other does not call healthy later.

### Why the bounds are enough

The bounds are the smallest at which each case the text above names does happen: a
range, page, chunk or batch that is full and one that is not, one that ends inside a
block and at its end, two that overlap in time, a failure before and behind the step
that matters, and a second round after it. Every action of every specification is
taken in some run. What is proved holds without the bounds.

### Fairness

Fairness of the workers is weak, of their own steps: each is a loop that sleeps and
runs again after an error. Requests that are under way end; the two tickers of the API
server (ten seconds, and the reload of the strategies) go on; entries of the key cache
expire. A supervisor starts a process again (`restart: unless-stopped`), and the full
node comes back. Strong fairness is used twice: for the answer of the indexer, and for
the `select` of the syncer, which, once a tick is due, chooses at random between a tick and a cancelled
context and so takes the latter in the end. The environments (router, indexer, chain,
clock, operator) are not fair, but for `Follow` of `L1Txs`, the sync process that it
reads from.

### Where the code disagrees with what it says

Four runs end in a counterexample; PROJECT.json quotes the lines.

* `sync_restart`: a process that is restarted while the store is ahead of
  finality never stores another block. The catch-up returns because the store is
  past finality, `Sync` goes on from `finalizedBlock + 1`, which is stored, and
  every tick fails on the duplicate key, until the process is started again
  after finality has passed the store.
* `sync_empty_block`: when the chain reorganises between the reads of the blocks
  of one batch, the blocks of the batch are of two forks. A block with
  transactions is found out by its receipts, one without is compared with
  nothing, and only the first block of a batch is compared with the store.
* `files_twice`: `LatestFiles` reads the newest submissions without their
  status, so a counted file looks new; the worker writes `pruned` again and the
  statistic counts it again.
* `key_panics`: a query that fails while the key is not cached leaves a nil in the
  cache that is not the nil of a missing key; the next request with the key panics on
  its conversion.

Further configurations reproduce counterexamples that are not part of the list
of runs, each with one property:

| configuration | module | violated | what happens |
|---|---|---|---|
| ChainSync_LogsRace.cfg | ChainSync | CanonicalTipComplete | logs are read before the blocks; a block that replaced one without logs is stored without its events |
| ChainSync_CatchupRace.cfg | ChainSync | CanonicalTipComplete | a tip orphaned between the reorg check and the catch-up stays below the ranges |
| FileStatus_Drift.cfg | MCFileStatus | TotalIsSum | the total in memory is raised before a transaction that rolls back |
| EventStore_Roots.cfg | MCEventStore | EveryBlockStored | two blobs of one sender with different roots in a block have one key: the block is refused for ever |
| SyncHeights_Lost.cfg | SyncHeights | AlarmFollows | a lost notice that the syncer is up again is not repeated |
| ApiCache_Torn.cfg | ApiCache | SummaryOfOneRefresh | the summary has two heights of two refreshes |
| Listing_Address.cfg | Listing | AddressListed | the submissions of an address are counted by a counter that lags behind, and are listed in one order whatever the client asks for |

The modules state more that does not hold, so that a reader can ask for a trace by
putting the property into a configuration:

| property | module | why it fails |
|---|---|---|
| TotalIsSum | ExpiredFiles | as in FileStatus |
| AttemptsCounted | MinerAttempts | after a restart between the cursor and the commit the counts are lost |
| TablesAgree | StorageClass | a demotion that fails between the writes of the two tables, or rows replaced between them, leave a row hot in one of them |
| AddressOnlyHot | NodeTypes | a host that is no longer hot keeps its provider address |
| AllPatched | L1Txs | a row that replaces one behind the cursor is never patched |
| ExtraIsOwn | L1Txs | a row replaced between the read and the write gets the other one's extra data |
| TxsExact | Topn | a transaction whose submissions are in two ranges is counted in both |
| RankingRight | Topn | a ranking sorted in a transaction that is rolled back stays in memory; a shorter range of the retry stores it with counters it is ahead of |
| TotalsExact | IntervalStat | the first total of signers is that of the clients |
| ActiveAlwaysKnown | IntervalStat | a sender's first block is reorganised away and comes again earlier |
| WindowAlwaysExact | TopnRange | the first interval starts inside an hour whose bucket begins before the longest period, and is left out of it |
| UpdatesAlwaysFollow | EventStore | `Pop` does not restore what a block had changed in place |
| NoneLate | Lifecycle | a goroutine adds itself to the WaitGroup after the wait has returned |
| QuietWhenClosed | Lifecycle | the goroutines of StorageSyncer and PatchSyncer are not in the WaitGroup, and work when the database is closed |
| AddressesCurrent | Lifecycle | a syncer keeps the reward contract it found when it started |

## 4. Proofs

TLAPS checks the theorems for every value of the constants that the assumptions
allow: chains, batches and delays of any length, any files, senders, miners and
roots, any number of failures.

| theorem | module | states |
|---|---|---|
| `TypeCorrect` | ChainSyncProofs | `Spec => []TypeOK` |
| `DelayIsKept` | ChainSyncProofs | `WrapIsFar` implies `Spec => []KeepsDelay` |
| `Invariance` | ChainSyncProofs | `Stable` implies `Spec => []IInv` |
| `OneBranch`, `TipComplete` | ChainSyncProofs | `Stable` implies `[]StoreOnOneBranch`, `[]CanonicalTipComplete` |
| `RowsStay` | ChainSyncProofs | `Stable` implies `CanonicalRowsStay` |
| `IndexRefinement` | ChainSyncProofs | `Stable` implies that the sync process implements `ChainIndex` |
| `Invariance` | EventStoreProofs | the inductive invariant of the event tables |
| `RowsAreThoseOfBlocks`, `UpdatesAreThoseOfBlocks` | EventStoreProofs | `[]RowsFollow`, `[]UpdatesFollow` |
| `TypeCorrect` | FileStatusProofs | `Spec => []TypeOK` |
| `TotalCovers` | FileStatusProofs | `[]TotalCoversAddresses` |
| `MarksCounted` | FileStatusProofs | `NumFiles <= MaxCount` implies `[]MarkedAreCounted` |
| `Invariance` | StatWorkersProofs | the inductive invariant of the expired files |
| `Refinement`, `OnlyExpiredCounted` | StatWorkersProofs | the statistics process implements `CountOnce`; `[]OnlyExpired` |
| `StatInvariance` | StatWorkersProofs | the inductive invariant of the seven interval statistics |
| `RowsAreExact`, `KnowsTheActive` | StatWorkersProofs | `~PopInGate` implies `[]RowsExact`; `[]ActiveAreKnown` |
| `PeriodInvariance`, `WindowIsExact` | StatWorkersProofs | the inductive invariant of the rankings per period; `[]WindowExact` |
| `SortedIsTop`, `Invariance` | TopnProofs | the heap sorts; the inductive invariant of one ranking |
| `RankingsFollow` | StatWorkersProofs | that invariant in the statistics process |
| `RankingIsRight`, `RankingCountsOnce` | StatWorkersProofs | `[]RankingFollows`, `RankedOnce` |
| `ClassInvariance`, `Spared` | SyncWorkersProofs | the inductive invariant of the storage class; `CachedAreSpared` |
| `MiningInvariance` | SyncWorkersProofs | the inductive invariant of the mining attempts |
| `AtMostOnce`, `OnceWhileRunning` | SyncWorkersProofs | `[]CountedAtMostOnce`, `CountsOnceWhileRunning` |
| `PassedPatched` | SyncWorkersProofs | `[]PassedArePatched` |
| `ReportedSpared` | SyncWorkersProofs | `ReportedAreSpared` |
| `FailuresAreLocal` | ServicesProofs | `[]FailureIsLocal` |
| `LimitsInvariance`, `LimitersFollow` | ServicesProofs | `~CanRename` implies the inductive invariant of the limiters, `[]LimitersCurrent` |
| `MemoryInvariance`, `ToldInvariance` | ServicesProofs | the inductive invariants of what is kept in memory, and of what was told |
| `NothingTakenBack` | ServicesProofs | `NeverOlder` |
| `PagingInvariance`, `ListsAreComplete` | ServicesProofs | the inductive invariant of the lists; `[]ListsComplete` |
| `SameLifetime` | ServicesProofs | `[]SameExpiry` |
| `NothingIsSkipped` | ServicesProofs | `SlowSelect = FALSE` implies `[]NothingSkipped` |

### Induction over data

The library's induction theorems take an operator as a parameter, which the provers
at hand cannot instantiate. `FoldLemmas` gets along with sets: that a set of naturals has
a smallest element follows from the library's fact that `<` is well-founded on `Nat` and
that a well-founded relation has minimal elements, none of which takes an operator
(`SmallestElement`). An induction is then a proof by the smallest counterexample.

What the models are built from rests on that. A fold over a finite set is a recursive
function over its subsets, and that there is such a function has to be shown: it is built
for sets of more and more elements. From it follow what a sum is of one element more,
of a union and of equal summands, and what a fold over a sequence is of one element more.
The last section is about the orders of a finite set by a key: which elements come ahead
of one (`Ahead`), that an element no other one equals comes right behind those ahead of it
(`OrderPlace`), that without equal elements there is exactly one order (`OrderExists`,
`OrderUnique`).

### The sync process

`Stable` (ChainSyncInv) is what the theorems of ChainSyncProofs assume of the environment. Each
part is needed; the configurations named show what happens without it.

* no reorganisation between the reorg check of the start and the catch-up
  (ChainSync_CatchupRace.cfg);
* a reorganisation inside the calls of one batch only when batches are read by
  receipts and every block has a transaction (ChainSync_LogsRace.cfg,
  ChainSync_EmptyBlock.cfg);
* by logs, `DelayBlocksAgainstLatest` is not more than the first head, so that the
  subtraction does not wrap around and a batch does not reach beyond the head.

`StoreOnOneBranch` is not inductive. To keep it, a batch must be one branch when it
is stored (`BatchReady`) and extend the stored one. The second is checked for the
first block of a batch, the first for no block: it follows from what was compared
while the batch was read. `ReceiptsRead` says so: of the blocks whose receipts have
been read, each has the events of its own hash, and if a later block of the batch
is canonical at that moment, it is an ancestor of that block. A reorganisation
cannot break this, since it only makes fewer blocks canonical; a block that becomes
canonical must carry a new fork, and `BatchBlocks` says that no block that has been
read does (`ForkInv` numbers the forks). When the last receipt has been read, its
block was canonical at that moment and all others are its ancestors.

The parent check itself is skipped where the row below the batch is missing.
`DenseFrom` and `FollowInv` say that this is never so: the catch-up leaves gaps
only below rows that are final (`GapInv`), the syncer starts behind the finalized
block, and a reorganisation never reaches that. `CatchupInv` carries the
canonical store from the reorg check through the ranges. The proof has one lemma
per action for the types and for each part the action can disturb; the lemmas about `Hash` and `EventsOf` come first.

`IndexRefinement` needs one fact more. The refinement looks at the store through its
highest row, unless that lies below the flow contract, where rows have no events and no
reorg check looks. `TopExists` says that with a row from the contract on there is a
highest one: the types alone would allow infinitely many. Then every push from there on
extends the branch by the new block and its events (`PushExtends`), a push below does not
show (`PushHidden`), and every pop takes an orphan and falls back to the row of its
parent (`PopRollsBack`), which `DenseFrom` says is there. The two popping actions learn
that the block is an orphan in different ways: the check at the start compares the row
with the node, the parent check with the parent of a block that has been read.

`IInv` can be checked with TLC as an invariant of ChainSyncInv_Receipts.cfg.

`KeepsDelay` needs less: `DelayInv` says of the batch under way that it ends at the
distance, or beyond any head. The second is what the subtraction that wraps around
comes to, and then the batch is never complete, for the node does not have its
blocks. `WrapIsFar` is what that takes: the chain is longer than the delay from
the start, or a batch is longer than the chain ever gets. A chain shorter than the
delay that grows past the end of such a batch while it is read would break the
distance.

### The counters

`ExpiredFiles`: the stored counters equal the number of files up to the stored
cursor (`CountedExactly`). That is inductive together with: the cursor in memory
follows the stored one (`CursorsAgree`, which holds because it moves after the
commit and is loaded from the row after a restart), the range starts there and
ends below the first file that has not expired (`RangeOK`), and the groups are
those of the range (`GroupsOK`). The numbers of files of two ranges add up by the
library's facts about cardinalities. `Refinement` maps a commit to one step of
`CountOnce` and everything else to a stutter.

`MinerAttempts`: the counts cover at most the calls below the cursor in memory,
and the stored cursor is never behind it (`CountedBelow`), since it is written
first (`StoredFirst`). So a restart resumes at or behind what is counted: counts
can be lost, never doubled. Until the first restart they are exact
(`CountedExactly`), so that a step counts just what the cursor steps over: that is
`CountsOnceWhileRunning`.

`StorageClass`: while it pages, a cycle has seen every held root up to its
cursor (`SeenUpToCursor`), whatever is evicted; after the last page it has seen
all of them (`SeenAll`), and it demotes only what it has not seen
(`DemotesUnseen`).

### The event tables

`IInv` of `EventStore` says which tuples are in each of the nine tables: those of the
stored blocks (`RowsOfBlocks`). With it goes that everybody named by a
stored block, or by one that is about to be stored, has an id (`BlocksOK`): ids are added outside
the transaction, and a round that failed leaves them. Two columns are changed in place. Until a block that changed one
is popped they hold what the last stored block gave them (`UpdatesFollow`), a statement about
the largest of the positions of an event, so that it takes `LargestElement`.

### The status of files

`TotalCoversAddresses` is not inductive: the stored total is the one in memory, which is
raised when a batch is read and stays so when its transaction is rolled back.
`TotalCoversBatch` says that it covers the counters and that batch together, unless it stands
at its bound. `MarkedAreCounted` is inductive
with the types: what a worker or handler has read may be written long after the statistic has
marked the file, but none of them writes the mark or takes it away. The
counters of the model stop at `MaxCount`, and one that stands still has counted nothing: hence
`NumFiles <= MaxCount`.

### Rankings and periods

`SortedIsTop` is about the heap alone: in whatever order keys are pushed, what is left
are as many as fit, and none that is left out is above one that is in. It is a fold
over a sequence in no given order, so it is proved for the elements up to each position.
`IInv` of a ranking says of the counters that they are those of the items up to the cursor
(`Counted`), and of the two rankings, in memory and in the row, that each follows them up to the
later of the cursor and the position that was sorted (`RankingsFollow`). A round that is
rolled back behind its sort leaves a ranking in memory that is ahead of the counters: the
value of a key in it lies between its counter and the count up to that position, and
for each counted key that is not in it there are `N` others that are, or will be on the
way, at least as high (`Above`). When the cursor gets there, that says it is the top.

`PeriodInv` follows the buckets of `TopnRange`. Each holds the counts of the ranges that
start in its hour (a sum over ranges), or was removed and then is older than the longest
period; no range ends behind the clock, and the ranges follow one another from `Origin`, which is
where the first one starts, in whole seconds, or the one behind it, where the first goes to a
bucket that is deleted with it. `WindowExact` follows, wherever the first range starts: the buckets of
a period are those of its full hours, a bucket holds the ranges that start in its hour, and as the ranges follow one
another at a fixed distance, these are all ranges from the first on that starts in a full hour (`WindowStart`).

### Statistics per interval

`StatInv` says that the rows of the base interval have no gap and end where the round
under way begins, and that those of the longer ones begin below that end (`RowsShape`,
`StatRoundOK`). Then the total of a row is that of the row before and what is new (`RowsExact`). For the first row there is none, and what
stands for it, a count of all rows of the table or of those before, is the difference between
the seven statistics. `RowsExact` needs that a final block lies
behind all that is stored and behind the round (`Behind`), so that nothing below it is popped; and
therefore that none is popped between the two reads of the gate. Of the senders that are known, `KnownFirst` says that
the time of each is that of its first block until one is popped.

### The workers in their processes

The invariants of the workers are stated in the compositions, `StatWorkersProofs` and
`SyncWorkersProofs`, and kept by the steps of their own worker, and by no step of another,
which changes nothing they speak about: `StepOfStat` and its like say that a step of the
composition is a step of the component or leaves its variables as they are. The
rankings are the exception. There are two, of submissions and of rewards, so the proofs of
`TopnProofs` are about one ranking alone and have two instances, `SubmitsAlone` and
`RewardsAlone`.

Two workers read what others of the same process write. `L1Inv` is for L1Txs, which pages
through the submissions that the syncer pops and
stores again below it. What a cursor has passed is done with (`PassedDone`): it is patched,
pruned, or lost to a reorganisation (`Lost`), after which a row of a later fork stands at
its index, if any. A reorganisation replaces a suffix (`ForksInOrder`), so a batch read
before it still is a run of indexes whose missing rows are lost (`BatchKnown`).
`PassedArePatched` speaks of rows of the first fork, and for good reason: the patcher
never goes back to the index of a row that was replaced.

`NodesInv` is for RefreshNodeTypes: `HeldKnown` follows the nodes that a source has
reported since the cycle began, through the answer of the indexer, the pages read up
to the cursor, and the set that the clearing step spares.

### Services

*Keys.* `FailureIsLocal` is not inductive: a request may store, or take from the
cache, what another has put there. `KeysInv` says of every value on its way, in a
request or in the entry, that it is the row, the mark of an error, or, in the cache,
its untyped nil, as long as the row stays.

*Life.* `LifeInv` says that stat and api hold the lifetime of the row once they hold one
(`HeldOK`); the row never changes once it is set. `NothingSkipped` is about the syncer while it
ticks, but what makes it true lies before: `FollowsComplete` says that a syncer that has come to
its first `select` with blocks missing was cancelled. A catch-up returns there only when nothing is
missing or its context is done, and a cancelled process never becomes another again before it
ends; so that `select` ends the syncer, unless `SlowSelect` lets the ticker be due by then.

*Limiters.* `LimitsInv` says that the strategies in memory by id and by name, the registry
of limiters and the ids that were ever used agree (`FactoryOK`). Removing, adding and
updating one strategy each keep that. A reload is two folds, of what is gone and of what is
new or changed, over maps that Go iterates in any order: `DropFold` and `PutFold` say of any
order of the ids that the result is the same strategies, and that no limiter is left of
one that is gone. A row that is given the name of another breaks it, since the
order then decides which of the two is in the map of names: hence `~CanRename`.

*Memory.* `MemoryInv` is about versions of the rankings: what a refresh has read is not behind
what it is about to replace, and neither is ahead of the database.

*Answers.* `ToldInv` speaks of the past. What had expired when it was counted into a row, read
by a handler, or told has expired since (`Past`): time and expiry only rise. A file told to be healthy until
some time has not expired before it (`PromiseOK`), and a miner is told with at least as many
attempts as wins, since the larger of the two numbers that were read is taken (`AnswerOK`).

*Lists.* A request makes two queries, and rows may come in between. A client goes by the
number of rows it has skipped, so `PagingInv` goes by the place of a row, the number of rows ahead of it. A row that was there when the client
began, and that no page could have left out, is seen once its place has been passed
(`PassedSeen`). What is added can only push a row on, never pull it to a place that was passed; a
miner that moves is the exception, and where the list runs up, all rows are: those are
`unsure`. A page holds all rows with a place from `skip` to the next page. The total is behind every
place when it is read, also where it is a saved count (of an address, `Uncounted` leaves
out as many of its oldest rows as the count lags behind), and still is when the page
is (`AskingOK`), unless rows came in ahead of those of the page (`slipped`): so the client ends behind the last
place (`EndSeen`). The next total takes in what came between two others, so that only the last request counts.
All submissions are paged by index: the pages are parts of an order nevertheless, of the rows that they do not
step over (`Upwards`, `Downwards`). For the order, as long as
nothing was added, the client has seen the first rows of *one* order of the list (`Beginning`);
this goes on because there is one only, as no two rows are equal.

### What is assumed

* The node, the indexer and the router tell the truth of the moment they are
  asked, or give no answer. Finality is not revoked.
* A transaction of the database is atomic and durable, and its outcome is known:
  a commit whose answer is lost is not modelled. Statements outside a
  transaction are atomic one by one.
* One sync process and one statistics process run at a time; any number of API
  requests may, of which `FileStatus` follows one at a time.
* The statistics read rows that are canonical once their number is final.

* `SlowSelect` is false for `NothingSkipped`: five seconds do not pass between the making of the
  ticker and the first `select`.
* `PopInGate` is false for `RowsExact`: no block is popped between the two reads of the gate.
  StatWorkers.cfg has it so; with it, rows may differ, as section 3 explains.
* `CanRename` is false for the limiters, `NumFiles <= MaxCount` for the marks of pruned files.
* The registry of limiters makes a limiter and removes one in turn. The contracts are
  asked at the start only, and a `Must` function that fails ends its process.

### What is only model-checked

Liveness needs fairness and `ENABLED`, and stays with TLC: `CatchesUp`, `PrunedSettle`,
`SourcesFollowed`, `ClassFollowsHotSet`, `UntouchedPatched`, `CountedWhileRunning`, `AlarmFollows`,
`EverythingCounted`, `ChainStored`, `ComesUp`, `MemoryFollows`. Every safety property that a
passing run checks is stated by a theorem. Only checked is also what is said of blocks that cannot be
decoded in liveness: that nothing else stops the scan.

## 5. What is not modelled

* *Contract bindings, API documents, dashboards*: generated code and data, about half of
  the 26,565 lines of the repository. They keep no state.
* *Routing, parameters and types of the APIs*: routes, the binding of parameters and the
  layout of responses. The DA handlers of statistics list tables that differ from those
  of `Listing` in their columns.
* *Metrics*: timers and gauges that nothing in this code reads.
* The decoding of logs and the columns of rows: a row is the event, or the block, it
  came from. The probe that chooses between receipts and logs when the process starts
  is the constant `ByLogs`.
* `MustServe`, the HTTP server, is a library and taken not to return while it serves.
  `da_api` is `api` without the lifetime; `Lifecycle` has it, the run leaves it out.
* The call of the indexer has no timeout of its own (`rpc/storage.go:315`): a call that
  never returns is an indexer that never answers, which section 3 assumes not to last.
* Several sync or statistics processes at a time.

* What the goroutines of `StorageSyncer` and `PatchSyncer` still do when the database has been closed under
  them: they are not in the WaitGroup (`QuietWhenClosed` does not hold), and the process ends soon.

Four things a reader of the code will meet: the comments of `LogSyncInfo`
(`api/storage/types.go:138`) name its two heights the other way round than
`api/storage/cache.go:203` fills them;
`store/store_block.go:60` decides finality by the number of a block alone, so that
between a reorganisation and the next pop an orphaned row may count as final, which is
what `CanonicalTipComplete` leaves out by asking for a canonical tip; the list of all
submissions takes the greatest index for their number (`store/store_submit.go:237-289`),
which is right only when indexes start at 1, while the cursor of the patch syncer starts at 0
(`sync/patch.go:83`), so that both are modelled; and an event of a contract the scan does not follow
stops a scan that reads by receipts (`sync/base_sync.go:553`).

## 6. What may come next

1. The workers with the chain they read from in one behaviour: `ChainSync` under
   `IntervalStat` and `Topn` in place of their own pushes and pops.
2. That each worker of `SyncWorkers` and `StatWorkers` implements what it promises as an
   abstract specification of its own, as `ExpiredFiles` does with `CountOnce`: the event tables
   as an index of blocks, a ranking as the top of the counts.
3. `KeepsDelay` for a chain shorter than the delay.

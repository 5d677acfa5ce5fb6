----------------------------- MODULE Lifecycle ------------------------------
(***************************************************************************)
(* The start and the stop of the processes (cmd, and the Must functions of *)
(* sync, stat and api).  Each reads what it needs from the database and    *)
(* from the contracts before it is up, and ends at once when it cannot;    *)
(* the supervisor starts it again.  A signal cancels the context of a      *)
(* process, which waits for the goroutines in its WaitGroup, closes the    *)
(* database and ends.                                                      *)
(***************************************************************************)
EXTENDS Naturals, Sequences, FiniteSets

CONSTANTS
    StatWorkers,        \* the statistics, in the order in which they are created
    ExpiryWorker,       \* the one that needs the lifetime of a file
    RewardContracts,    \* the reward contracts the market has in turn: [method, seconds]
    NoSeconds,          \* no lifetime
    ContractEnabled,    \* config: contract.enabled
    ContractDAEnabled,  \* config: contractDA.enabled
    ChargesToken,       \* config: is a file charged for in an ERC20 token?
    APIServers,         \* "api", and "da_api", which needs no lifetime
    SlowSelect,         \* may five seconds, the interval of the ticker, pass before its first
                        \* select?
    MaxDisturbances     \* bound: signals, failed calls, outages of the node, upgrades

Procs == {"sync", "stat"} \cup APIServers
Statistics == {StatWorkers[i] : i \in DOMAIN StatWorkers}
\* What runs beside the main function: the syncer, the tickers it spawns, and the
\* statistics.
Routines == {"syncer", "tickers"} \cup Statistics
RoutinesOf(p) ==
    {r \in Routines : \/ p = "sync" /\ r \in {"syncer", "tickers"}
                      \/ p = "stat" /\ r \in Statistics}
\* The goroutines of StorageSyncer and PatchSyncer are given the context only.
Counted == Routines \ {"tickers"}

ConstantsOK ==
    /\ Statistics \cap {"syncer", "tickers"} = {} /\ ExpiryWorker \in Statistics
    /\ RewardContracts # <<>> /\ NoSeconds \notin {c.seconds : c \in {RewardContracts[i] : i \in DOMAIN RewardContracts}}
    /\ {ContractEnabled, ContractDAEnabled, ChargesToken, SlowSelect} \subseteq BOOLEAN
    /\ APIServers \subseteq {"api", "da_api"} /\ MaxDisturbances \in Nat

VARIABLES
    reward,         \* the reward contract of the market
    nodeUp,         \* does the full node answer?
    lifetimeRow,    \* the row file.expire.seconds
    stage,          \* where each process is in its main function
    created,        \* statistics whose goroutine was started
    watched,        \* the reward contract each syncer took its addresses from, 0 for none
    held,           \* the lifetime that stat and api read at their start
    routine,        \* where each goroutine is
    behind,         \* finalized blocks that the catch-up has not stored
    late,           \* goroutines that began after wg.Wait had returned
    disturbances

vars == <<reward, nodeUp, lifetimeRow, stage, created, watched, held, routine, behind, late,
          disturbances>>

Syncers == {"catchup", "patch", "head"}
Nothing == [s \in Syncers |-> 0]

Init ==
    /\ reward = 1 /\ nodeUp = TRUE /\ lifetimeRow = NoSeconds
    /\ stage = [p \in Procs |-> "down"]
    /\ created = 0 /\ watched = Nothing /\ held = [p \in {"stat", "api"} |-> NoSeconds]
    /\ routine = [r \in Routines |-> "none"]
    /\ behind = FALSE /\ late = {} /\ disturbances = 0

-----------------------------------------------------------------------------
(* The stages of the main functions.                                        *)

Goto(p, s) == stage' = [stage EXCEPT ![p] = s]

FirstStage(p) ==
    CASE p = "sync" -> "catchup addresses" [] p = "stat" -> "range start" [] OTHER -> "charge"

\* startSyncService, startStatService, startAPIService, startDAAPIService: the database and the client of the
\* node are opened first (MustInitDataContext); neither makes a call to the node.
MustInitDataContext(p) ==
    /\ stage[p] = "down"
    /\ Goto(p, FirstStage(p))
    /\ UNCHANGED <<reward, nodeUp, lifetimeRow, created, watched, held, routine, behind, late, disturbances>>

\* The process ends, and its goroutines and its memory with it.
Exit(p) ==
    /\ Goto(p, "down")
    /\ routine' = [r \in Routines |-> IF r \in RoutinesOf(p) THEN "none" ELSE routine[r]]
    /\ created' = IF p = "stat" THEN 0 ELSE created
    /\ watched' = IF p = "sync" THEN Nothing ELSE watched
    /\ held' = [q \in DOMAIN held |-> IF q = p THEN NoSeconds ELSE held[q]]
    /\ behind' = (behind /\ p # "sync")
    /\ late' = late \ RoutinesOf(p)

\* MustGetContractAddresses: from the flow contract to the market, the reward and the mine
\* contract.  The reward contract stands for the addresses, one of each belongs to it.
MustGetContractAddresses(s) == watched' = [watched EXCEPT ![s] = reward]

\* mustInitContractDA appends to the topics that mustInitContract has made.
TopicsOK == ContractDAEnabled => ContractEnabled

\* mustInitContract and mustInitContractDA.  Without the contracts the addresses stay empty.
MustInitContract(s, at, next) ==
    /\ stage["sync"] = at /\ TopicsOK
    /\ IF ContractEnabled THEN nodeUp /\ MustGetContractAddresses(s) ELSE UNCHANGED watched
    /\ Goto("sync", next)
    /\ UNCHANGED <<reward, nodeUp, lifetimeRow, created, held, routine, behind, late, disturbances>>

\* PatchSyncer.mustInitContract reads the addresses whatever is enabled.
PatchInitContract ==
    /\ stage["sync"] = "patch addresses" /\ nodeUp
    /\ MustGetContractAddresses("patch")
    /\ Goto("sync", "head addresses")
    /\ UNCHANGED <<reward, nodeUp, lifetimeRow, created, held, routine, behind, late, disturbances>>

\* initReleaseSeconds and initLifetimeInSeconds ask the same contract by two methods, of
\* which it has one.
InitReleaseSeconds(c) == c.method = "releaseSeconds"
InitLifetimeInSeconds(c) == c.method = "lifetimeInSeconds"
HasLifetime(c) == InitReleaseSeconds(c) \/ InitLifetimeInSeconds(c)

\* Faulty variant of MustInitExpireInSec: the row follows the contract.
ReadAtEachStart(s) == lifetimeRow' = RewardContracts[watched[s]].seconds

\* mustInitExpireInSec: the row is written once and kept.
MustInitExpireInSec(s) ==
    IF lifetimeRow # NoSeconds
    THEN UNCHANGED lifetimeRow
    ELSE LET c == RewardContracts[watched[s]] IN
         /\ HasLifetime(c)
         /\ lifetimeRow' = c.seconds

\* The rest of baseSyncer.mustInit: the price per sector is asked of the contract at
\* flowAddr, which is empty when the contracts are disabled.
MustInitLifetime(s, at, next) ==
    /\ stage["sync"] = at /\ nodeUp /\ watched[s] # 0
    /\ MustInitExpireInSec(s)
    /\ Goto("sync", next)
    /\ UNCHANGED <<reward, nodeUp, created, watched, held, behind, late, disturbances>>

\* MustNewCatchupSyncer, MustNewPatchSyncer and MustNewSyncer, one after the other; then
\* `go syncer.Sync(ctx, &wg)` and GracefulShutdown.
StartSyncService ==
    \/ MustInitContract("catchup", "catchup addresses", "catchup lifetime")
    \/ MustInitLifetime("catchup", "catchup lifetime", "patch addresses") /\ UNCHANGED routine
    \/ PatchInitContract
    \/ MustInitContract("head", "head addresses", "head lifetime")
    \/ /\ MustInitLifetime("head", "head lifetime", "up")
       /\ routine' = [routine EXCEPT !["syncer"] = "new"]

\* MustDefaultRangeStart asks the node for the first block.
MustDefaultRangeStart ==
    /\ stage["stat"] = "range start" /\ nodeUp
    /\ Goto("stat", "workers")
    /\ UNCHANGED <<reward, nodeUp, lifetimeRow, created, watched, held, routine, behind, late, disturbances>>

\* The statistics are created one after the other, and the goroutine of each is started
\* before the next one is created.  mustLoadFileExpireSeconds ends the process without the row.
StartStatWorker ==
    /\ stage["stat"] = "workers"
    /\ LET w == StatWorkers[created + 1] IN
          /\ IF w = ExpiryWorker
             THEN lifetimeRow # NoSeconds /\ held' = [held EXCEPT !["stat"] = lifetimeRow]
             ELSE UNCHANGED held
          /\ routine' = [routine EXCEPT ![w] = "new"]
    /\ created' = created + 1
    /\ IF created + 1 = Len(StatWorkers) THEN Goto("stat", "up") ELSE UNCHANGED stage
    /\ UNCHANGED <<reward, nodeUp, lifetimeRow, watched, behind, late, disturbances>>

\* TokenInfo: name, symbol and decimals of the token files are charged in.
ChargeToken == ChargesToken => nodeUp

\* MustInit of the two API servers: the token, then, for the storage API, the row
\* (mustInitExpireSeconds).
InitTokenInfo(p) ==
    /\ stage[p] = "charge" /\ ChargeToken
    /\ Goto(p, IF p = "api" THEN "lifetime" ELSE "up")
    /\ UNCHANGED <<reward, nodeUp, lifetimeRow, created, watched, held, routine, behind, late, disturbances>>

MustInitExpireSeconds ==
    /\ stage["api"] = "lifetime" /\ lifetimeRow # NoSeconds
    /\ held' = [held EXCEPT !["api"] = lifetimeRow]
    /\ Goto("api", "up")
    /\ UNCHANGED <<reward, nodeUp, lifetimeRow, created, watched, routine, behind, late, disturbances>>

\* What a Must function may find missing: a node that answers, the row, a reward contract
\* with one of the methods.
NeedsNode(p) ==
    \/ stage[p] \in {"catchup lifetime", "patch addresses", "head lifetime", "range start"}
    \/ stage[p] \in {"catchup addresses", "head addresses"} /\ ContractEnabled
    \/ stage[p] = "charge" /\ ChargesToken
NeedsRow(p) ==
    \/ stage[p] = "workers" /\ StatWorkers[created + 1] = ExpiryWorker
    \/ stage[p] = "lifetime"
NoTopics(p) == stage[p] \in {"catchup addresses", "head addresses"} /\ ~TopicsOK
NoLifetime(p) ==
    \E s \in {"catchup", "head"} :
        /\ stage[p] = IF s = "catchup" THEN "catchup lifetime" ELSE "head lifetime"
        /\ watched[s] # 0 => lifetimeRow = NoSeconds /\ ~HasLifetime(RewardContracts[watched[s]])

Fatal(p) ==
    /\ \/ NeedsNode(p) /\ ~nodeUp
       \/ NeedsRow(p) /\ lifetimeRow = NoSeconds
       \/ NoTopics(p)
       \/ NoLifetime(p)
    /\ Exit(p)
    /\ UNCHANGED <<reward, nodeUp, lifetimeRow, disturbances>>

-----------------------------------------------------------------------------
(* The goroutines.                                                          *)

Cancelled(p) == stage[p] \in {"waiting", "closed"}
Move(r, to) == routine' = [routine EXCEPT ![r] = to]

\* A goroutine starts some time after its go statement, and adds itself to the WaitGroup.
Begin(r) ==
    /\ routine[r] = "new"
    /\ Move(r, IF r = "syncer" THEN "check" ELSE "running")
    /\ late' = IF \E p \in Procs : r \in RoutinesOf(p) /\ stage[p] = "closed"
               THEN late \cup {r} ELSE late
    /\ UNCHANGED <<reward, nodeUp, lifetimeRow, stage, created, watched, held, behind, disturbances>>

\* Syncer.Sync: the check of the stored tip, then the tickers are started.
CheckReorgData ==
    /\ routine["syncer"] = "check" /\ nodeUp /\ stage["sync"] # "closed"
    /\ routine' = [routine EXCEPT !["syncer"] = "range", !["tickers"] = "new"]
    /\ UNCHANGED <<reward, nodeUp, lifetimeRow, stage, created, watched, held, behind, late, disturbances>>

\* A failed check panics, which ends the process.
CheckPanics ==
    /\ routine["syncer"] = "check" /\ (~nodeUp \/ stage["sync"] = "closed")
    /\ Exit("sync")
    /\ UNCHANGED <<reward, nodeUp, lifetimeRow, disturbances>>

\* tryBlockRange asks until the node answers, whatever the context says; the catch-up is
\* over when no finalized block is missing or the context is cancelled, and a ticker is
\* made.
TryBlockRange ==
    /\ routine["syncer"] = "range" /\ nodeUp
    /\ behind' \in {TRUE, behind}
    /\ Move("syncer", IF behind' /\ ~Cancelled("sync") THEN "catchup" ELSE "select")
    /\ UNCHANGED <<reward, nodeUp, lifetimeRow, stage, created, watched, held, late, disturbances>>

\* Faulty variant of SyncRange: a range that failed ends the catch-up.
SyncRangeGivesUp ==
    /\ routine["syncer"] = "catchup"
    /\ behind' = FALSE \/ (behind' = behind /\ (Cancelled("sync") \/ ~nodeUp))
    /\ Move("syncer", IF behind' THEN "select" ELSE "range")
    /\ UNCHANGED <<reward, nodeUp, lifetimeRow, stage, created, watched, held, late, disturbances>>

\* syncRange ends with the last range, with a failure, or after a range when the context
\* is cancelled.
SyncRange ==
    /\ routine["syncer"] = "catchup"
    /\ behind' = FALSE \/ (behind' = behind /\ (Cancelled("sync") \/ ~nodeUp))
    /\ Move("syncer", "range")
    /\ UNCHANGED <<reward, nodeUp, lifetimeRow, stage, created, watched, held, late, disturbances>>

\* The loop of Sync: currentBlock is the block after the finalized one, whatever made the
\* catch-up return.  The first select takes a cancelled context, for the ticker is not due;
\* else it waits.
FirstSelect ==
    /\ routine["syncer"] = "select"
    /\ \/ Move("syncer", IF Cancelled("sync") THEN "done" ELSE "ticking")
       \/ SlowSelect /\ Move("syncer", "tick")
    /\ UNCHANGED <<reward, nodeUp, lifetimeRow, stage, created, watched, held, behind, late, disturbances>>

\* The ticker is due.  When the context is cancelled by now, the select takes either.
Tick ==
    /\ routine["syncer"] = "ticking"
    /\ Move("syncer", "tick")
    /\ UNCHANGED <<reward, nodeUp, lifetimeRow, stage, created, watched, held, behind, late, disturbances>>

EndTick ==
    /\ routine["syncer"] = "tick"
    /\ Move("syncer", "ticking")
    /\ UNCHANGED <<reward, nodeUp, lifetimeRow, stage, created, watched, held, behind, late, disturbances>>

\* A cancelled context ends the loop of a goroutine, at the select or where it looks for
\* an interruption.
Leave(r) ==
    /\ routine[r] = IF r = "syncer" THEN "ticking" ELSE "running"
    /\ \E p \in Procs : r \in RoutinesOf(p) /\ Cancelled(p)
    /\ Move(r, "done")
    /\ UNCHANGED <<reward, nodeUp, lifetimeRow, stage, created, watched, held, behind, late, disturbances>>

-----------------------------------------------------------------------------
(* The stop of a process.                                                   *)

Disturb == disturbances < MaxDisturbances /\ disturbances' = disturbances + 1

\* GracefulShutdown: SIGTERM cancels the context.  The API servers do not come to it
\* while they serve.
Terminate(p) ==
    /\ p \in {"sync", "stat"} /\ stage[p] = "up"
    /\ Disturb
    /\ Goto(p, "waiting")
    /\ UNCHANGED <<reward, nodeUp, lifetimeRow, created, watched, held, routine, behind, late>>

\* wg.Wait, and the deferred dataCtx.Close.
Wait(p) ==
    /\ stage[p] = "waiting"
    /\ \A r \in RoutinesOf(p) \cap Counted : routine[r] \in {"none", "new", "done"}
    /\ Goto(p, "closed")
    /\ UNCHANGED <<reward, nodeUp, lifetimeRow, created, watched, held, routine, behind, late, disturbances>>

Return(p) ==
    /\ stage[p] = "closed"
    /\ Exit(p)
    /\ UNCHANGED <<reward, nodeUp, lifetimeRow, disturbances>>

\* A signal that is not handled yet, a kill, or a failed call of a Must function or of the
\* startup check.
Killed(p) ==
    /\ stage[p] # "down"
    /\ Disturb
    /\ Exit(p)
    /\ UNCHANGED <<reward, nodeUp, lifetimeRow>>

\* The full node goes away and comes back, and the market gets another reward contract.
Outage ==
    /\ nodeUp /\ Disturb /\ nodeUp' = FALSE
    /\ UNCHANGED <<reward, lifetimeRow, stage, created, watched, held, routine, behind, late>>

Recover ==
    /\ ~nodeUp /\ nodeUp' = TRUE
    /\ UNCHANGED <<reward, lifetimeRow, stage, created, watched, held, routine, behind, late, disturbances>>

Upgrade ==
    /\ reward < Len(RewardContracts) /\ Disturb /\ reward' = reward + 1
    /\ UNCHANGED <<nodeUp, lifetimeRow, stage, created, watched, held, routine, behind, late>>

-----------------------------------------------------------------------------
\* A step of the main function of a process, or of its supervisor.
Main(p) ==
    \/ MustInitDataContext(p) \/ Fatal(p) \/ Wait(p) \/ Return(p)
    \/ p = "sync" /\ StartSyncService
    \/ p = "stat" /\ (MustDefaultRangeStart \/ StartStatWorker)
    \/ InitTokenInfo(p)
    \/ p = "api" /\ MustInitExpireSeconds

Goes(r) ==
    \/ Begin(r)
    \/ /\ r = "syncer"
       /\ \/ CheckReorgData \/ CheckPanics \/ TryBlockRange \/ SyncRange
          \/ FirstSelect \/ EndTick

Next ==
    \/ \E p \in Procs : Main(p) \/ Terminate(p) \/ Killed(p)
    \/ \E r \in Routines : Goes(r) \/ Leave(r)
    \/ Tick \/ Outage \/ Recover \/ Upgrade

Spec == Init /\ [][Next]_vars

-----------------------------------------------------------------------------
(* Properties.                                                              *)

Stages == {"down", "catchup addresses", "catchup lifetime", "patch addresses", "head addresses",
           "head lifetime", "range start", "workers", "charge", "lifetime", "up", "waiting", "closed"}
Places == {"none", "new", "check", "range", "catchup", "select", "ticking", "tick", "running", "done"}

\* Every variable has its type.
TypeOK ==
    /\ reward \in DOMAIN RewardContracts /\ nodeUp \in BOOLEAN
    /\ stage \in [Procs -> Stages] /\ routine \in [Routines -> Places]
    /\ created \in 0..(Len(StatWorkers) - 1) \/ stage["stat"] \in {"up", "waiting", "closed"}
    /\ watched \in [Syncers -> {0} \cup DOMAIN RewardContracts]
    /\ behind \in BOOLEAN /\ late \subseteq Routines /\ disturbances \in 0..MaxDisturbances

\* The counter of expired files and the API call a file expired by the same lifetime, at
\* whatever moment each was started and whatever reward contract the market had then
\* (mustInitExpireInSec keeps the row).
SameExpiry == \A p \in DOMAIN held : held[p] # NoSeconds => held[p] = lifetimeRow

\* The syncer follows the head, from the block after the finalized one on, only when the
\* catch-up has stored all that was finalized: whatever fails in it, and whenever a signal
\* interrupts it, a catch-up that left blocks out is not taken for a complete one
\* (Syncer.Sync, CatchupSyncer.Sync).
NothingSkipped == routine["syncer"] = "tick" => ~behind

\* When the database is closed no goroutine works any more: this does not hold, for those
\* of StorageSyncer and PatchSyncer are not counted, and others may begin late.
QuietWhenClosed ==
    \A p \in Procs : stage[p] = "closed" =>
        \A r \in RoutinesOf(p) : routine[r] \in {"none", "new", "done"}

\* Every process is up and every goroutine of it works.
AllUp ==
    /\ \A p \in Procs : stage[p] = "up"
    /\ \A r \in Routines : routine[r] \notin {"none", "new", "done"}

\* Every goroutine begins while the process waits for it.
NoneLate == late = {}

\* The syncers take the events of the contract the market has.
AddressesCurrent == \A s \in Syncers : watched[s] \in {0, reward}
=============================================================================

---------------------------- MODULE SyncWorkers -----------------------------
(***************************************************************************)
(* The background workers of the sync process that share no data with one  *)
(* another: the types of storage nodes (NodeTypes), the storage class of   *)
(* files (StorageClass) and the sync heights with their alarm              *)
(* (SyncHeights), of StorageSyncer; the layer-1 data of submissions        *)
(* (L1Txs) and the count of mining attempts (MinerAttempts), of            *)
(* PatchSyncer.  A behaviour runs one of them; no step of one writes what  *)
(* another one works on, so that what holds of each alone holds of all     *)
(* together.                                                               *)
(***************************************************************************)
EXTENDS Integers, Sequences, FiniteSets

CONSTANTS
    Providers, Hosts, HostOf, NodeChanges,              \* NodeTypes
    Roots, ClassPageLimit, ChunkSize, MaxFiles, FileChanges,   \* StorageClass
    MaxSubmits, L1Batch, MaxReorgs, MaxPruned,          \* L1Txs
    Attempts, Miners, BlockOf, By, RegisteredAt, NumBlocks, AttemptsBatch,
    MaxCrashes, AttemptsFaults,                         \* MinerAttempts
    MaxGap, Threshold, Remind, LostNotices, MaxHeight, MaxProbeFaults, \* SyncHeights
    PageLimit, MaxFaults                                \* of several

VARIABLES
    worker,     \* the worker that runs
    regularNodes, active, up, isRegular, isHot, providerAddr, step, present,
    fetched, heldRegular, heldHot,                      \* NodeTypes
    hot, classes, addressClasses, classPhase, hotSet, todo, chunk, held, torn, \* StorageClass
    chain, prunedTo, submits, patchedId, currentSubmitId, batch, phase,
    reorgs,                                             \* L1Txs
    finalizedPos, miningAttempts, attemptsBn, currentBn, minPos, maxPos, delta,
    attemptsPhase, crashes,                             \* MinerAttempts
    chainHeight, nodeHeight, scanHeight, heightRow, probe, failed, failing, told,
    probeFaults,                                        \* SyncHeights
    cursor, changes, faults                             \* of several

Nodes == INSTANCE NodeTypes WITH MaxChanges <- NodeChanges
Class == INSTANCE StorageClass
            WITH submits <- classes, addressSubmits <- addressClasses, phase <- classPhase,
                 PageLimit <- ClassPageLimit, MaxChanges <- FileChanges
L1 == INSTANCE L1Txs WITH Batch <- L1Batch
Mining == INSTANCE MinerAttempts
            WITH phase <- attemptsPhase, Batch <- AttemptsBatch, MaxFaults <- AttemptsFaults

Heights == INSTANCE SyncHeights

ASSUME SyncWorkersAssumption ==
    Nodes!ConstantsOK /\ Class!ConstantsOK /\ L1!ConstantsOK /\ Mining!ConstantsOK
    /\ Heights!ConstantsOK

nodesVars == <<regularNodes, active, up, isRegular, isHot, providerAddr, step, present,
               fetched, heldRegular, heldHot>>
classVars == <<hot, classes, addressClasses, classPhase, hotSet, todo, chunk, held, torn>>
l1Vars == <<chain, prunedTo, submits, patchedId, currentSubmitId, batch, phase, reorgs>>
miningVars == <<finalizedPos, miningAttempts, attemptsBn, currentBn, minPos, maxPos, delta,
                attemptsPhase, crashes>>
heightsVars == <<chainHeight, nodeHeight, scanHeight, heightRow, probe, failed, failing, told,
                 probeFaults>>
vars == <<worker, nodesVars, classVars, l1Vars, miningVars, heightsVars, cursor, changes, faults>>

\* Only the worker that runs has a choice of where it starts.
Init ==
    /\ Nodes!Init /\ Class!Init /\ L1!Init /\ Mining!Init /\ Heights!Init
    /\ worker \in {"nodes", "class", "l1", "mining", "heights"}
    /\ worker # "nodes" => regularNodes = {} /\ active = {}
    /\ worker # "class" => hot = {}

\* A step of a worker leaves the data of the others alone.
NodesRun(A) ==
    worker = "nodes" /\ A /\ UNCHANGED <<worker, classVars, l1Vars, miningVars, heightsVars>>
ClassRun(A) ==
    worker = "class" /\ A /\ UNCHANGED <<worker, nodesVars, l1Vars, miningVars, heightsVars>>
L1Run(A) ==
    /\ worker = "l1" /\ A
    /\ UNCHANGED <<worker, nodesVars, classVars, miningVars, heightsVars, cursor, changes>>
MiningRun(A) ==
    /\ worker = "mining" /\ A
    /\ UNCHANGED <<worker, nodesVars, classVars, l1Vars, heightsVars, cursor, changes>>
HeightsRun(A) ==
    /\ worker = "heights" /\ A
    /\ UNCHANGED <<worker, nodesVars, classVars, l1Vars, miningVars, cursor, changes, faults>>

Next ==
    \/ NodesRun(Nodes!Next) \/ ClassRun(Class!Next)
    \/ L1Run(L1!Next) \/ MiningRun(Mining!Next) \/ HeightsRun(Heights!Next)

Spec == Init /\ [][Next]_vars

\* A round of the worker that runs.
Round ==
    \/ NodesRun(Nodes!Worker) \/ ClassRun(Class!Worker) \/ L1Run(L1!Worker)
    \/ MiningRun(Mining!Round) \/ HeightsRun(Heights!NodeSyncHeight)

\* Each worker is a loop that runs again after every error, and so is the sync
\* process that L1Txs follows.
FairSpec == Spec /\ WF_vars(Round) /\ WF_vars(L1Run(L1!Follow))

-----------------------------------------------------------------------------
(* The properties of the workers, each for the behaviours it runs in.       *)

\* Every variable has its type.
TypeOK == Nodes!TypeOK /\ Class!TypeOK /\ L1!TypeOK /\ Mining!TypeOK /\ Heights!TypeOK

\* RefreshNodeTypes clears no flag of a host its source has reported throughout.
ReportedAreSpared == Nodes!ReportedAreSpared

\* RefreshNodeTypes follows each source even when the other stays out for good.
SourcesFollowed == worker = "nodes" => Nodes!RegularFollows /\ Nodes!HotFollows

\* ReconcileStorageClass demotes no file that has stayed in the hot set.
CachedAreSpared == Class!CachedAreSpared

\* ReconcileStorageClass brings the class of every file in line with the hot set, in both
\* tables, but for the rows per address that a cut demotion leaves behind.
ClassFollowsHotSet == worker = "class" => Class!ClassFollowsHotSet

\* No cursor of L1Txs passes a row for good that should have been patched.
PassedArePatched == L1!PassedArePatched

\* L1Txs patches every row no reorganisation touches.
UntouchedPatched == worker = "l1" => L1!UntouchedPatched

\* MinerAttempts counts no attempt twice.
CountedAtMostOnce == Mining!CountedAtMostOnce

\* Until the first restart, MinerAttempts implements the exactly-once count.
CountsOnceWhileRunning == Mining!CountsOnceWhileRunning

\* Until the first restart, MinerAttempts counts every attempt it is not held up by.
CountedWhileRunning == worker = "mining" => Mining!CountedWhileRunning

\* NodeSyncHeight stores the height of the storage node, and people come to know whether
\* the syncer is too far behind, though calls fail and notices that it is down are lost.
AlarmFollows == worker = "heights" => Heights!AlarmFollows /\ Heights!HeightFollows
=============================================================================

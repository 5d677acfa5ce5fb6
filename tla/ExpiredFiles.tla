---------------------------- MODULE ExpiredFiles ----------------------------
(***************************************************************************)
(* The count of expired files (stat/stat_submit_expired.go).  A cursor     *)
(* over the submissions is kept in memory and in the table "configs"; each *)
(* round takes a range of submissions whose block is older than the time   *)
(* of the finalized block minus the lifetime of a file, groups them by     *)
(* sender, and adds the groups to the counters of the addresses, together  *)
(* with the total and the cursor.                                          *)
(***************************************************************************)
EXTENDS Integers, FiniteSets, FiniteSetsExt

CONSTANTS
    NumFiles,       \* bound: number of submissions
    Senders,
    Sender,         \* [Files -> Senders]
    Batch,          \* batchInSubmitIds, 10000 in the code
    MaxFaults,      \* bound: failed transactions
    MaxCrashes      \* bound: restarts

Files == 0..(NumFiles - 1)

\* What the constants are assumed to be.
ConstantsOK ==
    /\ NumFiles \in Nat /\ Sender \in [Files -> Senders]
    /\ IsFiniteSet(Senders)
    /\ Batch \in Nat \ {0}
    /\ MaxFaults \in Nat /\ MaxCrashes \in Nat

VARIABLES
    expired,            \* submissions older than the lifetime: the files below it
    lastBlock,          \* first of them in the newest expired block that has any
    expiredFiles,       \* addresses.expired_files
    expiredTotal,       \* config row "stat.file.expired.total"
    expiredSubmitId,    \* config row "stat.file.expired.submit.id", -1 when missing
    currentPos,         \* BaseStat.currentPos
    fileExpiredTotal,   \* StatSubmitExpired.fileExpiredTotal
    minPos, maxPos,     \* the StatRange of the round
    groups,             \* result of GroupBySender: number of files per sender
    phase,              \* what the round does next
    faults, crashes

dbVars == <<expiredFiles, expiredTotal, expiredSubmitId>>
statVars == <<currentPos, fileExpiredTotal, minPos, maxPos, groups, phase>>
vars == <<expired, lastBlock, dbVars, statVars, faults, crashes>>

NoFiles == [s \in Senders |-> 0]
Sum(c) == MapThenSumSet(LAMBDA s : c[s], Senders)

Init ==
    /\ expired = 0 /\ lastBlock = 0
    /\ expiredFiles = NoFiles /\ expiredTotal = 0 /\ expiredSubmitId = -1
    /\ currentPos = 0 /\ fileExpiredTotal = 0
    /\ minPos = 0 /\ maxPos = 0 /\ groups = NoFiles
    /\ phase = "range"
    /\ faults = 0 /\ crashes = 0

\* Finality moves on, and the next block that has submissions gets too old.
BlockExpires ==
    /\ \E last \in (expired + 1)..NumFiles : expired' = last
    /\ lastBlock' = expired
    /\ UNCHANGED <<dbVars, statVars, faults, crashes>>

\* Faulty variant of RangeEnd: the range is a full batch.
BatchEnd(maxPosExpired) == currentPos + Batch - 1

RangeEnd(maxPosExpired) ==
    IF maxPosExpired < currentPos + Batch - 1 THEN maxPosExpired ELSE currentPos + Batch - 1

InReach(maxPosExpired) == currentPos <= maxPosExpired

\* The answers of the query, which orders by the time of the block alone: of the
\* submissions of one block it may return any.
MaxSubmissionIndexExpired == lastBlock..(expired - 1)

\* nextStatRange.
NextStatRange ==
    /\ phase = "range"
    /\ \E maxPosExpired \in MaxSubmissionIndexExpired :
          /\ InReach(maxPosExpired)
          /\ maxPos' = RangeEnd(maxPosExpired)
    /\ minPos' = currentPos
    /\ phase' = "group"
    /\ UNCHANGED <<expired, lastBlock, dbVars, currentPos, fileExpiredTotal, groups,
                   faults, crashes>>

InRange(f) == minPos <= f /\ f <= maxPos

\* GroupBySender, with the sum over the groups added in memory.
GroupBySender ==
    /\ phase = "group"
    /\ groups' = [s \in Senders |-> Cardinality({f \in Files : InRange(f) /\ Sender[f] = s})]
    /\ fileExpiredTotal' = fileExpiredTotal + Sum(groups')
    /\ phase' = "commit"
    /\ UNCHANGED <<expired, lastBlock, dbVars, currentPos, minPos, maxPos, faults, crashes>>

\* Added to the row of each sender.
BatchDeltaUpsertExpiredFiles ==
    expiredFiles' = [s \in Senders |-> expiredFiles[s] + groups[s]]

\* The transaction, and the cursor in memory after it.
WriteStat(next) ==
    /\ phase = "commit"
    /\ BatchDeltaUpsertExpiredFiles
    /\ expiredTotal' = IF groups = NoFiles THEN expiredTotal ELSE fileExpiredTotal
    /\ expiredSubmitId' = maxPos
    /\ currentPos' = next
    /\ phase' = "range"
    /\ UNCHANGED <<expired, lastBlock, fileExpiredTotal, minPos, maxPos, groups, faults, crashes>>

\* Faulty variant of CalculateStat: the next range starts with the last file of
\* this one.
CalculateOverlap == WriteStat(maxPos)

CalculateStat == WriteStat(maxPos + 1)

\* A transaction that fails is rolled back, and the round starts over; what was
\* added in memory stays.
CalculateFails ==
    /\ faults < MaxFaults
    /\ phase = "commit"
    /\ phase' = "range"
    /\ faults' = faults + 1
    /\ UNCHANGED <<expired, lastBlock, dbVars, currentPos, fileExpiredTotal, minPos, maxPos,
                   groups, crashes>>

\* loadLastPos: the file after the stored position, 0 without one.
LoadedPos == expiredSubmitId + 1

\* mustLoadLastPos and mustLoadTotalExpiredFiles, at any time.
Restart ==
    /\ crashes < MaxCrashes
    /\ crashes' = crashes + 1
    /\ currentPos' = LoadedPos
    /\ fileExpiredTotal' = expiredTotal
    /\ phase' = "range"
    /\ UNCHANGED <<expired, lastBlock, dbVars, minPos, maxPos, groups, faults>>

Round == NextStatRange \/ GroupBySender \/ CalculateStat

Next == BlockExpires \/ Round \/ CalculateFails \/ Restart

Spec == Init /\ [][Next]_vars

\* DoStat is a loop that runs again after every error.
FairSpec == Spec /\ WF_vars(Round)

-----------------------------------------------------------------------------
(* Properties.                                                              *)

\* Every variable has its type.
TypeOK ==
    /\ expired \in 0..NumFiles /\ lastBlock \in Nat
    /\ expiredFiles \in [Senders -> Nat] /\ groups \in [Senders -> Nat]
    /\ expiredSubmitId \in Int /\ expiredSubmitId >= -1
    /\ currentPos \in Nat /\ minPos \in Nat /\ maxPos \in Nat
    /\ phase \in {"range", "group", "commit"}

FilesUpTo(last, s) == {f \in Files : f <= last /\ Sender[f] = s}

\* The counters and the cursor of the database agree at any time: each sender is
\* credited with its files up to the stored position, and each file once, whatever
\* transactions fail and wherever the process is restarted.
CountedExactly ==
    expiredFiles = [s \in Senders |-> Cardinality(FilesUpTo(expiredSubmitId, s))]

\* No file is counted before it has expired.
OnlyExpired == expiredSubmitId < expired

\* The stored total is the sum of the counters.
TotalIsSum == expiredTotal = Sum(expiredFiles)

\* Every expired file is counted in the end, but for those of the newest expired
\* block after its first, which the query may return.
ExpiredAreCounted == <>[](expired > 0 => lastBlock <= expiredSubmitId)

-----------------------------------------------------------------------------
\* The statistic implements the exactly-once count.
Count == INSTANCE CountOnce
            WITH Items <- Files, Keys <- Senders, Pos <- [f \in Files |-> f], Key <- Sender,
                 done <- expiredSubmitId + 1, counter <- expiredFiles

ImplementsCountOnce == Count!CountSpec
=============================================================================

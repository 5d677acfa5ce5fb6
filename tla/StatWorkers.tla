---------------------------- MODULE StatWorkers -----------------------------
(***************************************************************************)
(* The workers of the statistics process, which share no data with one     *)
(* another: the statistics per interval (IntervalStat), the rankings of    *)
(* submissions and of rewards (Topn), those of a period (TopnRange), and   *)
(* the count of expired files (ExpiredFiles).  A behaviour runs one of     *)
(* them; no step of one writes what another one works on, so that what     *)
(* holds of each alone holds of all together.                              *)
(***************************************************************************)
EXTENDS Integers, Sequences, FiniteSets

CONSTANTS
    Senders,                                            \* who submits, mines or pays
    Hour, Day, StartTime, SenderAt, Times, MaxBlocks, MaxPops, PopInGate,  \* IntervalStat
    Items, IndexOf, BlockOf, Key, Tx, TopnSize, TopnBatch, RewardBegin,     \* Topn
    TimeOf, Second, Interval, RangeHour, Spans, RangeStartTime, MaxClock,    \* TopnRange
    NumFiles, Sender, ExpiredBatch, MaxCrashes, ExpiredFaults,               \* ExpiredFiles
    MaxFaults

VARIABLES
    worker,     \* the worker that runs
    stat, converted, blocks, since, finalizedNum, pops, stats, statPhase, rangeStart,
    blockNum,                                                   \* IntervalStat
    finalBlock, counter, txs, heapRow, topnPos, topnCurrentPos,
    heap, minPos, maxPos, updates, topnPhase, sortedTo,         \* Topn
    now, finalTime, statTime, buckets, nextStart, rangePhase, first,    \* TopnRange
    expired, lastBlock, expiredFiles, expiredTotal, expiredSubmitId, currentPos,
    fileExpiredTotal, minFile, maxFile, groups, phase, crashes, \* ExpiredFiles
    faults

Stat == INSTANCE IntervalStat WITH phase <- statPhase

\* Submissions are ranked in the order of their indexes, rewards in that of
\* their blocks.
Submits == INSTANCE Topn
              WITH Pos <- IndexOf, Keys <- Senders, N <- TopnSize, Batch <- TopnBatch,
                   FirstPos <- 0, phase <- topnPhase, currentPos <- topnCurrentPos
Rewards == INSTANCE Topn
              WITH Pos <- BlockOf, Keys <- Senders, N <- TopnSize, Batch <- TopnBatch,
                   FirstPos <- RewardBegin, phase <- topnPhase, currentPos <- topnCurrentPos

Period == INSTANCE TopnRange
            WITH Keys <- Senders, Hour <- RangeHour, StartTime <- RangeStartTime,
                 MaxTime <- MaxClock, rangeStart <- nextStart, phase <- rangePhase

Expired == INSTANCE ExpiredFiles
              WITH Batch <- ExpiredBatch, MaxFaults <- ExpiredFaults, minPos <- minFile,
                   maxPos <- maxFile

ASSUME StatWorkersAssumption ==
    /\ Stat!ConstantsOK /\ Submits!ConstantsOK /\ Rewards!ConstantsOK
    /\ Period!ConstantsOK /\ Expired!ConstantsOK

statVars == <<stat, converted, blocks, since, finalizedNum, pops, stats, statPhase, rangeStart,
              blockNum>>
topnVars == <<finalBlock, counter, txs, heapRow, topnPos, topnCurrentPos, heap, minPos, maxPos,
              updates, topnPhase, sortedTo>>
rangeVars == <<now, finalTime, statTime, buckets, nextStart, rangePhase, first>>
expiredVars == <<expired, lastBlock, expiredFiles, expiredTotal, expiredSubmitId, currentPos,
                 fileExpiredTotal, minFile, maxFile, groups, phase, crashes>>
vars == <<worker, statVars, topnVars, rangeVars, expiredVars, faults>>

\* Only the worker that runs has a choice of where it starts.
Init ==
    /\ Stat!Init /\ Period!Init /\ Expired!Init
    /\ worker \in {"stat", "submits", "rewards", "range", "expired"}
    /\ IF worker = "rewards" THEN Rewards!Init ELSE Submits!Init
    /\ worker # "stat" => stat = Stat!Submits
    /\ worker \notin {"submits", "rewards"} => DOMAIN heap = {}

\* A step of a worker leaves the data of the others alone.
StatRun(A) == worker = "stat" /\ A /\ UNCHANGED <<worker, topnVars, rangeVars, expiredVars>>
SubmitsRun(A) == worker = "submits" /\ A /\ UNCHANGED <<worker, statVars, rangeVars, expiredVars>>
RewardsRun(A) == worker = "rewards" /\ A /\ UNCHANGED <<worker, statVars, rangeVars, expiredVars>>
RangeRun(A) == worker = "range" /\ A /\ UNCHANGED <<worker, statVars, topnVars, expiredVars>>
ExpiredRun(A) == worker = "expired" /\ A /\ UNCHANGED <<worker, statVars, topnVars, rangeVars>>

Next ==
    \/ StatRun(Stat!Next) \/ SubmitsRun(Submits!Next) \/ RewardsRun(Rewards!Next)
    \/ RangeRun(Period!Next) \/ ExpiredRun(Expired!Next)

Spec == Init /\ [][Next]_vars

\* A round of the worker that runs.
Round ==
    \/ StatRun(Stat!Worker) \/ SubmitsRun(Submits!Round) \/ RewardsRun(Rewards!Round)
    \/ RangeRun(Period!Worker) \/ ExpiredRun(Expired!Round)

\* Each worker is a loop that runs again after every error.
FairSpec == Spec /\ WF_vars(Round)

-----------------------------------------------------------------------------
(* The properties of the workers, each for the behaviours it runs in.       *)

\* Every variable has its type.
TypeOK == Stat!TypeOK /\ Submits!TypeOK /\ Period!TypeOK /\ Expired!TypeOK

\* Every row of an interval statistic is exact for what is stored of its interval.
RowsExact == Stat!RowsExact

\* An interval statistic knows everybody it counts as active, until a block is
\* reorganised away.
ActiveAreKnown == Stat!ActiveAreKnown

\* The stored ranking is that of the stored counters, also after rounds that
\* failed behind the sort.
RankingFollows == Submits!RankingFollows

\* The ranking of a period counts each item of the ranges that start in its full hours
\* exactly once, and no other, whenever it is asked.
WindowExact == Period!WindowExact

\* No file is counted before it has expired.
OnlyExpired == Expired!OnlyExpired

\* The counts of expired files implement the exactly-once count.
ImplementsCountOnce == Expired!ImplementsCountOnce

\* Each worker comes to count all that is there for it and final: the statistics cover
\* every interval that is over, the rankings every submission and reward, the rankings
\* of a period every interval of it, and every expired file is counted.
EverythingCounted ==
    /\ worker = "stat" => Stat!IntervalsCovered
    /\ worker = "submits" => Submits!FinalAreCounted
    /\ worker = "rewards" => Rewards!FinalAreCounted
    /\ worker = "range" => Period!RangesCovered
    /\ worker = "expired" => Expired!ExpiredAreCounted

\* Every step of the counters of a ranking counts a range of submissions or
\* rewards exactly once.
RankedOnce ==
    [][IF worker = "rewards" THEN Rewards!Count!CountRange
                             ELSE Submits!Count!CountRange]_<<topnPos, counter>>
=============================================================================

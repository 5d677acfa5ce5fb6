---------------------------- MODULE IntervalStat ----------------------------
(***************************************************************************)
(* The statistics per interval: stat/stat.go and the seven files that use  *)
(* it.  A round computes the base interval that follows the last stored    *)
(* one, once a stored block behind it is final, and writes it with the     *)
(* rows of the hour and the day it lies in, which are deleted and written  *)
(* again.  A row has the count of its interval, a running total on top of  *)
(* the row before it, and for addresses, miners and clients the number of  *)
(* active ones.  These three are counted in tables of their own, filled    *)
(* before the block is stored and never emptied.  Time is counted in base  *)
(* intervals, and a type of row is named by its length.                    *)
(***************************************************************************)
EXTENDS Integers, Sequences, FiniteSets, FiniteSetsExt

CONSTANTS
    Hour, Day,      \* lengths of the longer types
    StartTime,      \* MustDefaultRangeStart: where the first base interval starts
    Senders,        \* addresses, miners or clients
    SenderAt,       \* by time: who has the row of a block of that time
    Times,          \* bound: the times of blocks
    MaxBlocks,      \* bound: number of blocks
    MaxPops,        \* bound: reorganisations the sync process has followed
    MaxFaults,      \* bound: failed reads and transactions, restarts
    PopInGate       \* may the stored block of the gate be popped before its number is compared?

Base == 1
NoTime == -1

\* The statistics: their longer types, the table whose rows are new, the one the
\* first total is taken from, and whether the active ones are counted.
Submits == [rollups |-> {Hour, Day}, new |-> "rows", before |-> "rows", active |-> FALSE]
Rewards == [rollups |-> {Hour, Day}, new |-> "rows", before |-> "rows", active |-> FALSE]
DASubmits == [rollups |-> {Hour, Day}, new |-> "rows", before |-> "rows", active |-> FALSE]
Addresses == [rollups |-> {Hour, Day}, new |-> "senders", before |-> "senders", active |-> TRUE]
Miners == [rollups |-> {Day}, new |-> "senders", before |-> "senders", active |-> TRUE]
DAClients == [rollups |-> {Day}, new |-> "senders", before |-> "senders", active |-> TRUE]
DASigners == [rollups |-> {Day}, new |-> "rows", before |-> "senders", active |-> FALSE]

Statistics == {Submits, Rewards, DASubmits, Addresses, Miners, DAClients, DASigners}

ConstantsOK ==
    /\ {Hour, Day} \subseteq Nat \ {0, 1} /\ StartTime \in Nat
    /\ SenderAt \in [Times -> Senders] /\ Times \subseteq Nat /\ IsFiniteSet(Senders)
    /\ {MaxBlocks, MaxPops, MaxFaults} \subseteq Nat /\ PopInGate \in BOOLEAN

VARIABLES
    stat,           \* the statistic that runs
    converted,      \* time of the block whose events are converted, not yet stored
    blocks,         \* times of the stored blocks, by number; each has one row
    since,          \* addresses.block_time, miners.first_mining_time: NoTime without a row
    finalizedNum,   \* number of the finalized block
    stats,          \* for each type, start time -> count, total and active
    phase,          \* "range", "gate", "stat"
    rangeStart,     \* start of the base interval of the round
    blockNum,       \* first stored block after its end
    pops, faults

chainVars == <<stat, converted, blocks, since, finalizedNum, pops>>
vars == <<chainVars, stats, phase, rangeStart, blockNum, faults>>

Types == {Base} \cup stat.rollups

Init ==
    /\ stat \in Statistics
    /\ converted = NoTime /\ blocks = <<>> /\ since = [s \in Senders |-> NoTime]
    /\ finalizedNum = 0 /\ pops = 0
    /\ stats = [type \in Types |-> [t \in {} |-> [count |-> 0, total |-> 0, active |-> 0]]]
    /\ phase = "range" /\ rangeStart = 0 /\ blockNum = 0
    /\ faults = 0

-----------------------------------------------------------------------------
(* The sync process and finality.  What it stores at a number that is final *)
(* is canonical: it has followed a reorganisation before finality gets there. *)

Unfinished == <<finalizedNum, pops, stat, stats, phase, rangeStart, blockNum, faults>>

\* Faulty variant of WithSender: the sender is not added.
SenderUnknown(t) == since

\* AddressStore.Add, MinerStore.Add, DAClientStore.Add: the first time is kept.
WithSender(t) ==
    IF since[SenderAt[t]] = NoTime THEN [since EXCEPT ![SenderAt[t]] = t] ELSE since

\* The sender is added as soon as the events are converted.
Convert ==
    /\ converted = NoTime /\ Len(blocks) < MaxBlocks
    /\ \E t \in Times :
          /\ \A n \in DOMAIN blocks : blocks[n] <= t
          /\ converted' = t
          /\ since' = WithSender(t)
    /\ UNCHANGED <<blocks, Unfinished>>

Push ==
    /\ converted # NoTime
    /\ blocks' = Append(blocks, converted)
    /\ converted' = NoTime
    /\ UNCHANGED <<since, Unfinished>>

\* The block is reorganised away before it is stored, or a stored one is removed.
Pop(n) ==
    /\ pops < MaxPops /\ pops' = pops + 1
    /\ finalizedNum < n
    /\ phase = "gate" => PopInGate
    /\ converted' = NoTime
    /\ blocks' = SubSeq(blocks, 1, n - 1)
    /\ UNCHANGED <<since, finalizedNum, stat, stats, phase, rangeStart, blockNum, faults>>

Finalize(n) ==
    /\ finalizedNum < n
    /\ finalizedNum' = n
    /\ UNCHANGED <<converted, blocks, since, pops, stat, stats, phase, rangeStart, blockNum, faults>>

-----------------------------------------------------------------------------
(* A round.                                                                 *)

\* The last row of a type.
LastByType(type) == IF DOMAIN stats[type] = {} THEN NoTime ELSE Max(DOMAIN stats[type])

\* The interval after the last one.
NextRangeStart == IF LastByType(Base) = NoTime THEN StartTime ELSE LastByType(Base) + Base

FirstBlockAfterTime(t, n) ==
    /\ n \in DOMAIN blocks /\ blocks[n] >= t
    /\ \A k \in 1..(n - 1) : blocks[k] < t

\* That the clock has reached the end of the interval follows from a block behind it.
NextTimeRange ==
    /\ phase = "range"
    /\ \E n \in DOMAIN blocks : FirstBlockAfterTime(NextRangeStart + Base, n) /\ blockNum' = n
    /\ rangeStart' = NextRangeStart
    /\ phase' = "gate"
    /\ UNCHANGED <<chainVars, stats, faults>>

\* Faulty variant of Final: the finalized block itself does not count.
BelowFinal(n) == n < finalizedNum

Final(n) == n <= finalizedNum

\* The node's finalized block is read after the stored block.
CheckFinalized ==
    /\ phase = "gate"
    /\ phase' = IF Final(blockNum) THEN "stat" ELSE "range"
    /\ UNCHANGED <<chainVars, stats, rangeStart, blockNum, faults>>

Within(t, start, end) == start <= t /\ t < end

RowsIn(start, end) == {n \in DOMAIN blocks : Within(blocks[n], start, end)}
SendersSince(start, end) == {s \in Senders : since[s] # NoTime /\ Within(since[s], start, end)}

Count(table, start, end) ==
    Cardinality(IF table = "rows" THEN RowsIn(start, end) ELSE SendersSince(start, end))

\* SubmitStore.Count (senders), RewardStore.CountActive, DASubmitStore.CountActive.
CountActive(start, end) == Cardinality({SenderAt[blocks[n]] : n \in RowsIn(start, end)})

\* Faulty variant of CalStatRangeStart: the end belongs to the interval it starts.
RangeOfEnd(end, type) == (end \div type) * type

\* The interval of a longer type that ends at or after "end" and starts before it.
CalStatRangeStart(end, type) ==
    IF end % type = 0 THEN end - type ELSE (end \div type) * type

\* The interval of a length that starts at "start", or, when it is negative, ends there.
CalStatRange(start, length) ==
    IF length < 0 THEN [start |-> start + length, end |-> start]
                  ELSE [start |-> start, end |-> start + length]

\* The row of the interval that starts at "start", counted up to "end".
StatByTimeRange(start, end, type) ==
    LET delta == Count(stat.new, start, end)
        before == CalStatRange(start, -type).start
        previous == IF before \in DOMAIN stats[type] THEN stats[type][before].total
                                                     ELSE Count(stat.before, 0, start)
    IN [count |-> delta, total |-> previous + delta,
        active |-> IF stat.active THEN CountActive(start, end) ELSE 0]

\* The reads, and the transaction that deletes and adds the rows.  What is read
\* is final, and nobody else writes the table.
CalculateStat ==
    /\ phase = "stat"
    /\ LET end == rangeStart + Base
           StartOf(type) == IF type = Base THEN rangeStart ELSE CalStatRangeStart(end, type)
       IN stats' = [type \in Types |->
                      [t \in DOMAIN stats[type] \cup {StartOf(type)} |->
                          IF t = StartOf(type) THEN StatByTimeRange(t, end, type)
                                               ELSE stats[type][t]]]
    /\ phase' = "range"
    /\ UNCHANGED <<chainVars, rangeStart, blockNum, faults>>

\* A read or the transaction fails, or the process restarts: nothing is kept in
\* memory between rounds.
RoundFails ==
    /\ faults < MaxFaults /\ faults' = faults + 1
    /\ phase # "range" /\ phase' = "range"
    /\ UNCHANGED <<chainVars, stats, rangeStart, blockNum>>

-----------------------------------------------------------------------------
Worker == NextTimeRange \/ CheckFinalized \/ CalculateStat

Next ==
    \/ Convert \/ Push \/ \E n \in 1..(Len(blocks) + 1) : Pop(n)
    \/ \E n \in 1..MaxBlocks : Finalize(n)
    \/ Worker \/ RoundFails

Spec == Init /\ [][Next]_vars

\* The statistic runs again after every error.
FairSpec == Spec /\ WF_vars(Worker)

-----------------------------------------------------------------------------
(* Properties.                                                              *)

\* Every variable has its type.
TypeOK ==
    /\ stat \in Statistics
    /\ converted \in Times \cup {NoTime}
    /\ blocks \in Seq(Times)
    /\ since \in [Senders -> Times \cup {NoTime}]
    /\ finalizedNum \in Nat
    /\ DOMAIN stats = Types
    /\ \A type \in Types : \A t \in DOMAIN stats[type] :
          t % type = 0 /\ stats[type][t] \in [count : Nat, total : Nat, active : Nat]
    /\ phase \in {"range", "gate", "stat"}

\* The end of the last base interval that is stored.
Covered == NextRangeStart

\* Every row is exact: it counts what lies in its interval, up to the last base
\* interval that is stored, and its total what lies before that; at the ends of
\* hours and days, after failures, and wherever the statistics begin.  The totals
\* of a statistic that begins with another one's table are left out.
RowsExact ==
    \A type \in Types : \A t \in DOMAIN stats[type] :
        LET end == Min({t + type, Covered})
            row == stats[type][t]
        IN /\ row.count = Count(stat.new, t, end)
           /\ stat.new = stat.before => row.total = Count(stat.new, 0, end)
           /\ stat.active => row.active = CountActive(t, end)

\* The same of every statistic.
TotalsExact ==
    \A type \in Types : \A t \in DOMAIN stats[type] :
        stats[type][t].total = Count(stat.new, 0, Min({t + type, Covered}))

MoreKnownThanActive ==
    \A type \in Types : \A t \in DOMAIN stats[type] : stats[type][t].active <= stats[type][t].total

\* Nobody is active who is not known: no row of the addresses, miners or clients
\* has more active than there are in total, though the two are counted in tables
\* that are written apart; as long as no block has been reorganised away.
ActiveAreKnown == stat.active /\ pops = 0 => MoreKnownThanActive

\* The same after reorganisations, where the block that replaces the one a sender
\* was first seen in may be older.
ActiveAlwaysKnown == stat.active => MoreKnownThanActive

\* Whoever is counted as new in an interval that is over has a row in it.
NewAreActive ==
    stat.active =>
        \A type \in Types : \A t \in DOMAIN stats[type] :
            stats[type][t].count <= stats[type][t].active

\* Every interval with a final block behind it gets its row in the end, and with
\* it the hour and the day.
IntervalsCovered ==
    <>[](\A n \in DOMAIN blocks : n <= finalizedNum =>
            /\ blocks[n] <= Covered
            /\ \A type \in stat.rollups : \A t \in StartTime..(blocks[n] - 1) :
                  (t \div type) * type \in DOMAIN stats[type])
=============================================================================

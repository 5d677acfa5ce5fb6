----------------------------- MODULE TopnRange ------------------------------
(***************************************************************************)
(* The rankings of the last day, three days or week (stat/topn_submit_     *)
(* range.go, stat/topn_reward_range.go).  A round groups the rows of the   *)
(* next base interval by sender or miner, once a block behind it is final, *)
(* adds the groups to the bucket of the hour the interval starts in,       *)
(* deletes the buckets that are too old, and stores the start of the       *)
(* interval.  The API sums the buckets of a period, at any time.           *)
(* Block times are whole seconds, the clock is not.                        *)
(***************************************************************************)
EXTENDS Integers, FiniteSets, FiniteSetsExt

CONSTANTS
    Items, Keys,    \* submissions and senders, or rewards and miners
    TimeOf, Key,    \* time and sender of each item
    Second,         \* the clock's ticks per second
    Interval, Hour, \* MinTopnIntervalSubmit and time.Hour
    Spans,          \* TopnSpanTypes
    StartTime,      \* MustDefaultRangeStart
    MaxTime,        \* bound: the clock
    MaxFaults       \* bound: failed reads and transactions, restarts

NoTime == -1
MaxSpan == Max(Spans)

Truncate(t, unit) == (t \div unit) * unit

ConstantsOK ==
    /\ TimeOf \in [Items -> Nat] /\ Key \in [Items -> Keys] /\ IsFiniteSet(Items)
    /\ \A i \in Items : TimeOf[i] % Second = 0
    /\ {Second, Interval, Hour} \subseteq Nat \ {0}
    /\ Interval % Second = 0 /\ Hour % Interval = 0
    /\ StartTime \in 0..MaxTime /\ StartTime % Hour = 0
    /\ Spans \subseteq Nat /\ MaxSpan \in Spans /\ \A span \in Spans : span <= MaxSpan
    /\ {MaxTime, MaxFaults} \subseteq Nat

VARIABLES
    now,            \* time.Now
    finalTime,      \* time of the finalized block that is stored
    statTime,       \* config row StatTopnSubmitTime: start of the last range, or NoTime
    buckets,        \* submit_topn_stats: per hour, the sums of each address
    rangeStart,     \* start of the range of the round
    phase,          \* "range", "stat"
    first,          \* for the properties: start of the first range, or NoTime
    faults

clockVars == <<now, finalTime>>
vars == <<clockVars, statTime, buckets, rangeStart, phase, first, faults>>

NoItems == [k \in Keys |-> 0]

Init ==
    /\ now = StartTime /\ finalTime = 0
    /\ statTime = NoTime /\ buckets = [t \in {} |-> NoItems]
    /\ rangeStart = 0 /\ phase = "range" /\ first = NoTime
    /\ faults = 0

\* The clock goes on, and blocks become final.
Tick ==
    /\ now < MaxTime
    /\ now' = now + 1
    /\ UNCHANGED <<finalTime, statTime, buckets, rangeStart, phase, first, faults>>

BlockFinalized ==
    /\ \E t \in (finalTime + 1)..now : t % Second = 0 /\ finalTime' = t
    /\ UNCHANGED <<now, statTime, buckets, rangeStart, phase, first, faults>>

-----------------------------------------------------------------------------
(* A round.                                                                 *)

NextRangeStart ==
    IF statTime # NoTime THEN statTime + Interval
    ELSE IF StartTime < now - MaxSpan THEN now - MaxSpan
    ELSE StartTime

\* The clock and a final block have reached the end of the range.
Reached(end) == end <= now /\ end <= finalTime

\* nextTimeRange, and the gates of tryAcquireTimeRange.
NextTimeRange ==
    /\ phase = "range"
    /\ Reached(NextRangeStart + Interval)
    /\ rangeStart' = NextRangeStart
    /\ phase' = "stat"
    /\ UNCHANGED <<clockVars, statTime, buckets, first, faults>>

ItemsIn(start, end, k) == {i \in Items : start <= TimeOf[i] /\ TimeOf[i] < end /\ Key[i] = k}

\* GroupBySenderByTime, GroupByMinerByTime.
Grouped(start, end) == [k \in Keys |-> Cardinality(ItemsIn(start, end, k))]

\* BatchDeltaUpsert: a row is inserted, or added to the one of its hour and address.
BatchDeltaUpsert(hour, groups) ==
    [t \in DOMAIN buckets \cup {hour} |->
        [k \in Keys |->
            (IF t \in DOMAIN buckets THEN buckets[t][k] ELSE 0)
            + (IF t = hour THEN groups[k] ELSE 0)]]

\* Nothing is written for an interval without items.
Added(hour, groups) == IF groups = NoItems THEN buckets ELSE BatchDeltaUpsert(hour, groups)

\* Faulty variant of Kept: the period of the shortest ranking.
KeptShort(table) == [t \in {h \in DOMAIN table : h >= now - Min(Spans)} |-> table[t]]

\* Del: the buckets that start before the longest period.
Kept(table) == [t \in {h \in DOMAIN table : h >= now - MaxSpan} |-> table[t]]

\* The group query, and the transaction.  The start is stored in whole seconds.
CalculateStat ==
    /\ phase = "stat"
    /\ buckets' = Kept(Added(Truncate(rangeStart, Hour), Grouped(rangeStart, rangeStart + Interval)))
    /\ statTime' = Truncate(rangeStart, Second)
    /\ first' = IF first = NoTime THEN rangeStart ELSE first
    /\ phase' = "range"
    /\ UNCHANGED <<clockVars, rangeStart, faults>>

\* A query or the transaction fails, or the process restarts: nothing is kept in
\* memory between rounds.
RoundFails ==
    /\ faults < MaxFaults /\ faults' = faults + 1
    /\ phase = "stat" /\ phase' = "range"
    /\ UNCHANGED <<clockVars, statTime, buckets, rangeStart, first>>

\* The buckets that start within the period, which ends now.
InPeriod(span) == {t \in DOMAIN buckets : t >= now - span}

\* SubmitTopnStatStore.Topn, RewardTopnStatStore.Topn: the sums of these buckets.
Topn(span) == [k \in Keys |-> MapThenSumSet(LAMBDA t : buckets[t][k], InPeriod(span))]

-----------------------------------------------------------------------------
Worker == NextTimeRange \/ CalculateStat

Next == Tick \/ BlockFinalized \/ Worker \/ RoundFails

Spec == Init /\ [][Next]_vars

\* The statistic runs again after every error.
FairSpec == Spec /\ WF_vars(Worker)

-----------------------------------------------------------------------------
(* Properties.                                                              *)

\* Every variable has its type.
TypeOK ==
    /\ now \in 0..MaxTime /\ finalTime \in 0..now
    /\ statTime \in {t \in 0..MaxTime : t % Second = 0} \cup {NoTime}
    /\ \A t \in DOMAIN buckets : t % Hour = 0 /\ buckets[t] \in [Keys -> Nat]
    /\ phase \in {"range", "stat"} /\ rangeStart \in Nat
    /\ first \in Nat \cup {NoTime}

\* The end of the last range that is stored.
Covered == IF statTime = NoTime THEN StartTime ELSE statTime + Interval

\* The first multiple of a unit that is not below x.
UpTo(x, unit) == -(((-x) \div unit) * unit)

\* The first full hour of a period that ends now.
FirstHour(span) == UpTo(now - span, Hour)

\* The first range that some period shows: that of blocks that began before the longest
\* period starts when that period did, in an hour that began before it.
FirstShown == IF first % Hour = 0 THEN first ELSE Truncate(first, Second) + Interval

\* The start of the first range that starts at the first full hour or later.
WindowStart(span) ==
    IF FirstHour(span) <= FirstShown THEN FirstShown
    ELSE FirstShown + UpTo(FirstHour(span) - FirstShown, Interval)

\* Whatever fails and whenever it is asked, the ranking of a period counts each item
\* exactly once from the first range on that starts in a full hour of it, up to the last
\* range that is stored, and no other, though the buckets are added to, deleted and
\* summed at different times.  For a chain younger than the longest period, whose ranges
\* start with the hours, these are the items of its full hours.  For an older one the
\* ranges start where the clock happened to be, for good: the range that straddles the
\* start of the first full hour belongs to the hour before and is left out, up to an
\* Interval of items.
WindowExact ==
    first # NoTime => \A span \in Spans : Topn(span) = Grouped(WindowStart(span), Covered)

\* The ranking of a period counts the items of its full hours wherever the first range
\* starts: this does not hold.
WindowAlwaysExact ==
    first # NoTime =>
        \A span \in Spans : Topn(span) = Grouped(Max({first, FirstHour(span)}), Covered)

\* Every interval with a final block behind it is counted in the end.
RangesCovered == <>[](finalTime < NextRangeStart + Interval)
=============================================================================

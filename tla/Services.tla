------------------------------ MODULE Services ------------------------------
(***************************************************************************)
(* The start and stop of the processes (Lifecycle), and the parts of the   *)
(* API server: the cache of API keys (KeyCache), the rate limiters         *)
(* (LimiterFactory), what is kept in memory for the handlers (ApiCache),   *)
(* the lists a client pages through (Listing) and the answers about one    *)
(* account, miner or file (Answers).  They share no data: a behaviour runs *)
(* one of them, and no step of one writes what another one works on, so    *)
(* that what holds of each alone holds of all together.                    *)
(***************************************************************************)
EXTENDS Integers, Sequences, FiniteSets

CONSTANTS
    StatWorkers, ExpiryWorker, RewardContracts, NoSeconds, ContractEnabled, ContractDAEnabled,
    ChargesToken, APIServers, SlowSelect, MaxDisturbances,                \* Lifecycle
    Clients, StrategyIDs, MaxKeyChanges, MaxKeyFaults,
    Missing, Untyped, Failed, Panicked, NoEntry,            \* KeyCache
    Names, DefaultStrategy, Resources, Values, NoRule, Malformed, MaxIDs, CanRename,
    Requests, MaxEdits, MaxReloadFaults,                    \* LimiterFactory
    Spans, Overall, MaxVersion, MaxReadFaults,              \* ApiCache
    Owners, Address, NoName, FirstIndex, MaxRows, PageSize, Lists,  \* Listing
    Lifetime, Soon, NoRow, MaxFiles, MaxTime, MaxWins               \* Answers

VARIABLES
    running,    \* the part that runs
    reward, nodeUp, lifetimeRow, stage, created, watched, held, routine, behind, late,
    disturbances,                                           \* Lifecycle
    row, entry, request, keyChanges, keyFaults,             \* KeyCache
    configs, usedIDs, strategies, id2Strategies, lastSums, loaded, limiters, waiting, edits,
    reloadFaults,                                           \* LimiterFactory
    topns, nodeHeight, scanHeight, totals, part, readTopns, readNode, cachedTopns,
    cachedHeights, cachedTotals, summary, shown, readFaults, \* ApiCache
    rows, addresses, files, query, skip, total, asking, seen, before, unsure, still,
    slipped,                                                \* Listing
    asks, time, finalTime, submitted, account, miner, ranked, file, txHeld, asked, answer,
    toldExpired, promised                                   \* Answers

Life == INSTANCE Lifecycle
Keys == INSTANCE KeyCache
Limits == INSTANCE LimiterFactory
Memory == INSTANCE ApiCache
Paging == INSTANCE Listing
Told == INSTANCE Answers

ASSUME ServicesAssumption ==
    /\ Life!ConstantsOK /\ Keys!ConstantsOK /\ Limits!ConstantsOK
    /\ Memory!ConstantsOK /\ Paging!ConstantsOK /\ Told!ConstantsOK

lifeVars == <<reward, nodeUp, lifetimeRow, stage, created, watched, held, routine, behind, late,
              disturbances>>
keysVars == <<row, entry, request, keyChanges, keyFaults>>
limitsVars == <<configs, usedIDs, strategies, id2Strategies, lastSums, loaded, limiters, waiting,
                edits, reloadFaults>>
memoryVars == <<topns, nodeHeight, scanHeight, totals, part, readTopns, readNode, cachedTopns,
                cachedHeights, cachedTotals, summary, shown, readFaults>>
pagingVars == <<rows, addresses, files, query, skip, total, asking, seen, before, unsure, still,
                slipped>>
toldVars == <<asks, time, finalTime, submitted, account, miner, ranked, file, txHeld, asked, answer,
              toldExpired, promised>>
vars == <<running, lifeVars, keysVars, limitsVars, memoryVars, pagingVars, toldVars>>

\* Only the part that runs has a choice of where it starts.
Init ==
    /\ Life!Init /\ Keys!Init /\ Limits!Init /\ Memory!Init /\ Paging!Init /\ Told!Init
    /\ running \in {"life", "keys", "limits", "memory", "paging", "told"}
    /\ running # "keys" => row = Missing
    /\ running # "limits" => usedIDs = {}
    /\ running # "paging" => query = [list |-> CHOOSE l \in Lists : TRUE, desc |-> TRUE, block |-> 1]
    /\ running # "told" => asks = "account"

\* A step of a part leaves the data of the others alone.
LifeRun(A) == running = "life" /\ A /\ UNCHANGED <<running, keysVars, limitsVars, memoryVars, pagingVars, toldVars>>
KeysRun(A) == running = "keys" /\ A /\ UNCHANGED <<running, lifeVars, limitsVars, memoryVars, pagingVars, toldVars>>
LimitsRun(A) == running = "limits" /\ A /\ UNCHANGED <<running, lifeVars, keysVars, memoryVars, pagingVars, toldVars>>
MemoryRun(A) == running = "memory" /\ A /\ UNCHANGED <<running, lifeVars, keysVars, limitsVars, pagingVars, toldVars>>
PagingRun(A) == running = "paging" /\ A /\ UNCHANGED <<running, lifeVars, keysVars, limitsVars, memoryVars, toldVars>>
ToldRun(A) == running = "told" /\ A /\ UNCHANGED <<running, lifeVars, keysVars, limitsVars, memoryVars, pagingVars>>

Next ==
    \/ LifeRun(Life!Next)
    \/ KeysRun(Keys!Next) \/ LimitsRun(Limits!Next)
    \/ MemoryRun(Memory!Next) \/ PagingRun(Paging!Next)
    \/ ToldRun(Told!Next)

Spec == Init /\ [][Next]_vars

\* What time brings about, in the part that runs.
Elapse ==
    KeysRun(Keys!Expire) \/ LimitsRun(Limits!Load \/ Limits!Reload) \/ MemoryRun(Memory!Refresh)

\* Requests with a key keep coming and end, entries expire, and the two tickers tick.  The
\* supervisor restarts a process that ended, a process goes on with what it can do, and the
\* node comes back; the select of the syncer takes a cancelled context in the end.
FairSpec ==
    /\ Spec
    /\ \A c \in Clients : WF_vars(KeysRun(Keys!Request(c)))
    /\ WF_vars(Elapse)
    /\ \A p \in Life!Procs : WF_vars(LifeRun(Life!Main(p)))
    /\ WF_vars(LifeRun(Life!Goes("syncer"))) /\ WF_vars(LifeRun(Life!Recover))
    /\ WF_vars(LifeRun(\E r \in Life!Routines : Life!Begin(r) \/ (r # "syncer" /\ Life!Leave(r))))
    /\ SF_vars(LifeRun(Life!Leave("syncer")))

-----------------------------------------------------------------------------
(* The properties of the parts, each for the behaviours it runs in.         *)

\* Every variable has its type.
TypeOK == Life!TypeOK /\ Keys!TypeOK /\ Limits!TypeOK /\ Memory!TypeOK /\ Paging!TypeOK /\ Told!TypeOK

\* Both processes call a file expired by the same lifetime.
SameExpiry == Life!SameExpiry

\* The head is followed only behind a complete catch-up, whatever fails in it and whenever
\* a signal interrupts it.
NothingSkipped == Life!NothingSkipped

\* Once the signals and failures stop, every process is up with all its goroutines: what
\* was told to stop has stopped, and what found the row missing has found it.
ComesUp == <>[](running = "life" => Life!AllUp)

\* A failed query of LimitKeyLoader takes the strategy of a key from no other request.
FailureIsLocal == Keys!FailureIsLocal

\* A limiter limits by the rule of its strategy, whatever reloads a request meets, and a
\* strategy is the same by its name and by its id.
LimitersCurrent == Limits!LimitersCurrent /\ Limits!NamesAgree

\* No answer takes back what an earlier one told: cacheTopn replaces no ranking by an older
\* one, getAccountStats finds expired what getAccountInfo told to be, and what was told to
\* be healthy does not expire within the time ahead.
NeverOlder == [][Memory!NotOlder]_vars /\ [](Told!CounterAgrees /\ Told!HealthyKept)

\* What the server keeps in memory comes to be what the database holds: the key of a
\* request, the strategies, and the rankings, heights and totals of the handlers.
MemoryFollows ==
    <>[](/\ running = "keys" => Keys!ShowsRow
         /\ running = "limits" => Limits!ShowsConfigs
         /\ running = "memory" => Memory!ShowsDatabase)

\* A client that reads a list to the end misses no row, though rows are added meanwhile,
\* unless they come in before its last page between the two queries for it, or the index
\* of the first submission is 0, which costs one row of the list of all submissions.  It
\* reads each row once and in order when none is added, and is told the owner of each; a
\* ranked miner has at least as many attempts as wins.
ListsComplete ==
    Paging!NoRowMissed /\ Paging!PagesInOrder /\ Paging!OwnersNamed /\ Told!WinsWereTried
=============================================================================

-------------------------- MODULE ServicesProofs ----------------------------
(***************************************************************************)
(* Proofs about the start and stop of the processes and the parts of the   *)
(* API server: the cache of API keys, the limiters and the reload of their *)
(* strategies, what is kept in memory for the handlers, what is told about *)
(* one account, miner or file, and the lists, page after page.  They hold  *)
(* for any statistics, reward contracts, signals and outages, and for any  *)
(* number of requests, keys, strategies, files, rankings, rows, pages and  *)
(* failed queries.                                                         *)
(***************************************************************************)
EXTENDS Services, FoldLemmas, SequenceTheorems, TLAPS

LEMMA Constants == Life!ConstantsOK /\ Keys!ConstantsOK
  BY ServicesAssumption DEF ServicesAssumption

\* A step is one of the part that runs, and the data of the others stay.
LEMMA StepOfLife == [Next]_vars => Life!Next \/ UNCHANGED lifeVars
  <1> SUFFICES ASSUME [Next]_vars PROVE Life!Next \/ UNCHANGED lifeVars  OBVIOUS
  <1>1. CASE LifeRun(Life!Next)  BY <1>1 DEF LifeRun
  <1>2. CASE KeysRun(Keys!Next)  BY <1>2 DEF KeysRun
  <1>3. CASE LimitsRun(Limits!Next)  BY <1>3 DEF LimitsRun
  <1>4. CASE MemoryRun(Memory!Next)  BY <1>4 DEF MemoryRun
  <1>5. CASE PagingRun(Paging!Next)  BY <1>5 DEF PagingRun
  <1>6. CASE ToldRun(Told!Next)  BY <1>6 DEF ToldRun
  <1>7. CASE UNCHANGED vars  BY <1>7 DEF vars
  <1> QED  BY <1>1, <1>2, <1>3, <1>4, <1>5, <1>6, <1>7 DEF Next

LEMMA StepOfKeys == [Next]_vars => Keys!Next \/ UNCHANGED keysVars
  <1> SUFFICES ASSUME [Next]_vars PROVE Keys!Next \/ UNCHANGED keysVars  OBVIOUS
  <1>1. CASE KeysRun(Keys!Next)  BY <1>1 DEF KeysRun
  <1>2. CASE LifeRun(Life!Next)  BY <1>2 DEF LifeRun
  <1>3. CASE LimitsRun(Limits!Next)  BY <1>3 DEF LimitsRun
  <1>4. CASE MemoryRun(Memory!Next)  BY <1>4 DEF MemoryRun
  <1>5. CASE PagingRun(Paging!Next)  BY <1>5 DEF PagingRun
  <1>6. CASE ToldRun(Told!Next)  BY <1>6 DEF ToldRun
  <1>7. CASE UNCHANGED vars  BY <1>7 DEF vars
  <1> QED  BY <1>1, <1>2, <1>3, <1>4, <1>5, <1>6, <1>7 DEF Next

LEMMA StepOfLimits == [Next]_vars => Limits!Next \/ UNCHANGED limitsVars
  <1> SUFFICES ASSUME [Next]_vars PROVE Limits!Next \/ UNCHANGED limitsVars  OBVIOUS
  <1>1. CASE LimitsRun(Limits!Next)  BY <1>1 DEF LimitsRun
  <1>2. CASE LifeRun(Life!Next)  BY <1>2 DEF LifeRun
  <1>3. CASE KeysRun(Keys!Next)  BY <1>3 DEF KeysRun
  <1>4. CASE MemoryRun(Memory!Next)  BY <1>4 DEF MemoryRun
  <1>5. CASE PagingRun(Paging!Next)  BY <1>5 DEF PagingRun
  <1>6. CASE ToldRun(Told!Next)  BY <1>6 DEF ToldRun
  <1>7. CASE UNCHANGED vars  BY <1>7 DEF vars
  <1> QED  BY <1>1, <1>2, <1>3, <1>4, <1>5, <1>6, <1>7 DEF Next

LEMMA StepOfMemory == [Next]_vars => Memory!Next \/ UNCHANGED memoryVars
  <1> SUFFICES ASSUME [Next]_vars PROVE Memory!Next \/ UNCHANGED memoryVars  OBVIOUS
  <1>1. CASE MemoryRun(Memory!Next)  BY <1>1 DEF MemoryRun
  <1>2. CASE LifeRun(Life!Next)  BY <1>2 DEF LifeRun
  <1>3. CASE KeysRun(Keys!Next)  BY <1>3 DEF KeysRun
  <1>4. CASE LimitsRun(Limits!Next)  BY <1>4 DEF LimitsRun
  <1>5. CASE PagingRun(Paging!Next)  BY <1>5 DEF PagingRun
  <1>6. CASE ToldRun(Told!Next)  BY <1>6 DEF ToldRun
  <1>7. CASE UNCHANGED vars  BY <1>7 DEF vars
  <1> QED  BY <1>1, <1>2, <1>3, <1>4, <1>5, <1>6, <1>7 DEF Next

LEMMA StepOfPaging == [Next]_vars => Paging!Next \/ UNCHANGED pagingVars
  <1> SUFFICES ASSUME [Next]_vars PROVE Paging!Next \/ UNCHANGED pagingVars  OBVIOUS
  <1>1. CASE PagingRun(Paging!Next)  BY <1>1 DEF PagingRun
  <1>2. CASE LifeRun(Life!Next)  BY <1>2 DEF LifeRun
  <1>3. CASE KeysRun(Keys!Next)  BY <1>3 DEF KeysRun
  <1>4. CASE LimitsRun(Limits!Next)  BY <1>4 DEF LimitsRun
  <1>5. CASE MemoryRun(Memory!Next)  BY <1>5 DEF MemoryRun
  <1>6. CASE ToldRun(Told!Next)  BY <1>6 DEF ToldRun
  <1>7. CASE UNCHANGED vars  BY <1>7 DEF vars
  <1> QED  BY <1>1, <1>2, <1>3, <1>4, <1>5, <1>6, <1>7 DEF Next

LEMMA StepOfTold == [Next]_vars => Told!Next \/ UNCHANGED toldVars
  <1> SUFFICES ASSUME [Next]_vars PROVE Told!Next \/ UNCHANGED toldVars  OBVIOUS
  <1>1. CASE ToldRun(Told!Next)  BY <1>1 DEF ToldRun
  <1>2. CASE LifeRun(Life!Next)  BY <1>2 DEF LifeRun
  <1>3. CASE KeysRun(Keys!Next)  BY <1>3 DEF KeysRun
  <1>4. CASE LimitsRun(Limits!Next)  BY <1>4 DEF LimitsRun
  <1>5. CASE MemoryRun(Memory!Next)  BY <1>5 DEF MemoryRun
  <1>6. CASE PagingRun(Paging!Next)  BY <1>6 DEF PagingRun
  <1>7. CASE UNCHANGED vars  BY <1>7 DEF vars
  <1> QED  BY <1>1, <1>2, <1>3, <1>4, <1>5, <1>6, <1>7 DEF Next

-----------------------------------------------------------------------------
(* The cache of API keys.                                                   *)

Results == Keys!KeyInfos \cup {Failed, Panicked}

KeysType ==
    /\ row \in Keys!KeyInfos
    /\ request \in [Clients -> [at : {"done", "missed", "query", "store"}, got : Results]]
    /\ \A c \in Clients : request[c].at = "store" => request[c].got \in Keys!KeyInfos \cup {Failed}
    /\ entry = NoEntry \/ entry.value \in Keys!KeyInfos \cup {Untyped}
    /\ keyChanges \in Nat

\* As long as the row stays, the entry is that of the row, or the nil of an error.
EntryOfRow == entry = NoEntry \/ entry.value \in {row, Untyped}

\* And what a request is about to store is what the table holds, or an error.
StoresRow == \A c \in Clients : request[c].at = "store" => request[c].got \in {row, Failed}

KeysInv ==
    KeysType /\ (keyChanges = 0 => EntryOfRow /\ StoresRow /\ FailureIsLocal)

LEMMA KeysInitInv == Init => KeysInv
  <1> SUFFICES ASSUME Keys!Init PROVE KeysInv  BY DEF Init
  <1>1. /\ row \in Keys!KeyInfos /\ keyChanges = 0
        /\ request = [c \in Clients |-> [at |-> "done", got |-> row]]
      BY DEF Keys!Init, Keys!At
  <1>2. entry = NoEntry \/ entry = [value |-> row, expired |-> FALSE]
      BY DEF Keys!Init, Keys!Fresh, Keys!ListLimitKeyInfos
  <1>3. KeysType
    <2>1. row \in Results  BY <1>1 DEF Results
    <2>2. request \in [Clients -> [at : {"done", "missed", "query", "store"}, got : Results]]
        BY <1>1, <2>1
    <2>3. \A c \in Clients : request[c].at # "store"  BY <1>1
    <2> QED  BY <1>1, <1>2, <2>2, <2>3 DEF KeysType
  <1>4. EntryOfRow /\ StoresRow /\ FailureIsLocal
      BY <1>1, <1>2 DEF EntryOfRow, StoresRow, FailureIsLocal, Keys!FailureIsLocal
  <1> QED  BY <1>3, <1>4 DEF KeysInv

\* A request that moves changes what is known of itself only.
LEMMA MoveKeeps ==
    ASSUME KeysInv, NEW c \in Clients,
           NEW at \in {"done", "missed", "query", "store"}, NEW got \in Results,
           Keys!Move(c, at, got), UNCHANGED <<row, keyChanges>>,
           at = "store" => got \in {row, Failed},
           keyChanges = 0 /\ at = "done" => got \in {row, Failed, Panicked}
    PROVE  /\ request' \in [Clients -> [at : {"done", "missed", "query", "store"}, got : Results]]
           /\ \A d \in Clients : request'[d].at = "store" =>
                                  request'[d].got \in Keys!KeyInfos \cup {Failed}
           /\ keyChanges = 0 => StoresRow' /\ FailureIsLocal'
  <1>1. request' = [request EXCEPT ![c] = [at |-> at, got |-> got]]
      BY DEF Keys!Move, Keys!At
  <1>2. \A d \in Clients : request'[d] = IF d = c THEN [at |-> at, got |-> got] ELSE request[d]
      BY <1>1 DEF KeysInv, KeysType
  <1> QED
      BY <1>1, <1>2 DEF KeysInv, KeysType, StoresRow, FailureIsLocal, Keys!FailureIsLocal

LEMMA KeysNextInv == KeysInv /\ [Next]_vars => KeysInv'
  <1> SUFFICES ASSUME KeysInv, [Next]_vars PROVE KeysInv'  OBVIOUS
  <1>1. ASSUME NEW c \in Clients, Keys!Lookup(c) PROVE KeysInv'
    <2>1. UNCHANGED <<row, entry, keyChanges>>  BY <1>1 DEF Keys!Lookup
    <2>2. CASE Keys!Hit
      <3>1. Keys!Move(c, "done", Keys!Converted(entry.value))
          BY <1>1, <2>2 DEF Keys!Lookup
      <3>2. /\ Keys!Converted(entry.value) \in Results
            /\ keyChanges = 0 => Keys!Converted(entry.value) \in {row, Failed, Panicked}
          BY <2>2 DEF Keys!Hit, Keys!Found, Keys!Converted, KeysInv, KeysType, EntryOfRow, Results
      <3> QED
          BY <2>1, <3>1, <3>2, MoveKeeps DEF KeysInv, KeysType, EntryOfRow
    <2>3. CASE ~Keys!Hit
      <3>1. Keys!Move(c, "missed", Missing)  BY <1>1, <2>3 DEF Keys!Lookup
      <3>2. Missing \in Results  BY DEF Results, Keys!KeyInfos
      <3> QED
          BY <2>1, <3>1, <3>2, MoveKeeps DEF KeysInv, KeysType, EntryOfRow
    <2> QED  BY <2>2, <2>3
  <1>2. ASSUME NEW c \in Clients, Keys!Recheck(c) PROVE KeysInv'
    <2>1. UNCHANGED <<row, keyChanges>>  BY <1>2 DEF Keys!Recheck
    <2>2. CASE Keys!Found /\ Keys!Move(c, "done", Keys!Converted(entry.value)) /\ UNCHANGED entry
      <3>1. /\ Keys!Converted(entry.value) \in Results
            /\ keyChanges = 0 => Keys!Converted(entry.value) \in {row, Failed, Panicked}
          BY <2>2 DEF Keys!Found, Keys!Converted, KeysInv, KeysType, EntryOfRow, Results
      <3> QED
          BY <2>1, <2>2, <3>1, MoveKeeps DEF KeysInv, KeysType, EntryOfRow
    <2>3. CASE /\ Keys!Move(c, "query", Missing)
               /\ entry' = entry \/ (Keys!Found /\ entry' = Keys!Fresh(entry.value))
      <3>1. Missing \in Results  BY DEF Results, Keys!KeyInfos
      <3>2. /\ entry' = NoEntry \/ entry'.value \in Keys!KeyInfos \cup {Untyped}
            /\ keyChanges = 0 => EntryOfRow'
          BY <2>1, <2>3 DEF Keys!Found, Keys!Fresh, KeysInv, KeysType, EntryOfRow
      <3> QED
          BY <2>1, <2>3, <3>1, <3>2, MoveKeeps DEF KeysInv, KeysType
    <2> QED  BY <1>2, <2>2, <2>3 DEF Keys!Recheck, Keys!Hit
  <1>3. ASSUME NEW c \in Clients, Keys!Query(c) PROVE KeysInv'
    <2>1. UNCHANGED <<row, entry, keyChanges>>  BY <1>3 DEF Keys!Query
    <2>2. PICK got \in Keys!LoadDB \cup {Failed} : Keys!Move(c, "store", got)
        BY <1>3 DEF Keys!Query
    <2>3. got \in {row, Failed} /\ got \in Results
        BY <2>2 DEF Keys!LoadDB, Keys!ListLimitKeyInfos, KeysInv, KeysType, Results
    <2> QED  BY <2>1, <2>2, <2>3, MoveKeeps DEF KeysInv, KeysType, EntryOfRow
  <1>4. ASSUME NEW c \in Clients, Keys!StoreCache(c) PROVE KeysInv'
    <2> DEFINE got == request[c].got
    <2>1. /\ UNCHANGED <<row, keyChanges>> /\ entry' = Keys!Cached(got)
          /\ Keys!Move(c, "done", got) /\ request[c].at = "store"
        BY <1>4 DEF Keys!StoreCache
    <2>2. got \in Keys!KeyInfos \cup {Failed} /\ (keyChanges = 0 => got \in {row, Failed})
        BY <2>1 DEF KeysInv, KeysType, StoresRow
    <2> HIDE DEF got
    <2>a. got \in Results /\ "done" # "store"  BY <2>2 DEF Results
    <2>3. CASE got = Failed
        BY <2>1, <2>2, <2>3, <2>a, MoveKeeps
           DEF Keys!Cached, Keys!Fresh, Keys!Found, KeysInv, KeysType, EntryOfRow
    <2>4. CASE got # Failed
      <3>1. entry' = [value |-> got, expired |-> FALSE]
          BY <2>1, <2>4 DEF Keys!Cached, Keys!Fresh
      <3> QED
          BY <2>1, <2>2, <2>4, <2>a, <3>1, MoveKeeps DEF KeysInv, KeysType, EntryOfRow
    <2> QED  BY <2>3, <2>4
  <1>5. CASE Keys!Expire
    BY <1>5 DEF Keys!Expire, Keys!Hit, Keys!Found, KeysInv, KeysType, EntryOfRow, StoresRow,
                FailureIsLocal, Keys!FailureIsLocal
  <1>6. CASE Keys!Evict
    BY <1>6 DEF Keys!Evict, KeysInv, KeysType, EntryOfRow, StoresRow, FailureIsLocal,
                Keys!FailureIsLocal
  <1>7. CASE Keys!ChangeRow
    BY <1>7 DEF Keys!ChangeRow, KeysInv, KeysType, Keys!KeyInfos
  <1>8. CASE UNCHANGED keysVars
    BY <1>8 DEF keysVars, KeysInv, KeysType, EntryOfRow, StoresRow, FailureIsLocal,
                Keys!FailureIsLocal
  <1> QED
      BY <1>1, <1>2, <1>3, <1>4, <1>5, <1>6, <1>7, <1>8, StepOfKeys DEF Keys!Next, Keys!Request

\* The invariant of the cache holds in every state.
THEOREM KeysInvariance == Spec => []KeysInv
  BY KeysInitInv, KeysNextInv, PTL DEF Spec

\* While the row of a key stays, a failed query of LimitKeyLoader takes the strategy
\* of the key from no request but its own.
THEOREM FailuresAreLocal == Spec => []FailureIsLocal
  <1>1. KeysInv => FailureIsLocal  BY DEF KeysInv, FailureIsLocal, Keys!FailureIsLocal
  <1> QED  BY <1>1, KeysInvariance, PTL

-----------------------------------------------------------------------------
(* The start and stop of the processes.                                     *)

\* The lifetime in the memory of a process is the one of the row.
HeldOK == held \in [{"stat", "api"} -> {NoSeconds, lifetimeRow}]

LifeType ==
    /\ stage \in [Life!Procs -> Life!Stages]
    /\ routine \in [Life!Routines -> Life!Places]

\* A catch-up that left blocks out was interrupted, and the select ends the syncer then.
FollowsComplete ==
    /\ routine["syncer"] = "select" => (behind => Life!Cancelled("sync"))
    /\ routine["syncer"] \in {"ticking", "tick"} => ~behind

LifeInv == LifeType /\ HeldOK /\ (~SlowSelect => FollowsComplete)

\* Where the syncer does not follow the head yet.
Earlier == Life!Places \ {"select", "ticking", "tick"}

\* The syncer belongs to sync.
LEMMA Belongs ==
    /\ \A p : "syncer" \in Life!RoutinesOf(p) <=> p = "sync"
    /\ {"syncer", "tickers"} \subseteq Life!Routines
    /\ "sync" \in Life!Procs
  <1>1. "syncer" \notin Life!Statistics
      BY Constants DEF Life!ConstantsOK
  <1>2. {"syncer", "tickers"} \subseteq Life!Routines  BY DEF Life!Routines
  <1> QED  BY <1>1, <1>2 DEF Life!RoutinesOf, Life!Procs

\* A step of a main function: none takes a signal back.
LEMMA StageKeeps ==
    ASSUME LifeInv, NEW p, NEW s \in Life!Stages,
           Life!Goto(p, s) \/ UNCHANGED stage,
           stage[p] \notin {"waiting", "closed"} \/ s \in {"waiting", "closed"},
           HeldOK',
           UNCHANGED routine \/ (\E r : routine' = [routine EXCEPT ![r] = "new"]),
           UNCHANGED behind
    PROVE  LifeInv'
  <1>1. stage' \in [Life!Procs -> Life!Stages]
      BY DEF Life!Goto, LifeInv, LifeType
  <1>2. Life!Cancelled("sync") => Life!Cancelled("sync")'
      BY Belongs DEF Life!Goto, Life!Cancelled, LifeInv, LifeType
  <1>3. /\ routine' \in [Life!Routines -> Life!Places]
        /\ routine'["syncer"] = routine["syncer"] \/ routine'["syncer"] = "new"
      BY Belongs DEF LifeInv, LifeType, Life!Places
  <1> QED  BY <1>1, <1>2, <1>3 DEF LifeInv, LifeType, FollowsComplete

LEMMA ExitKeeps ==
    ASSUME LifeInv, NEW p, Life!Exit(p), UNCHANGED lifetimeRow
    PROVE  LifeInv'
  <1>1. /\ stage' \in [Life!Procs -> Life!Stages]
        /\ p # "sync" => stage'["sync"] = stage["sync"]
      BY Belongs DEF Life!Exit, Life!Goto, LifeInv, LifeType, Life!Stages
  <1>2. /\ routine' \in [Life!Routines -> Life!Places]
        /\ routine'["syncer"] = IF p = "sync" THEN "none" ELSE routine["syncer"]
      BY Belongs DEF Life!Exit, LifeInv, LifeType, Life!Places
  <1>3. HeldOK'
      BY DEF Life!Exit, LifeInv, HeldOK
  <1>4. behind' => behind /\ p # "sync"  BY DEF Life!Exit
  <1> QED
      BY <1>1, <1>2, <1>3, <1>4 DEF LifeInv, LifeType, FollowsComplete, Life!Cancelled

\* A step of a goroutine that does not bring the syncer closer to following the head.
LEMMA RoutineKeeps ==
    ASSUME LifeInv, NEW r \in Life!Routines, NEW to \in Life!Places,
           Life!Move(r, to), UNCHANGED <<stage, held, lifetimeRow>>,
           r = "syncer" => to \in Earlier,
           UNCHANGED behind \/ r = "syncer"
    PROVE  LifeInv'
  <1>1. /\ routine' \in [Life!Routines -> Life!Places]
        /\ \A q \in Life!Routines : routine'[q] = IF q = r THEN to ELSE routine[q]
      BY DEF Life!Move, LifeInv, LifeType
  <1>2. FollowsComplete => FollowsComplete'
      BY <1>1, Belongs DEF FollowsComplete, Earlier, Life!Cancelled
  <1> QED  BY <1>1, <1>2 DEF LifeInv, LifeType, HeldOK

\* A step of the syncer that brings it there, or leaves it there.
LEMMA SyncerKeeps ==
    ASSUME LifeInv, NEW to \in Life!Places,
           Life!Move("syncer", to), UNCHANGED <<stage, held, lifetimeRow>>,
           ~SlowSelect /\ to = "select" => (behind' => Life!Cancelled("sync")),
           ~SlowSelect /\ to \in {"ticking", "tick"} => ~behind'
    PROVE  LifeInv'
  <1>1. /\ routine' \in [Life!Routines -> Life!Places]
        /\ routine'["syncer"] = to
      BY Belongs DEF Life!Move, LifeInv, LifeType
  <1>2. ~SlowSelect => FollowsComplete'
      BY <1>1 DEF FollowsComplete, Life!Cancelled
  <1> QED  BY <1>1, <1>2 DEF LifeInv, LifeType, HeldOK

LEMMA LifeInitInv == Init => LifeInv
  <1> SUFFICES ASSUME Life!Init PROVE LifeInv  BY DEF Init
  <1>1. LifeType /\ HeldOK
      BY DEF Life!Init, LifeType, HeldOK, Life!Stages, Life!Places
  <1>2. FollowsComplete  BY Belongs DEF Life!Init, FollowsComplete
  <1> QED  BY <1>1, <1>2 DEF LifeInv

\* A stage of the start of sync.
LEMMA StartKeeps == ASSUME LifeInv, Life!StartSyncService PROVE LifeInv'
  <1> DEFINE Starting == {"catchup addresses", "catchup lifetime", "patch addresses",
                          "head addresses", "head lifetime"}
  <1>0. /\ Starting \cup {"up"} \subseteq Life!Stages
        /\ Starting \cap {"waiting", "closed"} = {}
      BY DEF Life!Stages
  <1> HIDE DEF Starting
  <1>1. ASSUME NEW s, NEW at \in Starting, NEW next \in Life!Stages,
               Life!MustInitContract(s, at, next)
        PROVE  LifeInv'
      BY <1>0, <1>1, StageKeeps DEF Life!MustInitContract, LifeInv, HeldOK
  <1>2. ASSUME NEW s, NEW at \in Starting, NEW next \in Life!Stages,
               Life!MustInitLifetime(s, at, next),
               UNCHANGED routine \/ routine' = [routine EXCEPT !["syncer"] = "new"]
        PROVE  LifeInv'
    <2>1. lifetimeRow' = lifetimeRow \/ lifetimeRow = NoSeconds
        BY <1>2 DEF Life!MustInitLifetime, Life!MustInitExpireInSec
    <2>2. HeldOK'
        BY <1>2, <2>1 DEF Life!MustInitLifetime, LifeInv, HeldOK
    <2> QED  BY <1>0, <1>2, <2>2, StageKeeps DEF Life!MustInitLifetime
  <1>3. CASE Life!PatchInitContract
    <2>1. stage["sync"] = "patch addresses" /\ Life!Goto("sync", "head addresses")
        BY <1>3 DEF Life!PatchInitContract
    <2>2. HeldOK'  BY <1>3 DEF Life!PatchInitContract, LifeInv, HeldOK
    <2>3. "head addresses" \in Life!Stages  BY DEF Life!Stages
    <2> QED  BY <1>3, <2>1, <2>2, <2>3, StageKeeps DEF Life!PatchInitContract
  <1>4. /\ {"catchup addresses", "catchup lifetime", "head addresses", "head lifetime"}
              \subseteq Starting
        /\ {"catchup lifetime", "patch addresses", "head lifetime", "up"} \subseteq Life!Stages
      BY <1>0 DEF Starting
  <1> QED  BY <1>1, <1>2, <1>3, <1>4 DEF Life!StartSyncService

\* A step of a main function or of its supervisor.
LEMMA MainKeeps == ASSUME LifeInv, NEW p \in Life!Procs, Life!Main(p) PROVE LifeInv'
  <1> USE DEF LifeInv, HeldOK
  <1>0. {"workers", "up", "lifetime", "catchup addresses", "range start", "charge", "closed"}
            \subseteq Life!Stages
      BY DEF Life!Stages
  <1>1. CASE Life!MustInitDataContext(p)
    <2>1. Life!FirstStage(p) \in Life!Stages  BY <1>0 DEF Life!FirstStage
    <2> QED  BY <1>1, <2>1, StageKeeps DEF Life!MustInitDataContext
  <1>2. CASE Life!Fatal(p)  BY <1>2, ExitKeeps DEF Life!Fatal
  <1>3. CASE Life!Wait(p)  BY <1>0, <1>3, StageKeeps DEF Life!Wait
  <1>4. CASE Life!Return(p)  BY <1>4, ExitKeeps DEF Life!Return
  <1>5. CASE Life!StartSyncService  BY <1>5, StartKeeps
  <1>6. CASE Life!MustDefaultRangeStart
      BY <1>0, <1>6, StageKeeps DEF Life!MustDefaultRangeStart
  <1>7. CASE Life!StartStatWorker
    <2>1. /\ Life!Goto("stat", "up") \/ UNCHANGED stage
          /\ stage["stat"] = "workers"
          /\ \E r : routine' = [routine EXCEPT ![r] = "new"]
          /\ UNCHANGED <<lifetimeRow, behind>>
          /\ held' = held \/ held' = [held EXCEPT !["stat"] = lifetimeRow]
        BY <1>7 DEF Life!StartStatWorker
    <2>2. HeldOK'  BY <2>1
    <2> QED  BY <1>0, <2>1, <2>2, StageKeeps
  <1>8. CASE Life!InitTokenInfo(p)
      BY <1>0, <1>8, StageKeeps DEF Life!InitTokenInfo
  <1>9. CASE Life!MustInitExpireSeconds
    <2>1. HeldOK'  BY <1>9 DEF Life!MustInitExpireSeconds
    <2> QED  BY <1>0, <1>9, <2>1, StageKeeps DEF Life!MustInitExpireSeconds
  <1> QED
      BY <1>1, <1>2, <1>3, <1>4, <1>5, <1>6, <1>7, <1>8, <1>9 DEF Life!Main

\* A step of a goroutine.  The catch-up leaves blocks out only when it is cancelled.
LEMMA GoesKeeps == ASSUME LifeInv, NEW r \in Life!Routines, Life!Goes(r) PROVE LifeInv'
  <1>0. /\ {"check", "running", "range", "new", "catchup", "done"} \subseteq Earlier
        /\ Earlier \cup {"select", "ticking", "tick"} = Life!Places
        /\ "syncer" \in Life!Routines
      BY Belongs DEF Life!Places, Earlier
  <1>1. CASE Life!Begin(r)
      BY <1>0, <1>1, RoutineKeeps DEF Life!Begin
  <1>2. CASE Life!CheckReorgData
    <2>1. /\ routine' = [routine EXCEPT !["syncer"] = "range", !["tickers"] = "new"]
          /\ UNCHANGED <<stage, held, lifetimeRow, behind>>
        BY <1>2 DEF Life!CheckReorgData
    <2>2. /\ routine' \in [Life!Routines -> Life!Places]
          /\ routine'["syncer"] = "range"
        BY <2>1, Belongs DEF LifeInv, LifeType, Life!Places
    <2> QED
        BY <2>1, <2>2 DEF LifeInv, LifeType, HeldOK, FollowsComplete
  <1>3. CASE Life!CheckPanics  BY <1>3, ExitKeeps DEF Life!CheckPanics
  <1>4. CASE Life!TryBlockRange
    <2>1. /\ Life!Move("syncer", "catchup") \/ Life!Move("syncer", "select")
          /\ UNCHANGED <<stage, held, lifetimeRow>>
          /\ Life!Move("syncer", "catchup") \/ (behind' => Life!Cancelled("sync"))
        BY <1>4 DEF Life!TryBlockRange
    <2>2. CASE Life!Move("syncer", "catchup")
        BY <1>0, <2>1, <2>2, RoutineKeeps
    <2>3. CASE Life!Move("syncer", "select") /\ (behind' => Life!Cancelled("sync"))
        BY <1>0, <2>1, <2>3, SyncerKeeps
    <2> QED  BY <2>1, <2>2, <2>3
  <1>5. CASE Life!SyncRange
      BY <1>0, <1>5, RoutineKeeps DEF Life!SyncRange
  <1>6. CASE Life!FirstSelect
    <2>1. /\ routine["syncer"] = "select" /\ UNCHANGED <<stage, held, lifetimeRow, behind>>
          /\ \/ Life!Move("syncer", "done")
             \/ Life!Move("syncer", "ticking") /\ ~Life!Cancelled("sync")
             \/ Life!Move("syncer", "tick") /\ SlowSelect
        BY <1>6 DEF Life!FirstSelect
    <2>2. ~SlowSelect => (behind => Life!Cancelled("sync"))
        BY <2>1 DEF LifeInv, FollowsComplete
    <2>3. CASE Life!Move("syncer", "done")  BY <1>0, <2>1, <2>3, RoutineKeeps
    <2>4. CASE Life!Move("syncer", "ticking") /\ ~Life!Cancelled("sync")
        BY <1>0, <2>1, <2>2, <2>4, SyncerKeeps
    <2>5. CASE Life!Move("syncer", "tick") /\ SlowSelect
        BY <1>0, <2>1, <2>5, SyncerKeeps
    <2> QED  BY <2>1, <2>3, <2>4, <2>5
  <1>7. CASE Life!EndTick
    <2>1. ~SlowSelect => ~behind  BY <1>7 DEF Life!EndTick, LifeInv, FollowsComplete
    <2> QED  BY <1>0, <1>7, <2>1, SyncerKeeps DEF Life!EndTick
  <1> QED  BY <1>1, <1>2, <1>3, <1>4, <1>5, <1>6, <1>7 DEF Life!Goes

LEMMA LifeNextInv == LifeInv /\ [Next]_vars => LifeInv'
  <1> SUFFICES ASSUME LifeInv, [Next]_vars PROVE LifeInv'  OBVIOUS
  <1>1. ASSUME NEW p \in Life!Procs, Life!Main(p) PROVE LifeInv'
      BY <1>1, MainKeeps
  <1>2. ASSUME NEW p \in Life!Procs, Life!Terminate(p) PROVE LifeInv'
    <2>1. "waiting" \in Life!Stages  BY DEF Life!Stages
    <2> QED  BY <1>2, <2>1, StageKeeps DEF Life!Terminate, LifeInv, HeldOK
  <1>3. ASSUME NEW p \in Life!Procs, Life!Killed(p) PROVE LifeInv'
      BY <1>3, ExitKeeps DEF Life!Killed
  <1>4. ASSUME NEW r \in Life!Routines, Life!Goes(r) PROVE LifeInv'
      BY <1>4, GoesKeeps
  <1>5. ASSUME NEW r \in Life!Routines, Life!Leave(r) PROVE LifeInv'
    <2>1. "done" \in Earlier /\ "done" \in Life!Places  BY DEF Life!Places, Earlier
    <2> QED  BY <1>5, <2>1, RoutineKeeps DEF Life!Leave
  <1>6. CASE Life!Tick
    <2>1. "tick" \in Life!Places  BY DEF Life!Places
    <2>2. ~SlowSelect => ~behind  BY <1>6 DEF Life!Tick, LifeInv, FollowsComplete
    <2> QED  BY <1>6, <2>1, <2>2, SyncerKeeps DEF Life!Tick
  <1>7. CASE Life!Outage \/ Life!Recover \/ Life!Upgrade \/ UNCHANGED lifeVars
      BY <1>7 DEF Life!Outage, Life!Recover, Life!Upgrade, lifeVars, LifeInv, LifeType, HeldOK,
                  FollowsComplete, Life!Cancelled
  <1> QED
      BY <1>1, <1>2, <1>3, <1>4, <1>5, <1>6, <1>7, StepOfLife DEF Life!Next

\* The invariant of start and stop holds in every state.
THEOREM LifeInvariance == Spec => []LifeInv
  BY LifeInitInv, LifeNextInv, PTL DEF Spec

\* The statistics and the API call a file expired by the same lifetime, whenever each
\* was started and whatever the market does (mustInitExpireInSec).
THEOREM SameLifetime == Spec => []SameExpiry
  <1>1. LifeInv => SameExpiry
      BY DEF LifeInv, HeldOK, SameExpiry, Life!SameExpiry
  <1> QED  BY <1>1, LifeInvariance, PTL

\* When no ticker is faster than its first select, no catch-up that a signal or a failure
\* cut short is followed by a tick at the head (Syncer.Sync, CatchupSyncer.Sync).
THEOREM NothingIsSkipped == ASSUME SlowSelect = FALSE PROVE Spec => []NothingSkipped
  <1>1. LifeInv => NothingSkipped
      BY DEF LifeInv, FollowsComplete, NothingSkipped, Life!NothingSkipped
  <1> QED  BY <1>1, LifeInvariance, PTL

-----------------------------------------------------------------------------
(* What is kept in memory for the handlers.                                 *)

\* A ranking in memory is no newer than what the refresh has read since, and that no newer
\* than what the database holds.
MemoryInv ==
    /\ topns \in [Memory!Rankings -> Nat] /\ cachedTopns \in [Memory!Rankings -> Nat]
    /\ readTopns \in [Memory!Rankings -> Nat \cup {Memory!NotRead}]
    /\ \A r \in Memory!Rankings :
          /\ cachedTopns[r] <= topns[r]
          /\ readTopns[r] # Memory!NotRead =>
                cachedTopns[r] <= readTopns[r] /\ readTopns[r] <= topns[r]

\* Nothing is read.
LEMMA NothingRead ==
    ASSUME readTopns' = Memory!NoTopns
    PROVE  /\ readTopns' \in [Memory!Rankings -> Nat \cup {Memory!NotRead}]
           /\ \A r \in Memory!Rankings : readTopns'[r] = Memory!NotRead
  BY DEF Memory!NoTopns

\* A part of the refresh that fails leaves the memory as it was.
LEMMA FailKeepsMemory ==
    ASSUME MemoryInv, NEW next, Memory!Fails(next)
    PROVE  MemoryInv' /\ cachedTopns' = cachedTopns
  <1>1. readTopns' = Memory!NoTopns /\ topns' = topns /\ cachedTopns' = cachedTopns
      BY DEF Memory!Fails, Memory!dbVars, Memory!cacheVars
  <1> QED  BY <1>1, NothingRead DEF MemoryInv

LEMMA MemoryStep ==
    ASSUME MemoryInv, Memory!Next
    PROVE  MemoryInv' /\ \A r \in Memory!Rankings : cachedTopns'[r] >= cachedTopns[r]
  <1>0. \A r \in Memory!Rankings : cachedTopns[r] >= cachedTopns[r]  BY DEF MemoryInv
  <1>a. ASSUME UNCHANGED <<topns, cachedTopns, readTopns>>
        PROVE  MemoryInv' /\ cachedTopns' = cachedTopns
      BY <1>a DEF MemoryInv
  <1>1. CASE Memory!LoadTopn
    <2>1. CASE Memory!Fails("heights")  BY <2>1, <1>0, FailKeepsMemory
    <2>2. ASSUME NEW r \in Memory!Rankings, readTopns' = [readTopns EXCEPT ![r] = topns[r]],
                 UNCHANGED <<topns, cachedTopns>>
          PROVE  MemoryInv'
        BY <2>2 DEF MemoryInv, Memory!NotRead
    <2>3. ~Memory!Fails("heights") => UNCHANGED <<topns, cachedTopns>>
        BY <1>1 DEF Memory!LoadTopn, Memory!dbVars, Memory!cacheVars
    <2> QED  BY <1>0, <1>1, <2>1, <2>2, <2>3 DEF Memory!LoadTopn
  <1>2. CASE Memory!CacheTopn
    <2>1. /\ cachedTopns' = readTopns /\ readTopns' = Memory!NoTopns /\ topns' = topns
          /\ \A r \in Memory!Rankings : readTopns[r] # Memory!NotRead
        BY <1>2 DEF Memory!CacheTopn, Memory!AllRead, Memory!dbVars
    <2>2. readTopns \in [Memory!Rankings -> Nat]  BY <2>1 DEF MemoryInv
    <2>3. MemoryInv'  BY <2>1, <2>2, NothingRead DEF MemoryInv
    <2> QED  BY <2>1, <2>2, <2>3 DEF MemoryInv
  <1>3. CASE Memory!LoadNodeHeight
    <2>1. CASE Memory!Fails("rewards")  BY <2>1, <1>0, FailKeepsMemory
    <2>2. CASE ~Memory!Fails("rewards")
        BY <1>0, <1>3, <1>a, <2>2
           DEF Memory!LoadNodeHeight, Memory!dbVars, Memory!cacheVars
    <2> QED  BY <2>1, <2>2
  <1>4. CASE Memory!CacheSyncHeights
    <2>1. CASE Memory!Fails("rewards")  BY <2>1, <1>0, FailKeepsMemory
    <2>2. CASE ~Memory!Fails("rewards")
        BY <1>0, <1>4, <1>a, <2>2
           DEF Memory!CacheSyncHeights, Memory!dbVars, Memory!cacheVars
    <2> QED  BY <2>1, <2>2
  <1>5. CASE Memory!CacheMinerRewardStat
    <2>1. CASE Memory!Fails("topn")  BY <2>1, <1>0, FailKeepsMemory
    <2>2. CASE ~Memory!Fails("topn")
        BY <1>0, <1>5, <1>a, <2>2
           DEF Memory!CacheMinerRewardStat, Memory!dbVars, Memory!cacheVars
    <2> QED  BY <2>1, <2>2
  <1>6. CASE Memory!ReadSummary
      BY <1>0, <1>6, <1>a DEF Memory!ReadSummary, Memory!dbVars, Memory!cacheVars
  <1>7. CASE Memory!Write
    <2>1. UNCHANGED <<cachedTopns, readTopns>>
        BY <1>7 DEF Memory!Write, Memory!cacheVars
    <2>2. CASE topns' = topns  BY <1>0, <1>a, <2>1, <2>2
    <2>3. ASSUME NEW r \in Memory!Rankings, topns' = [topns EXCEPT ![r] = @ + 1]
          PROVE  MemoryInv'
      <3>1. /\ topns' \in [Memory!Rankings -> Nat]
            /\ \A o \in Memory!Rankings : topns[o] <= topns'[o]
          BY <2>3 DEF MemoryInv
      <3> QED  BY <2>1, <3>1 DEF MemoryInv, Memory!NotRead
    <2> QED  BY <1>0, <1>7, <2>1, <2>2, <2>3 DEF Memory!Write
  <1> QED
      BY <1>1, <1>2, <1>3, <1>4, <1>5, <1>6, <1>7 DEF Memory!Next, Memory!Refresh

LEMMA MemoryInitInv == Init => MemoryInv
  BY DEF Init, Memory!Init, Memory!NoTopns, Memory!Nothing, Memory!NotRead, MemoryInv

LEMMA MemoryNextInv == MemoryInv /\ [Next]_vars => MemoryInv' /\ Memory!NotOlder
  <1> SUFFICES ASSUME MemoryInv, [Next]_vars PROVE MemoryInv' /\ Memory!NotOlder  OBVIOUS
  <1>1. CASE Memory!Next
      BY <1>1, MemoryStep DEF Memory!NotOlder, Memory!TopnByType
  <1>2. CASE UNCHANGED memoryVars
    <2>1. UNCHANGED <<topns, cachedTopns, readTopns>>  BY <1>2 DEF memoryVars
    <2> QED  BY <2>1 DEF MemoryInv, Memory!NotOlder, Memory!TopnByType
  <1> QED  BY <1>1, <1>2, StepOfMemory

-----------------------------------------------------------------------------
(* The answers about one account, one miner or one file.                    *)

\* The first k files had expired when the finalized block was made.
Past(k) ==
    /\ k \in Nat /\ k <= Len(submitted)
    /\ \A f \in 1..k : submitted[f] + Lifetime <= finalTime

\* The files whose lifetime does not end before a time.
HealthyUntil(t) == {f \in DOMAIN submitted : submitted[f] + Lifetime >= t}
ExpiredBefore(t) == {f \in DOMAIN submitted : submitted[f] + Lifetime < t}

ToldType ==
    /\ time \in Nat /\ finalTime \in Nat /\ finalTime < time
    /\ submitted \in Seq(Nat)
    /\ miner = NoRow \/ miner \in [wins : Nat, attempts : Nat]
    /\ ranked = NoRow \/ ranked \in Nat

\* What was counted, read for an answer and told as expired had expired; what was told to
\* be healthy is so until the time ahead; and wins that were read are a number.
AskedOK ==
    /\ asked.step \in {"balance", "stats", "info", "miner"} => Past(asked.expired)
    /\ asked.step = "ranked" => asked.wins \in Nat
PromiseOK ==
    /\ promised.until \in Int
    /\ promised.healthy \in Nat /\ promised.healthy <= Cardinality(HealthyUntil(promised.until))
AnswerOK ==
    /\ answer.of = "info" => Past(answer.expired)
    /\ answer.of = "stats" => answer.expired = Cardinality(ExpiredBefore(time))
    /\ answer.of = "reward" => answer.wins <= answer.attempts

ToldInv ==
    /\ ToldType /\ (account = NoRow \/ Past(account)) /\ Past(toldExpired)
    /\ AskedOK /\ PromiseOK /\ AnswerOK

LEMMA ToldConstants == Lifetime \in Nat /\ Soon \in Nat
  BY ServicesAssumption DEF ServicesAssumption, Told!ConstantsOK

LEMMA ToldLibrary == \A S : Told!Cardinality(S) = Cardinality(S)
  BY DEF Told!Cardinality, Cardinality

\* The files of an account are finitely many.
LEMMA FilesFinite ==
    ASSUME submitted \in Seq(Nat), NEW S, S \subseteq DOMAIN submitted
    PROVE  /\ IsFiniteSet(S) /\ Cardinality(S) \in Nat /\ Cardinality(S) <= Len(submitted)
           /\ DOMAIN submitted = 1..Len(submitted) /\ Len(submitted) \in Nat
  <1>1. DOMAIN submitted = 1..Len(submitted) /\ Len(submitted) \in Nat  OBVIOUS
  <1>2. IsFiniteSet(1..Len(submitted)) /\ Cardinality(1..Len(submitted)) = Len(submitted)
      BY <1>1, FirstNumbers
  <1>3. IsFiniteSet(S) /\ Cardinality(S) <= Len(submitted)
      BY <1>1, <1>2, FS_Subset
  <1> QED  BY <1>1, <1>3, FS_CardinalityType

\* Of the files that had expired some time ago there are no more than of those that have.
LEMMA PastAreExpired ==
    ASSUME ToldType, NEW k, Past(k)
    PROVE  k <= Cardinality(ExpiredBefore(time))
  <1>1. 1..k \subseteq ExpiredBefore(time)
    <2> SUFFICES ASSUME NEW f \in 1..k PROVE f \in ExpiredBefore(time)  OBVIOUS
    <2>1. f \in DOMAIN submitted /\ submitted[f] \in Nat  BY DEF ToldType, Past
    <2> QED  BY <2>1, ToldConstants DEF ToldType, Past, ExpiredBefore
  <1>2. IsFiniteSet(ExpiredBefore(time))  BY FilesFinite DEF ToldType, ExpiredBefore
  <1>3. Cardinality(1..k) = k  BY FirstNumbers DEF Past
  <1> QED  BY <1>1, <1>2, <1>3, FS_Subset DEF Past

\* What has expired is not healthy until later.
LEMMA ExpiredOrHealthy ==
    ASSUME ToldType, NEW t \in Int, time < t
    PROVE  Cardinality(ExpiredBefore(time)) + Cardinality(HealthyUntil(t)) <= Len(submitted)
  <1> DEFINE E == ExpiredBefore(time)
             H == HealthyUntil(t)
  <1>1. E \subseteq DOMAIN submitted /\ H \subseteq DOMAIN submitted
      BY DEF ExpiredBefore, HealthyUntil
  <1>2. E \cap H = {}
    <2> SUFFICES ASSUME NEW f \in E, f \in H PROVE FALSE  OBVIOUS
    <2>1. submitted[f] \in Nat  BY <1>1 DEF ToldType
    <2> QED  BY <2>1, ToldConstants DEF ToldType, ExpiredBefore, HealthyUntil
  <1> HIDE DEF E, H
  <1>3. IsFiniteSet(E) /\ IsFiniteSet(H) /\ E \cup H \subseteq DOMAIN submitted
      BY <1>1, FilesFinite DEF ToldType
  <1>4. Cardinality(E \cup H) = Cardinality(E) + Cardinality(H) - Cardinality(E \cap H)
      BY <1>3, FS_Union
  <1>5. Cardinality(E \cap H) = 0  BY <1>2, FS_EmptySet
  <1>6. Cardinality(E \cup H) <= Len(submitted)  BY <1>3, FilesFinite DEF ToldType
  <1>7. Cardinality(E) \in Nat /\ Cardinality(H) \in Nat  BY <1>3, FS_CardinalityType
  <1> QED  BY <1>4, <1>5, <1>6, <1>7 DEF E, H

\* Every file is in one of the classes of an answer.
LEMMA ClassesSum ==
    ASSUME ToldType
    PROVE  /\ Told!Stats.expired + Told!Stats.soon + Told!Stats.healthy = Told!Stats.total
           /\ Told!Stats.of = "stats"
           /\ Told!Stats.expired = Cardinality(ExpiredBefore(time))
           /\ Told!Stats.healthy = Cardinality(HealthyUntil(time + Soon))
  <1> DEFINE D == DOMAIN submitted
             E == {f \in D : submitted[f] + Lifetime < time}
             S == {f \in D : ~(submitted[f] + Lifetime < time)
                             /\ submitted[f] + Lifetime < time + Soon}
             H == {f \in D : submitted[f] + Lifetime >= time + Soon}
  <1>1. /\ Told!Stats.total = Len(submitted) /\ Told!Stats.of = "stats"
        /\ Told!Stats.expired = Cardinality(E) /\ Told!Stats.soon = Cardinality(S)
        /\ Told!Stats.healthy = Cardinality(H)
      BY ToldLibrary DEF Told!Stats, Told!Files, Told!IsExpired, Told!IsHealthy
  <1>2. E = ExpiredBefore(time) /\ H = HealthyUntil(time + Soon)
      BY DEF ExpiredBefore, HealthyUntil
  <1>3. PICK now \in Nat : now = time  BY DEF ToldType
  <1>4. /\ E \cap S = {} /\ (E \cup S) \cap H = {} /\ (E \cup S) \cup H = D
    <2>1. ASSUME NEW f \in D
          PROVE  /\ f \in E => f \notin S /\ f \notin H
                 /\ f \in S => f \notin H
                 /\ f \in E \/ f \in S \/ f \in H
      <3>1. PICK end \in Nat : end = submitted[f] + Lifetime
          BY ToldConstants DEF ToldType
      <3>2. /\ f \in E <=> end < now
            /\ f \in S <=> ~(end < now) /\ end < now + Soon
            /\ f \in H <=> end >= now + Soon
          BY <1>3, <3>1
      <3> QED  BY <3>2, ToldConstants
    <2>2. E \subseteq D /\ S \subseteq D /\ H \subseteq D  OBVIOUS
    <2> HIDE DEF E, S, H, D
    <2> QED  BY <2>1, <2>2
  <1>5. IsFiniteSet(E) /\ IsFiniteSet(S) /\ IsFiniteSet(H) /\ IsFiniteSet(E \cup S)
      BY FilesFinite DEF ToldType
  <1>6. Cardinality(D) = Len(submitted)
    <2>1. D = 1..Len(submitted) /\ Len(submitted) \in Nat  BY DEF ToldType
    <2> QED  BY <2>1, FirstNumbers
  <1> HIDE DEF D, E, S, H
  <1>7. /\ Cardinality(E \cup S) = Cardinality(E) + Cardinality(S) - Cardinality(E \cap S)
        /\ Cardinality((E \cup S) \cup H) =
              Cardinality(E \cup S) + Cardinality(H) - Cardinality((E \cup S) \cap H)
      BY <1>5, FS_Union
  <1>8. /\ Cardinality(E \cap S) = 0 /\ Cardinality((E \cup S) \cap H) = 0
        /\ Cardinality((E \cup S) \cup H) = Len(submitted)
    <2>1. Cardinality({}) = 0  BY FS_EmptySet
    <2> QED  BY <1>4, <1>6, <2>1, Zenon
  <1>9. /\ Cardinality(E) \in Nat /\ Cardinality(S) \in Nat /\ Cardinality(H) \in Nat
        /\ Cardinality(E \cup S) \in Nat
      BY <1>5, FS_CardinalityType
  <1>10. Cardinality(E) + Cardinality(S) + Cardinality(H) = Len(submitted)
      BY <1>7, <1>8, <1>9
  <1> QED  BY <1>1, <1>2, <1>10

\* The two answers about an account agree, and a promise is kept.
LEMMA AnswersAgree == ToldInv => Told!CounterAgrees /\ Told!HealthyKept
  <1> SUFFICES ASSUME ToldInv PROVE Told!CounterAgrees /\ Told!HealthyKept  OBVIOUS
  <1>1. toldExpired <= Told!Stats.expired
      BY ClassesSum, PastAreExpired DEF ToldInv
  <1>2. ASSUME answer.of \in {"info", "stats"}, time < promised.until
        PROVE  answer.expired + promised.healthy <= Len(submitted)
    <2> DEFINE e == Cardinality(ExpiredBefore(time))
               h == Cardinality(HealthyUntil(promised.until))
    <2>1. e + h <= Len(submitted)
        BY <1>2, ExpiredOrHealthy DEF ToldInv, PromiseOK
    <2>2. answer.expired <= e /\ answer.expired \in Nat
      <3>1. CASE answer.of = "info"
          BY <3>1, PastAreExpired DEF ToldInv, AnswerOK, Past
      <3>2. CASE answer.of = "stats"
        <4>1. e \in Nat  BY FilesFinite DEF ToldInv, ToldType, ExpiredBefore
        <4> QED  BY <3>2, <4>1 DEF ToldInv, AnswerOK
      <3> QED  BY <1>2, <3>1, <3>2
    <2>3. promised.healthy <= h /\ promised.healthy \in Nat  BY DEF ToldInv, PromiseOK
    <2>4. e \in Nat /\ h \in Nat /\ Len(submitted) \in Nat
      <3>1. ExpiredBefore(time) \subseteq DOMAIN submitted
          BY DEF ExpiredBefore
      <3>2. HealthyUntil(promised.until) \subseteq DOMAIN submitted
          BY DEF HealthyUntil
      <3> QED  BY <3>1, <3>2, FilesFinite DEF ToldInv, ToldType
    <2> HIDE DEF e, h
    <2> QED  BY <2>1, <2>2, <2>3, <2>4
  <1>3. Told!CounterAgrees
      BY <1>1, ClassesSum DEF ToldInv, Told!CounterAgrees
  <1>4. Told!HealthyKept  BY <1>2 DEF Told!HealthyKept
  <1> QED  BY <1>3, <1>4

LEMMA ToldInitInv == Init => ToldInv
  <1> SUFFICES ASSUME Told!Init PROVE ToldInv  BY DEF Init
  <1>1. /\ time = 1 /\ finalTime = 0 /\ submitted = <<>> /\ account = NoRow /\ miner = NoRow
        /\ ranked = NoRow /\ asked = [step |-> "none"] /\ answer = [of |-> "none"]
        /\ toldExpired = 0 /\ promised = [until |-> -1, healthy |-> 0]
      BY DEF Told!Init, Told!Nobody, Told!Silence, Told!NoPromise
  <1>2. ToldType  BY <1>1 DEF ToldType
  <1>3. Past(0)  BY <1>1 DEF Past
  <1>4. AskedOK /\ AnswerOK  BY <1>1 DEF AskedOK, AnswerOK
  <1>5. PromiseOK
    <2>1. HealthyUntil(promised.until) \subseteq DOMAIN submitted  BY DEF HealthyUntil
    <2>2. Cardinality(HealthyUntil(promised.until)) \in Nat
        BY <1>2, <2>1, FilesFinite DEF ToldType
    <2> QED  BY <1>1, <2>2 DEF PromiseOK
  <1> QED  BY <1>1, <1>2, <1>3, <1>4, <1>5 DEF ToldInv

\* A file that had expired when the finalized block was made stays so.
LEMMA PastKept ==
    ASSUME ToldType, ToldType', finalTime <= finalTime', NEW k, Past(k),
           k <= Len(submitted'), \A f \in 1..k : submitted'[f] = submitted[f]
    PROVE  Past(k)'
  <1>1. PICK new \in Nat, old \in Nat : new = finalTime' /\ old = finalTime
      BY DEF ToldType
  <1>2. ASSUME NEW f \in 1..k PROVE submitted'[f] + Lifetime <= finalTime'
    <2>1. submitted[f] \in Nat  BY DEF ToldType, Past
    <2>2. submitted[f] + Lifetime <= old /\ old <= new  BY <1>1 DEF Past
    <2>3. submitted[f] + Lifetime <= new  BY <2>1, <2>2, ToldConstants
    <2> QED  BY <1>1, <2>3
  <1> QED  BY <1>2 DEF Past

\* A handler leaves the rows alone.
LEMMA HandlerKeeps ==
    ASSUME ToldInv, UNCHANGED Told!rowVars,
           AskedOK', PromiseOK', AnswerOK',
           toldExpired' = toldExpired \/ Past(toldExpired')
    PROVE  ToldInv'
  <1>1. UNCHANGED <<time, finalTime, submitted, account, miner, ranked>>
      BY DEF Told!rowVars
  <1>2. ToldType'  BY <1>1 DEF ToldInv, ToldType
  <1>3. account' = NoRow \/ Past(account)'  BY <1>1 DEF ToldInv, Past
  <1>4. Past(toldExpired)'  BY <1>1 DEF ToldInv, Past
  <1> QED  BY <1>2, <1>3, <1>4 DEF ToldInv

LEMMA SilenceFits ==
    ASSUME answer' = Told!Silence \/ answer' = Told!Refused PROVE AnswerOK'
  BY DEF AnswerOK, Told!Silence, Told!Refused

LEMMA NobodyFits == ASSUME asked' = Told!Nobody PROVE AskedOK'
  BY DEF AskedOK, Told!Nobody

LEMMA PromiseStays ==
    ASSUME ToldInv, UNCHANGED <<submitted, promised>> PROVE PromiseOK'
  <1>1. HealthyUntil(promised.until)' = HealthyUntil(promised.until)  BY DEF HealthyUntil
  <1> QED  BY <1>1 DEF ToldInv, PromiseOK

\* A request that is refused or told nothing is over.
LEMMA EmptyTold ==
    ASSUME ToldInv, UNCHANGED Told!rowVars, UNCHANGED <<toldExpired, promised>>,
           Told!Tell(Told!Refused) \/ Told!Tell(Told!Silence)
    PROVE  ToldInv'
  <1>1. PromiseOK'  BY PromiseStays DEF Told!rowVars
  <1> QED  BY <1>1, SilenceFits, NobodyFits, HandlerKeeps DEF Told!Tell

\* A request goes on with what it has read.
LEMMA AskedOn ==
    ASSUME ToldInv, UNCHANGED Told!rowVars, NEW next, Told!Ask(next), AskedOK'
    PROVE  ToldInv'
  <1>1. PromiseOK'  BY PromiseStays DEF Told!rowVars, Told!Ask
  <1> QED  BY <1>1, SilenceFits, HandlerKeeps DEF Told!Ask

LEMMA LargerOf ==
    ASSUME NEW m \in Nat, NEW n \in Nat
    PROVE  Told!Max({m, n}) \in {m, n} /\ n <= Told!Max({m, n})
  <1>1. \E x \in {m, n} : \A y \in {m, n} : x >= y  OBVIOUS
  <1> QED  BY <1>1 DEF Told!Max

LEMMA HandlersKeep == ASSUME ToldInv, Told!Handlers PROVE ToldInv'
  <1>0. UNCHANGED Told!rowVars
      BY DEF Told!Handlers, Told!getAddressInfo, Told!Balance, Told!getAccountInfo,
             Told!getMinerInfo, Told!getAccountStats, Told!RankedMiners, Told!topnReward,
             Told!getStorageTx
  <1>a. UNCHANGED <<time, finalTime, submitted, account, miner, ranked>>
      BY <1>0 DEF Told!rowVars
  <1>b. UNCHANGED promised => PromiseOK'  BY <1>a, PromiseStays
  <1>1. CASE Told!getAddressInfo
    <2>1. CASE account = NoRow
        BY <1>0, <1>1, <2>1, EmptyTold DEF Told!getAddressInfo
    <2>2. CASE account # NoRow
      <3>1. PICK step \in {"balance", "stats"} :
                Told!Ask([step |-> step, expired |-> account])
          BY <1>1, <2>2 DEF Told!getAddressInfo
      <3>2. asked' = [step |-> step, expired |-> account]  BY <3>1 DEF Told!Ask
      <3>3. AskedOK'  BY <1>a, <2>2, <3>2 DEF AskedOK, Past, ToldInv
      <3> QED  BY <1>0, <3>1, <3>3, AskedOn
    <2> QED  BY <2>1, <2>2
  <1>2. CASE Told!Balance
    <2>1. CASE Told!Tell(Told!Refused)
        BY <1>0, <1>2, <2>1, EmptyTold DEF Told!Balance, Told!Ask, Told!Tell, Told!Refused,
           Told!Silence
    <2>2. CASE \E step \in {"info", "miner"} :
                  Told!Ask([step |-> step, expired |-> asked.expired])
      <3>1. PICK step \in {"info", "miner"} :
                Told!Ask([step |-> step, expired |-> asked.expired])
          BY <2>2
      <3>2. asked' = [step |-> step, expired |-> asked.expired] /\ asked.step = "balance"
          BY <1>2, <3>1 DEF Told!Ask, Told!Balance
      <3>3. AskedOK'  BY <1>a, <3>2 DEF AskedOK, Past, ToldInv
      <3> QED  BY <1>0, <3>1, <3>3, AskedOn
    <2> QED  BY <1>2, <2>1, <2>2 DEF Told!Balance
  <1>3. CASE Told!getAccountInfo
    <2>1. /\ asked.step = "info" /\ asked' = Told!Nobody /\ promised' = promised
          /\ answer' = [of |-> "info", expired |-> asked.expired, reward |-> Told!Amount]
          /\ toldExpired' = Told!Max({toldExpired, asked.expired})
        BY <1>3 DEF Told!getAccountInfo, Told!Tell
    <2>2. Past(asked.expired) /\ Past(toldExpired)  BY <2>1 DEF ToldInv, AskedOK
    <2>3. AnswerOK'  BY <1>a, <2>1, <2>2 DEF AnswerOK, Past
    <2>4. toldExpired' \in {toldExpired, asked.expired}
        BY <2>1, <2>2, LargerOf DEF Past
    <2> QED  BY <1>0, <1>b, <2>1, <2>2, <2>3, <2>4, NobodyFits, HandlerKeeps
  <1>4. CASE Told!getMinerInfo
    <2>1. /\ asked' = Told!Nobody /\ promised' = promised /\ toldExpired' = toldExpired
          /\ answer' = [of |-> "miner", reward |-> Told!Amount]
        BY <1>4 DEF Told!getMinerInfo, Told!Tell
    <2>2. AnswerOK'  BY <2>1 DEF AnswerOK
    <2> QED  BY <1>0, <1>b, <2>1, <2>2, NobodyFits, HandlerKeeps
  <1>5. CASE Told!getAccountStats
    <2>1. /\ asked' = Told!Nobody /\ toldExpired' = toldExpired
          /\ answer' = Told!Stats
          /\ promised' = [until |-> time + Soon, healthy |-> Told!Stats.healthy]
        BY <1>5 DEF Told!getAccountStats, Told!Tell
    <2>2. ToldType  BY DEF ToldInv
    <2>3. AnswerOK'
      <3>1. ExpiredBefore(time)' = ExpiredBefore(time)  BY <1>a DEF ExpiredBefore
      <3> QED  BY <1>a, <2>1, <2>2, <3>1, ClassesSum DEF AnswerOK
    <2>4. PromiseOK'
      <3>1. HealthyUntil(promised.until)' = HealthyUntil(time + Soon)
          BY <1>a, <2>1 DEF HealthyUntil
      <3>2. PICK n \in Nat : n = Cardinality(HealthyUntil(time + Soon))
          BY <2>2, FilesFinite DEF ToldType, HealthyUntil
      <3>3. PICK now \in Nat : now = time  BY <2>2 DEF ToldType
      <3>4. now + Soon \in Int  BY ToldConstants
      <3>5. promised'.healthy = n /\ promised'.until = now + Soon
          BY <2>1, <2>2, <3>2, <3>3, ClassesSum
      <3> QED  BY <3>1, <3>2, <3>4, <3>5 DEF PromiseOK
    <2> QED  BY <1>0, <2>1, <2>3, <2>4, NobodyFits, HandlerKeeps
  <1>6. CASE Told!RankedMiners
    <2>1. CASE ranked = NoRow
        BY <1>0, <1>6, <2>1, EmptyTold DEF Told!RankedMiners
    <2>2. CASE ranked # NoRow
      <3>1. Told!Ask([step |-> "ranked", wins |-> ranked])
          BY <1>6, <2>2 DEF Told!RankedMiners
      <3>2. asked' = [step |-> "ranked", wins |-> ranked]  BY <3>1 DEF Told!Ask
      <3>3. AskedOK'  BY <2>2, <3>2 DEF AskedOK, ToldInv, ToldType
      <3> QED  BY <1>0, <3>1, <3>3, AskedOn
    <2> QED  BY <2>1, <2>2
  <1>7. CASE Told!topnReward
    <2>1. /\ asked.step = "ranked" /\ asked' = Told!Nobody /\ promised' = promised
          /\ toldExpired' = toldExpired
          /\ answer' = [of |-> "reward", wins |-> asked.wins,
                        attempts |-> Told!Max({Told!BatchGetMiners, asked.wins})]
        BY <1>7 DEF Told!topnReward, Told!Tell
    <2>2. Told!BatchGetMiners \in Nat /\ asked.wins \in Nat
        BY <2>1 DEF Told!BatchGetMiners, ToldInv, ToldType, AskedOK
    <2>3. AnswerOK'
      <3>1. PICK m : m = Told!Max({Told!BatchGetMiners, asked.wins})  OBVIOUS
      <3>2. asked.wins <= m  BY <2>2, <3>1, LargerOf
      <3> QED  BY <2>1, <3>1, <3>2 DEF AnswerOK
    <2> QED  BY <1>0, <1>b, <2>1, <2>3, NobodyFits, HandlerKeeps
  <1>8. CASE Told!getStorageTx
    <2>1. ASSUME NEW next, next.step \in {"row", "transaction"}, Told!Ask(next) PROVE ToldInv'
      <3>1. AskedOK'  BY <2>1 DEF AskedOK, Told!Ask
      <3> QED  BY <1>0, <2>1, <3>1, AskedOn
    <2>2. ASSUME NEW from, Told!Tell([of |-> "file", from |-> from]),
                 UNCHANGED <<toldExpired, promised>>
          PROVE  ToldInv'
      <3>1. AnswerOK'  BY <2>2 DEF AnswerOK, Told!Tell
      <3> QED  BY <1>0, <1>b, <2>2, <3>1, NobodyFits, HandlerKeeps DEF Told!Tell
    <2>3. [step |-> "row", patched |-> file.patched].step = "row"
          /\ [step |-> "transaction"].step = "transaction"
        OBVIOUS
    <2> QED  BY <1>0, <1>8, <2>1, <2>2, <2>3, EmptyTold DEF Told!getStorageTx
  <1> QED
      BY <1>1, <1>2, <1>3, <1>4, <1>5, <1>6, <1>7, <1>8 DEF Told!Handlers

\* What the other processes do leaves the requests alone, keeps what had expired, and
\* tells nothing.
LEMMA OtherKeeps ==
    ASSUME ToldInv, ToldType', UNCHANGED <<asked, toldExpired>>, answer' = Told!Silence,
           finalTime <= finalTime', PromiseOK',
           \A k : Past(k) => k <= Len(submitted') /\ \A f \in 1..k : submitted'[f] = submitted[f],
           account' = account \/ account' = NoRow \/ Past(account)'
    PROVE  ToldInv'
  <1>1. \A k : Past(k) => Past(k)'  BY PastKept DEF ToldInv
  <1>2. AskedOK'
    <2>1. asked.step \in {"balance", "stats", "info", "miner"} => Past(asked.expired)'
        BY <1>1 DEF ToldInv, AskedOK
    <2> QED  BY <2>1 DEF ToldInv, AskedOK, Past
  <1>3. AnswerOK'  BY SilenceFits
  <1>4. Past(toldExpired)'
    <2>1. PICK k : k = toldExpired  OBVIOUS
    <2>2. Past(k)'  BY <1>1, <2>1 DEF ToldInv
    <2> QED  BY <2>1, <2>2 DEF Past
  <1>5. account' = NoRow \/ Past(account)'
    <2>1. CASE account' = account
      <3>1. PICK k : k = account  OBVIOUS
      <3>2. account = NoRow \/ Past(k)'  BY <1>1, <3>1 DEF ToldInv
      <3> QED  BY <2>1, <3>1, <3>2 DEF Past
    <2> QED  BY <2>1
  <1> QED  BY <1>2, <1>3, <1>4, <1>5 DEF ToldInv

LEMMA OthersKeep == ASSUME ToldInv, Told!Others PROVE ToldInv'
  <1>0. answer' = Told!Silence /\ UNCHANGED <<asked, toldExpired>>
      BY DEF Told!Others, Told!Tick, Told!Store, Told!Unstore, Told!CountExpired, Told!Mine,
             Told!Patch, Told!Keeps, Told!clientVars
  <1>1. CASE Told!Tick
    <2>1. /\ time' = time + 1 /\ finalTime' \in finalTime..time
          /\ UNCHANGED <<submitted, account, miner, ranked, promised>>
        BY <1>1 DEF Told!Tick, Told!Keeps, Told!clientVars
    <2>2. finalTime' \in Nat /\ finalTime <= finalTime' /\ finalTime' < time' /\ time' \in Nat
      <3>1. PICK now \in Nat, old \in Nat : now = time /\ old = finalTime
          BY DEF ToldInv, ToldType
      <3> QED  BY <2>1, <3>1
    <2>3. ToldType'  BY <2>1, <2>2 DEF ToldInv, ToldType
    <2>4. PromiseOK'  BY <2>1, PromiseStays
    <2> QED  BY <1>0, <2>1, <2>2, <2>3, <2>4, OtherKeeps DEF Past
  <1>2. CASE Told!Store
    <2>1. PICK t \in 0..time :
              /\ submitted' = Append(submitted, t)
              /\ account' = IF account = NoRow THEN 0 ELSE account
              /\ UNCHANGED <<time, finalTime, miner, ranked, promised>>
        BY <1>2 DEF Told!Store, Told!Keeps, Told!clientVars
    <2>2. t \in Nat /\ submitted \in Seq(Nat)  BY DEF ToldInv, ToldType
    <2>3. /\ submitted' \in Seq(Nat) /\ Len(submitted') = Len(submitted) + 1
          /\ \A f \in 1..Len(submitted) : submitted'[f] = submitted[f]
          /\ DOMAIN submitted \subseteq DOMAIN submitted' /\ Len(submitted) \in Nat
        BY <2>1, <2>2
    <2>4. ToldType'  BY <2>1, <2>3 DEF ToldInv, ToldType
    <2>5. PromiseOK'
      <3> DEFINE old == HealthyUntil(promised.until)
                 new == HealthyUntil(promised.until)'
      <3>1. old \subseteq new  BY <2>1, <2>2, <2>3 DEF HealthyUntil
      <3>2. IsFiniteSet(new)
        <4>1. new \subseteq DOMAIN submitted'  BY DEF HealthyUntil
        <4>2. DOMAIN submitted' = 1..Len(submitted') /\ Len(submitted') \in Nat
            BY <2>3
        <4>3. IsFiniteSet(DOMAIN submitted')  BY <4>2, FirstNumbers
        <4> QED  BY <4>1, <4>3, FS_Subset
      <3>3. Cardinality(old) <= Cardinality(new) /\ Cardinality(new) \in Nat
            /\ Cardinality(old) \in Nat
          BY <3>1, <3>2, FS_Subset, FS_CardinalityType
      <3>4. promised.healthy <= Cardinality(old) /\ promised.healthy \in Nat
            /\ promised.until \in Int
          BY DEF ToldInv, PromiseOK
      <3> HIDE DEF old, new
      <3>5. promised.healthy <= Cardinality(new)  BY <3>3, <3>4
      <3> QED  BY <2>1, <3>4, <3>5 DEF PromiseOK, new
    <2>6. account' = account \/ Past(account)'
      <3>1. CASE account = NoRow
        <4>1. account' = 0 /\ 0 <= Len(submitted')  BY <2>1, <2>3, <3>1
        <4> QED  BY <4>1 DEF Past
      <3> QED  BY <2>1, <3>1
    <2>7. finalTime <= finalTime'  BY <2>1 DEF ToldInv, ToldType
    <2>8. \A k : Past(k) => k <= Len(submitted') /\ \A f \in 1..k : submitted'[f] = submitted[f]
        BY <2>3 DEF Past
    <2> QED  BY <1>0, <2>4, <2>5, <2>6, <2>7, <2>8, OtherKeeps
  <1>3. CASE Told!Unstore
    <2>1. /\ submitted # <<>> /\ finalTime < submitted[Len(submitted)]
          /\ submitted' = SubSeq(submitted, 1, Len(submitted) - 1)
          /\ promised' = [until |-> -1, healthy |-> 0]
          /\ UNCHANGED <<time, finalTime, account, miner, ranked>>
        BY <1>3 DEF Told!Unstore, Told!Keeps, Told!NoPromise
    <2>2. submitted \in Seq(Nat) /\ Len(submitted) \in Nat \ {0}
        BY <2>1 DEF ToldInv, ToldType
    <2>3. /\ submitted' \in Seq(Nat) /\ Len(submitted') = Len(submitted) - 1
          /\ \A f \in 1..(Len(submitted) - 1) : submitted'[f] = submitted[f]
      <3>1. PICK n \in Nat \ {0} : n = Len(submitted)  BY <2>2
      <3>2. submitted' = SubSeq(submitted, 1, n - 1)  BY <2>1, <3>1
      <3>3. Len(submitted') = n - 1 /\ \A f \in 1..(n - 1) : submitted'[f] = submitted[f]
          BY <2>2, <3>1, <3>2
      <3>4. submitted' \in Seq(Nat)  BY <2>2, <3>1, <3>2
      <3> QED  BY <3>1, <3>3, <3>4
    <2>4. ToldType'  BY <2>1, <2>3 DEF ToldInv, ToldType
    <2>5. PromiseOK'
      <3>1. Cardinality(HealthyUntil(promised.until)') \in Nat
        <4>1. HealthyUntil(promised.until)' \subseteq DOMAIN submitted'  BY DEF HealthyUntil
        <4>2. DOMAIN submitted' = 1..Len(submitted') /\ Len(submitted') \in Nat
            BY <2>3
        <4>3. IsFiniteSet(DOMAIN submitted')  BY <4>2, FirstNumbers
        <4> QED  BY <4>1, <4>3, FS_Subset, FS_CardinalityType
      <3> QED  BY <2>1, <3>1 DEF PromiseOK
    <2>6. ASSUME NEW k, Past(k) PROVE k <= Len(submitted) - 1
      <3>1. ASSUME k = Len(submitted) PROVE FALSE
        <4>1. PICK at \in Nat, final \in Nat :
                  at = submitted[Len(submitted)] /\ final = finalTime
            BY <2>2 DEF ToldInv, ToldType
        <4>2. at + Lifetime <= final  BY <2>2, <2>6, <3>1, <4>1 DEF Past
        <4> QED  BY <2>1, <4>1, <4>2, ToldConstants
      <3> QED  BY <2>2, <2>6, <3>1 DEF Past
    <2>7. \A k : Past(k) => k <= Len(submitted') /\ \A f \in 1..k : submitted'[f] = submitted[f]
      <3> SUFFICES ASSUME NEW k, Past(k)
                   PROVE  k <= Len(submitted') /\ \A f \in 1..k : submitted'[f] = submitted[f]
          OBVIOUS
      <3>1. PICK n \in Nat \ {0} : n = Len(submitted)  BY <2>2
      <3>2. k \in Nat /\ k <= n - 1  BY <2>6, <3>1 DEF Past
      <3>3. 1..k \subseteq 1..(n - 1)  BY <3>2
      <3> QED  BY <2>3, <3>1, <3>2, <3>3
    <2>8. finalTime <= finalTime'  BY <2>1 DEF ToldInv, ToldType
    <2> QED  BY <1>0, <2>1, <2>4, <2>5, <2>7, <2>8, OtherKeeps
  <1>4. CASE Told!CountExpired
    <2>1. /\ account # NoRow /\ account < Len(submitted)
          /\ submitted[account + 1] + Lifetime <= finalTime
          /\ account' = account + 1
          /\ UNCHANGED <<time, finalTime, submitted, miner, ranked, promised>>
        BY <1>4 DEF Told!CountExpired, Told!Keeps, Told!clientVars
    <2>2. Past(account)  BY <2>1 DEF ToldInv
    <2>3. Past(account + 1)
      <3>1. PICK k \in Nat, n \in Nat : k = account /\ n = Len(submitted)
          BY <2>2 DEF Past, ToldInv, ToldType
      <3>2. k + 1 \in Nat /\ k + 1 <= n  BY <2>1, <3>1
      <3>3. \A f \in 1..(k + 1) : f \in 1..k \/ f = k + 1  OBVIOUS
      <3> QED  BY <2>1, <2>2, <3>1, <3>2, <3>3 DEF Past
    <2>4. Past(account)'  BY <2>1, <2>3 DEF Past
    <2>5. ToldType' /\ finalTime <= finalTime'  BY <2>1 DEF ToldInv, ToldType
    <2>6. PromiseOK'  BY <2>1, PromiseStays
    <2>7. \A k : Past(k) => k <= Len(submitted') /\ \A f \in 1..k : submitted'[f] = submitted[f]
        BY <2>1 DEF Past
    <2> QED  BY <1>0, <2>4, <2>5, <2>6, <2>7, OtherKeeps
  <1>5. CASE Told!Mine
    <2>1. UNCHANGED <<time, finalTime, submitted, account, promised>>
        BY <1>5 DEF Told!Mine, Told!Keeps, Told!clientVars
    <2>2. /\ miner' = NoRow \/ miner' \in [wins : Nat, attempts : Nat]
          /\ ranked' = NoRow \/ ranked' \in Nat
      <3>1. CASE miner = NoRow /\ miner' = [wins |-> 0, attempts |-> 0] /\ UNCHANGED ranked
          BY <3>1 DEF ToldInv, ToldType
      <3>2. ASSUME miner # NoRow, NEW column \in {"wins", "attempts"},
                   miner' = [miner EXCEPT ![column] = @ + 1], UNCHANGED ranked
            PROVE  miner' \in [wins : Nat, attempts : Nat] /\ (ranked' = NoRow \/ ranked' \in Nat)
          BY <3>2 DEF ToldInv, ToldType
      <3>3. CASE miner # NoRow /\ ranked' \in 1..miner.wins /\ UNCHANGED miner
          BY <3>3 DEF ToldInv, ToldType
      <3> QED  BY <1>5, <3>1, <3>2, <3>3 DEF Told!Mine
    <2>3. ToldType' /\ finalTime <= finalTime'  BY <2>1, <2>2 DEF ToldInv, ToldType
    <2>4. PromiseOK'  BY <2>1, PromiseStays
    <2>5. \A k : Past(k) => k <= Len(submitted') /\ \A f \in 1..k : submitted'[f] = submitted[f]
        BY <2>1 DEF Past
    <2> QED  BY <1>0, <2>1, <2>3, <2>4, <2>5, OtherKeeps
  <1>6. CASE Told!Patch
    <2>1. UNCHANGED <<time, finalTime, submitted, account, miner, ranked, promised>>
        BY <1>6 DEF Told!Patch, Told!Keeps, Told!clientVars
    <2>2. ToldType' /\ finalTime <= finalTime'  BY <2>1 DEF ToldInv, ToldType
    <2>3. PromiseOK'  BY <2>1, PromiseStays
    <2>4. \A k : Past(k) => k <= Len(submitted') /\ \A f \in 1..k : submitted'[f] = submitted[f]
        BY <2>1 DEF Past
    <2> QED  BY <1>0, <2>1, <2>2, <2>3, <2>4, OtherKeeps
  <1> QED  BY <1>1, <1>2, <1>3, <1>4, <1>5, <1>6 DEF Told!Others

LEMMA ToldNextInv == ToldInv /\ [Next]_vars => ToldInv'
  <1> SUFFICES ASSUME ToldInv, [Next]_vars PROVE ToldInv'  OBVIOUS
  <1>1. CASE Told!Next  BY <1>1, HandlersKeep, OthersKeep DEF Told!Next
  <1>2. CASE UNCHANGED toldVars
      BY <1>2 DEF toldVars, ToldInv, ToldType, AskedOK, AnswerOK, PromiseOK, Past,
                  HealthyUntil, ExpiredBefore
  <1> QED  BY <1>1, <1>2, StepOfTold

-----------------------------------------------------------------------------
(* What is told is never taken back.                                        *)

\* Whatever parts of a refresh fail, a ranking in memory is no newer than the database.
THEOREM MemoryInvariance == Spec => []MemoryInv
  BY MemoryInitInv, MemoryNextInv, PTL DEF Spec

\* What had expired when it was counted, read or told has expired, and what was told to
\* be healthy is.
THEOREM ToldInvariance == Spec => []ToldInv
  BY ToldInitInv, ToldNextInv, PTL DEF Spec

\* No ranking is replaced by an older one, the two answers about an account agree, and no
\* file expires before the time it was told to be healthy until.
THEOREM NothingTakenBack == Spec => NeverOlder
  <1>1. Spec => [][Memory!NotOlder]_vars
    <2>1. MemoryInv /\ [Next]_vars => [Memory!NotOlder]_vars  BY MemoryNextInv
    <2> QED  BY <2>1, MemoryInvariance, PTL DEF Spec
  <1>2. Spec => [](Told!CounterAgrees /\ Told!HealthyKept)
      BY AnswersAgree, ToldInvariance, PTL
  <1> QED  BY <1>1, <1>2 DEF NeverOlder

-----------------------------------------------------------------------------
(* The rate limiters.                                                       *)

\* Functions on some elements of a set.
Partial(D, V) == UNION {[d -> V] : d \in SUBSET D}

\* What the factory holds: strategies by name and by id, and limiters.
Strategies == [ID : Limits!IDs, Name : Names, LimitOptions : Values]
Factories ==
    [byName : Partial(Names, Strategies), byID : Partial(Limits!IDs, Strategies),
     limits : Partial(Names \X Resources, Limits!Rules)]

\* A strategy is the same by its name and by its id.
Agree(lf) ==
    /\ \A n \in DOMAIN lf.byName :
          /\ lf.byName[n].Name = n /\ lf.byName[n].ID \in DOMAIN lf.byID
          /\ lf.byID[lf.byName[n].ID] = lf.byName[n]
    /\ \A i \in DOMAIN lf.byID :
          /\ lf.byID[i].ID = i /\ lf.byID[i].Name \in DOMAIN lf.byName
          /\ lf.byName[lf.byID[i].Name] = lf.byID[i]

\* A limiter limits, and by the rule of its strategy.
Current(lf) ==
    \A l \in DOMAIN lf.limits :
        /\ l[1] \in DOMAIN lf.byName /\ lf.limits[l] # NoRule
        /\ lf.limits[l] = lf.byName[l[1]].LimitOptions[l[2]]

FactoryOK(lf) == lf \in Factories /\ Agree(lf) /\ Current(lf)

LEMMA LimitsConstants ==
    /\ DefaultStrategy \in Names /\ Values \subseteq [Resources -> Limits!Rules]
    /\ MaxIDs \in Nat \ {0}
  BY ServicesAssumption DEF ServicesAssumption, Limits!ConstantsOK

LEMMA PartialIs ==
    ASSUME NEW D, NEW V, NEW f
    PROVE  f \in Partial(D, V) <=> DOMAIN f \subseteq D /\ f \in [DOMAIN f -> V]
  BY DEF Partial

LEMMA WithoutIs ==
    ASSUME NEW D, NEW V, NEW f \in Partial(D, V), NEW X
    PROVE  /\ Limits!Without(f, X) \in Partial(D, V)
           /\ DOMAIN Limits!Without(f, X) = DOMAIN f \ X
           /\ \A x \in DOMAIN f \ X : Limits!Without(f, X)[x] = f[x]
  <1>1. Limits!Without(f, X) = [x \in DOMAIN f \ X |-> f[x]]
      BY DEF Limits!Without, Limits!Restrict
  <1>2. DOMAIN f \subseteq D /\ f \in [DOMAIN f -> V]  BY PartialIs
  <1>3. Limits!Without(f, X) \in [DOMAIN f \ X -> V]  BY <1>1, <1>2
  <1> QED  BY <1>1, <1>2, <1>3, PartialIs

LEMMA WithIs ==
    ASSUME NEW D, NEW V, NEW f \in Partial(D, V), NEW x \in D, NEW v \in V
    PROVE  /\ Limits!With(f, x, v) \in Partial(D, V)
           /\ DOMAIN Limits!With(f, x, v) = DOMAIN f \cup {x}
           /\ Limits!With(f, x, v)[x] = v
           /\ \A y \in DOMAIN f : y # x => Limits!With(f, x, v)[y] = f[y]
  <1>1. Limits!With(f, x, v) = [y \in DOMAIN f \cup {x} |-> IF y = x THEN v ELSE f[y]]
      BY DEF Limits!With
  <1>2. DOMAIN f \subseteq D /\ f \in [DOMAIN f -> V]  BY PartialIs
  <1>3. Limits!With(f, x, v) \in [DOMAIN f \cup {x} -> V]  BY <1>1, <1>2
  <1> QED  BY <1>1, <1>2, <1>3, PartialIs

\* The limits of a strategy are rules.
LEMMA RulesOf ==
    ASSUME NEW s \in Strategies, NEW r \in Resources
    PROVE  s.LimitOptions[r] \in Limits!Rules
  BY LimitsConstants DEF Strategies

LEMMA RemoveTyped ==
    ASSUME NEW lf \in Factories, NEW s
    PROVE  Limits!removeStrategy(lf, s) \in Factories
  BY WithoutIs DEF Factories, Limits!removeStrategy

\* A strategy that is removed takes its limiters with it.
LEMMA RemoveKeeps ==
    ASSUME NEW lf, FactoryOK(lf), NEW id \in DOMAIN lf.byID
    PROVE  LET new == Limits!removeStrategy(lf, lf.byID[id])
           IN  /\ FactoryOK(new) /\ DOMAIN new.byID = DOMAIN lf.byID \ {id}
               /\ \A i \in DOMAIN new.byID : new.byID[i] = lf.byID[i]
  <1> DEFINE s == lf.byID[id]
             new == Limits!removeStrategy(lf, s)
             N == Limits!Without(lf.byName, {s.Name})
             B == Limits!Without(lf.byID, {s.ID})
             G == Limits!LimitersOf(lf, s, Resources)
             L == Limits!Without(lf.limits, G)
  <1>1. /\ lf.byName \in Partial(Names, Strategies)
        /\ lf.byID \in Partial(Limits!IDs, Strategies)
        /\ lf.limits \in Partial(Names \X Resources, Limits!Rules)
      BY DEF FactoryOK, Factories
  <1>2. s.ID = id /\ s.Name \in DOMAIN lf.byName /\ lf.byName[s.Name] = s
      BY DEF FactoryOK, Agree
  <1>3. new = [byName |-> N, byID |-> B, limits |-> L]  BY DEF Limits!removeStrategy
  <1>4. DOMAIN N = DOMAIN lf.byName \ {s.Name} /\ \A n \in DOMAIN N : N[n] = lf.byName[n]
      BY DEF Limits!Without, Limits!Restrict
  <1>5. DOMAIN B = DOMAIN lf.byID \ {id} /\ \A i \in DOMAIN B : B[i] = lf.byID[i]
      BY <1>2 DEF Limits!Without, Limits!Restrict
  <1>6. DOMAIN L = DOMAIN lf.limits \ G /\ \A l \in DOMAIN L : L[l] = lf.limits[l]
      BY DEF Limits!Without, Limits!Restrict
  <1>7. new \in Factories  BY RemoveTyped DEF FactoryOK
  <1>8. Agree(new)
    <2>1. ASSUME NEW n \in DOMAIN N
          PROVE  N[n].Name = n /\ N[n].ID \in DOMAIN B /\ B[N[n].ID] = N[n]
      <3>1. /\ N[n] = lf.byName[n] /\ lf.byName[n].Name = n /\ lf.byName[n].ID \in DOMAIN lf.byID
            /\ lf.byID[lf.byName[n].ID] = lf.byName[n] /\ n # s.Name
          BY <1>4 DEF FactoryOK, Agree
      <3>2. N[n].ID # id  BY <3>1
      <3> QED  BY <1>5, <3>1, <3>2
    <2>2. ASSUME NEW i \in DOMAIN B
          PROVE  B[i].ID = i /\ B[i].Name \in DOMAIN N /\ N[B[i].Name] = B[i]
      <3>1. /\ B[i] = lf.byID[i] /\ lf.byID[i].ID = i /\ lf.byID[i].Name \in DOMAIN lf.byName
            /\ lf.byName[lf.byID[i].Name] = lf.byID[i] /\ i # id
          BY <1>5 DEF FactoryOK, Agree
      <3>2. B[i].Name # s.Name  BY <1>2, <3>1
      <3> QED  BY <1>4, <3>1, <3>2
    <2> HIDE DEF N, B, L
    <2>3. new.byName = N /\ new.byID = B  BY <1>3
    <2> HIDE DEF new
    <2> QED  BY <2>1, <2>2, <2>3 DEF Agree
  <1>9. Current(new)
    <2>1. ASSUME NEW l \in DOMAIN L
          PROVE  l[1] \in DOMAIN N /\ L[l] # NoRule /\ L[l] = N[l[1]].LimitOptions[l[2]]
      <3>1. /\ l \in DOMAIN lf.limits /\ l \notin G /\ L[l] = lf.limits[l]
            /\ l[1] \in DOMAIN lf.byName /\ lf.limits[l] # NoRule
            /\ lf.limits[l] = lf.byName[l[1]].LimitOptions[l[2]]
          BY <1>6 DEF FactoryOK, Current
      <3>2. l \in Names \X Resources  BY <1>1, <3>1, PartialIs
      <3>3. l[1] # s.Name  BY <1>2, <3>1, <3>2 DEF Limits!LimitersOf
      <3> QED  BY <1>4, <3>1, <3>3
    <2> HIDE DEF N, L
    <2>2. new.byName = N /\ new.limits = L  BY <1>3
    <2> HIDE DEF new
    <2> QED  BY <2>1, <2>2 DEF Current
  <1> QED  BY <1>3, <1>5, <1>7, <1>8, <1>9 DEF FactoryOK

LEMMA AddTyped ==
    ASSUME NEW lf \in Factories, NEW s \in Strategies
    PROVE  /\ Limits!addStrategy(lf, s) \in Factories
           /\ Limits!addStrategy(lf, s).byName = Limits!With(lf.byName, s.Name, s)
           /\ Limits!addStrategy(lf, s).byID = Limits!With(lf.byID, s.ID, s)
           /\ Limits!addStrategy(lf, s).limits = lf.limits
  <1>1. s.Name \in Names /\ s.ID \in Limits!IDs  BY DEF Strategies
  <1> DEFINE N == Limits!With(lf.byName, s.Name, s)
             B == Limits!With(lf.byID, s.ID, s)
  <1>2. Limits!addStrategy(lf, s) = [lf EXCEPT !.byName = N, !.byID = B]
      BY DEF Limits!addStrategy
  <1>3. N \in Partial(Names, Strategies) /\ B \in Partial(Limits!IDs, Strategies)
      BY <1>1, WithIs DEF Factories
  <1> HIDE DEF N, B
  <1>4. [lf EXCEPT !.byName = N, !.byID = B] \in Factories  BY <1>3 DEF Factories
  <1>5. /\ [lf EXCEPT !.byName = N, !.byID = B].byName = N
        /\ [lf EXCEPT !.byName = N, !.byID = B].byID = B
        /\ [lf EXCEPT !.byName = N, !.byID = B].limits = lf.limits
      BY DEF Factories
  <1> QED  BY <1>2, <1>4, <1>5 DEF N, B

\* A strategy of a new id and a new name is added, and has no limiters yet.
LEMMA AddKeeps ==
    ASSUME NEW lf, FactoryOK(lf), NEW s \in Strategies,
           s.ID \notin DOMAIN lf.byID, s.Name \notin DOMAIN lf.byName
    PROVE  LET new == Limits!addStrategy(lf, s)
           IN  /\ FactoryOK(new) /\ DOMAIN new.byID = DOMAIN lf.byID \cup {s.ID}
               /\ new.byID[s.ID] = s
               /\ \A i \in DOMAIN lf.byID : new.byID[i] = lf.byID[i]
  <1> DEFINE new == Limits!addStrategy(lf, s)
             N == new.byName
             B == new.byID
  <1>1. /\ lf.byName \in Partial(Names, Strategies)
        /\ lf.byID \in Partial(Limits!IDs, Strategies)
        /\ s.Name \in Names /\ s.ID \in Limits!IDs
      BY DEF FactoryOK, Factories, Strategies
  <1>2. /\ DOMAIN N = DOMAIN lf.byName \cup {s.Name} /\ N[s.Name] = s
        /\ \A n \in DOMAIN lf.byName : N[n] = lf.byName[n]
    <2>1. N = Limits!With(lf.byName, s.Name, s)  BY AddTyped DEF FactoryOK
    <2> HIDE DEF N
    <2> QED  BY <2>1 DEF Limits!With
  <1>3. /\ DOMAIN B = DOMAIN lf.byID \cup {s.ID} /\ B[s.ID] = s
        /\ \A i \in DOMAIN lf.byID : B[i] = lf.byID[i]
    <2>1. B = Limits!With(lf.byID, s.ID, s)  BY AddTyped DEF FactoryOK
    <2> HIDE DEF B
    <2> QED  BY <2>1 DEF Limits!With
  <1>4. new \in Factories /\ new.limits = lf.limits  BY AddTyped DEF FactoryOK
  <1> HIDE DEF N, B
  <1>5. \A n \in DOMAIN N : N[n].Name = n /\ N[n].ID \in DOMAIN B /\ B[N[n].ID] = N[n]
      BY <1>2, <1>3 DEF FactoryOK, Agree
  <1>6. \A i \in DOMAIN B : B[i].ID = i /\ B[i].Name \in DOMAIN N /\ N[B[i].Name] = B[i]
      BY <1>2, <1>3 DEF FactoryOK, Agree
  <1>7. \A l \in DOMAIN lf.limits :
            /\ l[1] \in DOMAIN N /\ lf.limits[l] # NoRule
            /\ lf.limits[l] = N[l[1]].LimitOptions[l[2]]
      BY <1>2 DEF FactoryOK, Current
  <1>8. Agree(new)  BY <1>5, <1>6 DEF Agree, N, B
  <1>9. Current(new)  BY <1>4, <1>7 DEF Current, N
  <1> QED  BY <1>3, <1>4, <1>8, <1>9 DEF FactoryOK, B

LEMMA UpdateTyped ==
    ASSUME NEW lf \in Factories, NEW old, NEW s \in Strategies
    PROVE  Limits!updateStrategy(lf, old, s) \in Factories
  <1> DEFINE added == Limits!addStrategy(lf, s)
             changed == {r \in Resources : old.LimitOptions[r] # s.LimitOptions[r]}
  <1>1. added \in Factories  BY AddTyped
  <1> HIDE DEF added
  <1>2. \A X : /\ [added EXCEPT !.byName = Limits!Without(@, {old.Name}),
                                !.limits = Limits!Without(@, X)] \in Factories
               /\ [added EXCEPT !.limits = Limits!Without(@, X)] \in Factories
      BY <1>1, WithoutIs DEF Factories
  <1> QED  BY <1>2 DEF Limits!updateStrategy, added

\* A strategy that changes keeps the limiters whose rule it keeps.
LEMMA UpdateKeeps ==
    ASSUME NEW lf, FactoryOK(lf), NEW id \in DOMAIN lf.byID, NEW s \in Strategies,
           s.ID = id, s.Name = lf.byID[id].Name
    PROVE  LET new == Limits!updateStrategy(lf, lf.byID[id], s)
           IN  /\ FactoryOK(new) /\ DOMAIN new.byID = DOMAIN lf.byID
               /\ new.byID[id] = s
               /\ \A i \in DOMAIN lf.byID : i # id => new.byID[i] = lf.byID[i]
  <1> DEFINE old == lf.byID[id]
             new == Limits!updateStrategy(lf, old, s)
             added == Limits!addStrategy(lf, s)
             changed == {r \in Resources : old.LimitOptions[r] # s.LimitOptions[r]}
             G == Limits!LimitersOf(lf, old, changed)
             N == new.byName
             B == new.byID
             L == new.limits
  <1>1. /\ lf.byName \in Partial(Names, Strategies)
        /\ lf.byID \in Partial(Limits!IDs, Strategies)
        /\ lf.limits \in Partial(Names \X Resources, Limits!Rules)
        /\ s.Name \in Names /\ s.ID \in Limits!IDs
      BY DEF FactoryOK, Factories, Strategies
  <1>2. old.ID = id /\ s.Name \in DOMAIN lf.byName /\ lf.byName[s.Name] = old
      BY DEF FactoryOK, Agree
  <1>3. new = [added EXCEPT !.limits = Limits!Without(@, G)]
      BY DEF Limits!updateStrategy
  <1>4. new \in Factories  BY UpdateTyped DEF FactoryOK
  <1>5. added \in Factories /\ added.limits = lf.limits  BY AddTyped DEF FactoryOK
  <1>6. N = added.byName /\ B = added.byID /\ L = Limits!Without(lf.limits, G)
      BY <1>3, <1>5 DEF Factories
  <1>7. /\ DOMAIN N = DOMAIN lf.byName /\ N[s.Name] = s
        /\ \A n \in DOMAIN lf.byName : n # s.Name => N[n] = lf.byName[n]
    <2>1. N = Limits!With(lf.byName, s.Name, s)  BY <1>6, AddTyped DEF FactoryOK
    <2> HIDE DEF N
    <2> QED  BY <1>2, <2>1 DEF Limits!With
  <1>8. /\ DOMAIN B = DOMAIN lf.byID /\ B[id] = s
        /\ \A i \in DOMAIN lf.byID : i # id => B[i] = lf.byID[i]
    <2>1. B = Limits!With(lf.byID, s.ID, s)  BY <1>6, AddTyped DEF FactoryOK
    <2> HIDE DEF B
    <2> QED  BY <2>1 DEF Limits!With
  <1>9. DOMAIN L = DOMAIN lf.limits \ G /\ \A l \in DOMAIN L : L[l] = lf.limits[l]
      BY <1>6 DEF Limits!Without, Limits!Restrict
  <1>10. ASSUME NEW l \in DOMAIN L
         PROVE  l[1] \in DOMAIN N /\ L[l] # NoRule /\ L[l] = N[l[1]].LimitOptions[l[2]]
    <2>1. /\ l \in DOMAIN lf.limits /\ l \notin G /\ L[l] = lf.limits[l]
          /\ l[1] \in DOMAIN lf.byName /\ lf.limits[l] # NoRule
          /\ lf.limits[l] = lf.byName[l[1]].LimitOptions[l[2]]
        BY <1>9 DEF FactoryOK, Current
    <2>2. l[2] \in Resources  BY <1>1, <2>1, PartialIs
    <2>3. CASE l[1] # s.Name  BY <1>7, <2>1, <2>3
    <2>4. CASE l[1] = s.Name
      <3>1. l[2] \notin changed  BY <1>2, <2>1, <2>4 DEF Limits!LimitersOf
      <3>2. old.LimitOptions[l[2]] = s.LimitOptions[l[2]]  BY <2>2, <3>1
      <3> QED  BY <1>2, <1>7, <2>1, <2>4, <3>2
    <2> QED  BY <2>3, <2>4
  <1>11. Current(new)  BY <1>10 DEF Current
  <1>12. Agree(new)
    <2>1. ASSUME NEW n \in DOMAIN N PROVE N[n].Name = n /\ N[n].ID \in DOMAIN B /\ B[N[n].ID] = N[n]
      <3>1. CASE n = s.Name  BY <1>7, <1>8, <3>1
      <3>2. CASE n # s.Name
        <4>1. /\ N[n] = lf.byName[n] /\ lf.byName[n].Name = n /\ lf.byName[n].ID \in DOMAIN lf.byID
              /\ lf.byID[lf.byName[n].ID] = lf.byName[n]
            BY <1>7, <3>2 DEF FactoryOK, Agree
        <4>2. N[n].ID # id  BY <3>2, <4>1
        <4> QED  BY <1>8, <4>1, <4>2
      <3> QED  BY <3>1, <3>2
    <2>2. ASSUME NEW i \in DOMAIN B PROVE B[i].ID = i /\ B[i].Name \in DOMAIN N /\ N[B[i].Name] = B[i]
      <3>1. CASE i = id  BY <1>2, <1>7, <1>8, <3>1
      <3>2. CASE i # id
        <4>1. /\ B[i] = lf.byID[i] /\ lf.byID[i].ID = i /\ lf.byID[i].Name \in DOMAIN lf.byName
              /\ lf.byName[lf.byID[i].Name] = lf.byID[i]
            BY <1>8, <3>2 DEF FactoryOK, Agree
        <4>2. B[i].Name # s.Name  BY <1>2, <3>2, <4>1
        <4> QED  BY <1>7, <4>1, <4>2
      <3> QED  BY <3>1, <3>2
    <2> QED  BY <2>1, <2>2 DEF Agree
  <1> QED  BY <1>4, <1>8, <1>11, <1>12 DEF FactoryOK

-----------------------------------------------------------------------------
(* A reload: two folds along an order of the ids.                           *)

Drop(gone, lf, id) == IF id \in gone THEN Limits!removeStrategy(lf, lf.byID[id]) ELSE lf
PutOf(rc, lf, id) ==
    IF id \notin DOMAIN rc THEN lf
    ELSE IF id \notin DOMAIN lf.byID THEN Limits!addStrategy(lf, rc[id])
    ELSE IF Limits!Changed(rc, id) THEN Limits!updateStrategy(lf, lf.byID[id], rc[id])
    ELSE lf

LEMMA LimitsLibrary == \A S : Limits!Max(S) = Max(S) /\ Limits!Cardinality(S) = Cardinality(S)
  BY DEF Limits!Max, Max, Limits!Cardinality, Cardinality

\* The strategies of a load, by id, and with different names.
RowsOK(rc) ==
    /\ rc \in Partial(Limits!IDs, Strategies)
    /\ \A i \in DOMAIN rc : rc[i].ID = i
    /\ \A i, j \in DOMAIN rc : rc[i].Name = rc[j].Name => i = j

Dropping(gone, base, order) == Limits!FoldLeft(LAMBDA lf, id : Drop(gone, lf, id), base, order)

LEMMA DropFold ==
    ASSUME NEW n \in Nat, NEW order \in [1..n -> Limits!IDs], NEW gone, NEW base \in Factories
    PROVE  \E it :
              /\ it[{}] = base
              /\ \A k \in 1..n : it[1..k] = Drop(gone, it[1..(k - 1)], order[k])
              /\ Dropping(gone, base, order) = it[1..n]
  <1> DEFINE F == [p \in Factories \X (1..n) |-> Drop(gone, p[1], order[p[2]])]
             Fits(g) == g = [t \in SUBSET (1..n) |->
                                IF t = {} THEN base
                                ELSE Drop(gone, g[t \ {Max(t)}], order[Max(t)])]
             G == CHOOSE g : Fits(g)
  <1>1. F \in [Factories \X (1..n) -> Factories]
    <2>1. ASSUME NEW lf \in Factories, NEW id PROVE Drop(gone, lf, id) \in Factories
        BY RemoveTyped DEF Drop
    <2> QED  BY <2>1
  <1>2. PICK h \in [SUBSET (1..n) -> Factories] : \A t \in SUBSET (1..n) :
              h[t] = IF t = {} THEN base ELSE F[<<h[t \ {Max(t)}], Max(t)>>]
    <2> HIDE DEF F
    <2>1. \E g : IsFold(n, Factories, base, F, g)  BY <1>1, FoldExists
    <2> QED  BY <2>1 DEF IsFold
  <1>3. Fits(h)
    <2>1. ASSUME NEW t \in SUBSET (1..n), t # {}
          PROVE  h[t] = Drop(gone, h[t \ {Max(t)}], order[Max(t)])
      <3>1. Max(t) \in 1..n
        <4>1. t \subseteq 0..n  OBVIOUS
        <4> QED  BY <2>1, <4>1, LargestElement
      <3>2. h[t \ {Max(t)}] \in Factories  OBVIOUS
      <3>3. h[t] = F[<<h[t \ {Max(t)}], Max(t)>>]  BY <1>2, <2>1
      <3> QED  BY <3>1, <3>2, <3>3
    <2>2. h[{}] = base  BY <1>2
    <2> QED  BY <2>1, <2>2
  <1>4. Fits(G)  BY <1>3
  <1>5. Dropping(gone, base, order) = G[1..n]
    <2>1. DOMAIN order = 1..n  OBVIOUS
    <2> QED  BY <2>1, LimitsLibrary, Zenon DEF Dropping, Limits!FoldLeft, Limits!MapThenFoldSet
  <1> HIDE DEF G
  <1>6. G[{}] = base  BY <1>4
  <1>7. ASSUME NEW k \in 1..n PROVE G[1..k] = Drop(gone, G[1..(k - 1)], order[k])
    <2>1. 1..k # {} /\ Max(1..k) = k /\ (1..k) \ {k} = 1..(k - 1)
      <3>1. k \in Nat \ {0}  OBVIOUS
      <3> QED  BY <3>1, LastOfFirst
    <2>2. 1..k \in SUBSET (1..n)  OBVIOUS
    <2>3. G[1..k] = Drop(gone, G[(1..k) \ {Max(1..k)}], order[Max(1..k)])
        BY <1>4, <2>1, <2>2
    <2> QED  BY <2>1, <2>3
  <1> QED  BY <1>5, <1>6, <1>7

Putting(rc, base, order) == Limits!FoldLeft(LAMBDA lf, id : PutOf(rc, lf, id), base, order)

LEMMA PutFold ==
    ASSUME NEW n \in Nat, NEW order \in [1..n -> Limits!IDs], NEW rc, RowsOK(rc), NEW base \in Factories
    PROVE  \E it :
              /\ it[{}] = base
              /\ \A k \in 1..n : it[1..k] = PutOf(rc, it[1..(k - 1)], order[k])
              /\ Putting(rc, base, order) = it[1..n]
  <1> DEFINE F == [p \in Factories \X (1..n) |-> PutOf(rc, p[1], order[p[2]])]
             Fits(g) == g = [t \in SUBSET (1..n) |->
                                IF t = {} THEN base
                                ELSE PutOf(rc, g[t \ {Max(t)}], order[Max(t)])]
             G == CHOOSE g : Fits(g)
  <1>1. F \in [Factories \X (1..n) -> Factories]
    <2>1. ASSUME NEW lf \in Factories, NEW id PROVE PutOf(rc, lf, id) \in Factories
      <3>1. id \in DOMAIN rc => rc[id] \in Strategies  BY PartialIs DEF RowsOK
      <3> QED  BY <3>1, AddTyped, UpdateTyped DEF PutOf
    <2> QED  BY <2>1
  <1>2. PICK h \in [SUBSET (1..n) -> Factories] : \A t \in SUBSET (1..n) :
              h[t] = IF t = {} THEN base ELSE F[<<h[t \ {Max(t)}], Max(t)>>]
    <2> HIDE DEF F
    <2>1. \E g : IsFold(n, Factories, base, F, g)  BY <1>1, FoldExists
    <2> QED  BY <2>1 DEF IsFold
  <1>3. Fits(h)
    <2>1. ASSUME NEW t \in SUBSET (1..n), t # {}
          PROVE  h[t] = PutOf(rc, h[t \ {Max(t)}], order[Max(t)])
      <3>1. Max(t) \in 1..n
        <4>1. t \subseteq 0..n  OBVIOUS
        <4> QED  BY <2>1, <4>1, LargestElement
      <3>2. h[t \ {Max(t)}] \in Factories  OBVIOUS
      <3>3. h[t] = F[<<h[t \ {Max(t)}], Max(t)>>]  BY <1>2, <2>1
      <3> QED  BY <3>1, <3>2, <3>3
    <2>2. h[{}] = base  BY <1>2
    <2> QED  BY <2>1, <2>2
  <1>4. Fits(G)  BY <1>3
  <1>5. Putting(rc, base, order) = G[1..n]
    <2>1. DOMAIN order = 1..n  OBVIOUS
    <2> QED  BY <2>1, LimitsLibrary, Zenon DEF Putting, Limits!FoldLeft, Limits!MapThenFoldSet
  <1> HIDE DEF G
  <1>6. G[{}] = base  BY <1>4
  <1>7. ASSUME NEW k \in 1..n PROVE G[1..k] = PutOf(rc, G[1..(k - 1)], order[k])
    <2>1. 1..k # {} /\ Max(1..k) = k /\ (1..k) \ {k} = 1..(k - 1)
      <3>1. k \in Nat \ {0}  OBVIOUS
      <3> QED  BY <3>1, LastOfFirst
    <2>2. 1..k \in SUBSET (1..n)  OBVIOUS
    <2>3. G[1..k] = PutOf(rc, G[(1..k) \ {Max(1..k)}], order[Max(1..k)])
        BY <1>4, <2>1, <2>2
    <2> QED  BY <2>1, <2>3
  <1> QED  BY <1>5, <1>6, <1>7

\* Every id comes once in an order of the ids.
LEMMA OrderIs ==
    ASSUME NEW n \in Nat, usedIDs = 1..n, NEW order \in Limits!SetToSeqs(usedIDs)
    PROVE  order \in [1..n -> 1..n] /\ (\A i \in 1..n : \E j \in 1..n : order[j] = i)
           /\ (\A i, j \in 1..n : order[i] = order[j] => i = j)
  <1>1. IsFiniteSet(1..n) /\ Cardinality(1..n) = n  BY FirstNumbers
  <1>2. Limits!Cardinality(usedIDs) = n  BY <1>1, LimitsLibrary
  <1>3. order \in [1..n -> 1..n] /\ \A i, j \in 1..n : i # j => order[i] # order[j]
      BY <1>2 DEF Limits!SetToSeqs
  <1>4. order \in Injection(1..n, 1..n)  BY <1>3 DEF Injection, IsInjective
  <1>5. order \in Surjection(1..n, 1..n)  BY <1>1, <1>4, FS_Injection
  <1> QED  BY <1>3, <1>5 DEF Surjection

Named(rows1, rows2) ==
    \A i \in DOMAIN rows1 \cap DOMAIN rows2 : rows1[i].Name = rows2[i].Name

\* A reload keeps the strategies by name and by id the same, and the limiters current, when
\* no strategy was renamed.
LEMMA ReloadKeeps ==
    ASSUME NEW n \in Nat, usedIDs = 1..n, n <= MaxIDs,
           FactoryOK(Limits!Factory), DOMAIN id2Strategies \subseteq usedIDs,
           NEW rc, RowsOK(rc), DOMAIN rc \subseteq usedIDs, Named(id2Strategies, rc),
           NEW order \in Limits!SetToSeqs(usedIDs)
    PROVE  /\ FactoryOK(Limits!reload(rc, order))
           /\ \A i \in DOMAIN Limits!reload(rc, order).byID :
                 i \in DOMAIN rc /\ Limits!reload(rc, order).byID[i].Name = rc[i].Name
  <1> DEFINE gone == {id \in DOMAIN id2Strategies : id \notin DOMAIN rc}
             kept == Dropping(gone, Limits!Factory, order)
             new == Putting(rc, kept, order)
  <1>1. Limits!reload(rc, order) = new
      BY Zenon DEF Limits!reload, Dropping, Putting, Drop, PutOf
  <1>2. /\ order \in [1..n -> 1..n]
        /\ \A i \in 1..n : \E j \in 1..n : order[j] = i
        /\ \A i, j \in 1..n : order[i] = order[j] => i = j
      BY OrderIs
  <1>3. order \in [1..n -> Limits!IDs]  BY <1>2, LimitsConstants DEF Limits!IDs
  <1>4. Limits!Factory.byID = id2Strategies  BY DEF Limits!Factory
  <1> HIDE DEF gone
  <1>5. PICK it : /\ it[{}] = Limits!Factory
                  /\ \A k \in 1..n : it[1..k] = Drop(gone, it[1..(k - 1)], order[k])
                  /\ kept = it[1..n]
      BY <1>3, DropFold DEF FactoryOK
  <1> DEFINE Dropped(k) == {i \in gone : \E j \in 1..k : order[j] = i}
             Kept(lf, k) ==
                /\ FactoryOK(lf) /\ DOMAIN lf.byID = DOMAIN id2Strategies \ Dropped(k)
                /\ \A i \in DOMAIN lf.byID : lf.byID[i] = id2Strategies[i]
             K == {k \in Nat : k <= n => Kept(it[1..k], k)}
  <1>6. Kept(it[1..n], n)
    <2>1. 0 \in K
      <3>1. 1..0 = {} /\ Dropped(0) = {}  OBVIOUS
      <3>2. it[1..0] = Limits!Factory  BY <1>5, <3>1
      <3>3. Kept(Limits!Factory, 0)  BY <1>4, <3>1
      <3> HIDE DEF Kept
      <3> QED  BY <3>2, <3>3
    <2>2. ASSUME NEW k \in Nat, k \in K PROVE k + 1 \in K
      <3> SUFFICES ASSUME k + 1 <= n PROVE Kept(it[1..(k + 1)], k + 1)  OBVIOUS
      <3>1. PICK lf : lf = it[1..k]  OBVIOUS
      <3>2. Kept(lf, k)
        <4> HIDE DEF Kept
        <4> QED  BY <2>2, <3>1
      <3>3. PICK id \in 1..n : id = order[k + 1]  BY <1>2
      <3>4. it[1..(k + 1)] = Drop(gone, lf, id)
        <4>1. k + 1 \in 1..n /\ (k + 1) - 1 = k  OBVIOUS
        <4> QED  BY <1>5, <3>1, <3>3, <4>1
      <3>5. Dropped(k + 1) = Dropped(k) \cup (gone \cap {id})
        <4>1. \A j : j \in 1..(k + 1) <=> j \in 1..k \/ j = k + 1  OBVIOUS
        <4> QED  BY <3>3, <4>1
      <3>6. CASE id \notin gone
        <4>1. Drop(gone, lf, id) = lf /\ Dropped(k + 1) = Dropped(k)
            BY <3>5, <3>6 DEF Drop
        <4> QED  BY <3>2, <3>4, <4>1
      <3>7. CASE id \in gone
        <4>1. id \notin Dropped(k)
          <5>1. \A j \in 1..k : j \in 1..n /\ j # k + 1  OBVIOUS
          <5>2. k + 1 \in 1..n  OBVIOUS
          <5> QED  BY <1>2, <3>3, <5>1, <5>2
        <4>2. id \in DOMAIN lf.byID  BY <3>2, <3>7, <4>1 DEF gone
        <4>3. Drop(gone, lf, id) = Limits!removeStrategy(lf, lf.byID[id])  BY <3>7 DEF Drop
        <4>4. Dropped(k + 1) = Dropped(k) \cup {id}  BY <3>5, <3>7
        <4> HIDE DEF Dropped
        <4>5. PICK r : r = Limits!removeStrategy(lf, lf.byID[id])  OBVIOUS
        <4>6. /\ FactoryOK(r) /\ DOMAIN r.byID = DOMAIN lf.byID \ {id}
              /\ \A i \in DOMAIN r.byID : r.byID[i] = lf.byID[i]
            BY <3>2, <4>2, <4>5, RemoveKeeps
        <4>7. Kept(r, k + 1)  BY <3>2, <4>4, <4>6
        <4> QED  BY <3>4, <4>3, <4>5, <4>7
      <3> QED  BY <3>6, <3>7
    <2> HIDE DEF Kept
    <2>3. Nat \subseteq K
      <3> HIDE DEF K
      <3> QED  BY <2>1, <2>2, NatMembers
    <2> QED  BY <2>3
  <1>7. /\ FactoryOK(kept)
        /\ \A i \in DOMAIN kept.byID : i \in DOMAIN rc /\ kept.byID[i].Name = rc[i].Name
    <2> HIDE DEF kept
    <2>1. Dropped(n) = gone
      <3>1. gone \subseteq 1..n  BY DEF gone
      <3> QED  BY <1>2, <3>1
    <2>2. Kept(kept, n)
      <3> HIDE DEF Kept
      <3> QED  BY <1>5, <1>6
    <2> QED  BY <2>1, <2>2 DEF gone, Named
  <1> HIDE DEF kept, Kept, K
  <1>8. PICK put : /\ put[{}] = kept
                   /\ \A k \in 1..n : put[1..k] = PutOf(rc, put[1..(k - 1)], order[k])
                   /\ new = put[1..n]
      BY <1>3, <1>7, PutFold DEF FactoryOK
  <1> DEFINE Shows(lf) ==
                /\ FactoryOK(lf)
                /\ \A i \in DOMAIN lf.byID : i \in DOMAIN rc /\ lf.byID[i].Name = rc[i].Name
             S == {k \in Nat : k <= n => Shows(put[1..k])}
  <1>9. Shows(put[1..n])
    <2>1. 0 \in S
      <3>1. 1..0 = {}  OBVIOUS
      <3>2. put[1..0] = kept  BY <1>8, <3>1
      <3>3. Shows(kept)  BY <1>7
      <3> HIDE DEF Shows
      <3> QED  BY <3>2, <3>3
    <2>2. ASSUME NEW k \in Nat, k \in S PROVE k + 1 \in S
      <3> SUFFICES ASSUME k + 1 <= n PROVE Shows(put[1..(k + 1)])  OBVIOUS
      <3>1. PICK lf : lf = put[1..k]  OBVIOUS
      <3>2. Shows(lf)
        <4> HIDE DEF Shows
        <4> QED  BY <2>2, <3>1
      <3>3. PICK id \in 1..n : id = order[k + 1]  BY <1>2
      <3>4. put[1..(k + 1)] = PutOf(rc, lf, id)
        <4>1. k + 1 \in 1..n /\ (k + 1) - 1 = k  OBVIOUS
        <4> QED  BY <1>8, <3>1, <3>3, <4>1
      <3>5. PICK r : r = PutOf(rc, lf, id)  OBVIOUS
      <3>6. CASE r = lf  BY <3>2, <3>4, <3>5, <3>6
      <3>7. ASSUME id \in DOMAIN rc, id \notin DOMAIN lf.byID, r = Limits!addStrategy(lf, rc[id])
            PROVE  Shows(r)
        <4>1. rc[id] \in Strategies /\ rc[id].ID = id  BY <3>7, PartialIs DEF RowsOK
        <4>2. rc[id].Name \notin DOMAIN lf.byName
          <5> SUFFICES ASSUME rc[id].Name \in DOMAIN lf.byName PROVE FALSE  OBVIOUS
          <5>1. PICK i : i = lf.byName[rc[id].Name].ID  OBVIOUS
          <5>2. i \in DOMAIN lf.byID /\ lf.byID[i].Name = rc[id].Name
              BY <3>2, <5>1 DEF FactoryOK, Agree
          <5> QED  BY <3>2, <3>7, <5>2 DEF RowsOK
        <4>3. /\ FactoryOK(r) /\ DOMAIN r.byID = DOMAIN lf.byID \cup {id}
              /\ r.byID[id] = rc[id]
              /\ \A i \in DOMAIN lf.byID : r.byID[i] = lf.byID[i]
            BY <3>2, <3>7, <4>1, <4>2, AddKeeps
        <4> QED  BY <3>2, <3>7, <4>3
      <3>8. ASSUME id \in DOMAIN rc, id \in DOMAIN lf.byID,
                   r = Limits!updateStrategy(lf, lf.byID[id], rc[id])
            PROVE  Shows(r)
        <4>1. rc[id] \in Strategies /\ rc[id].ID = id  BY <3>8, PartialIs DEF RowsOK
        <4>2. rc[id].Name = lf.byID[id].Name  BY <3>2, <3>8
        <4>3. /\ FactoryOK(r) /\ DOMAIN r.byID = DOMAIN lf.byID /\ r.byID[id] = rc[id]
              /\ \A i \in DOMAIN lf.byID : i # id => r.byID[i] = lf.byID[i]
            BY <3>2, <3>8, <4>1, <4>2, UpdateKeeps
        <4> QED  BY <3>2, <3>8, <4>3
      <3> HIDE DEF Shows
      <3> QED  BY <3>4, <3>5, <3>6, <3>7, <3>8 DEF PutOf
    <2> HIDE DEF Shows
    <2>3. Nat \subseteq S
      <3> HIDE DEF S
      <3> QED  BY <2>1, <2>2, NatMembers
    <2> QED  BY <2>3
  <1>10. PICK r : r = Limits!reload(rc, order)  OBVIOUS
  <1>11. Shows(r)
    <2> HIDE DEF Shows, new
    <2> QED  BY <1>1, <1>8, <1>9, <1>10
  <1> QED  BY <1>10, <1>11

-----------------------------------------------------------------------------
(* The rate limiters in every state.                                        *)

Rows == [Name : Names, Value : Values]

\* The rows have different names and ids that were given in turn.
ConfigsOK ==
    /\ \E n \in Nat : n <= MaxIDs /\ usedIDs = 1..n
    /\ configs \in Partial(usedIDs, Rows)
    /\ \A i, j \in DOMAIN configs : configs[i].Name = configs[j].Name => i = j

\* A strategy, a row that was read and a row that is there have the same name, if they
\* have the same id.
LoadedOK ==
    /\ Named(id2Strategies, configs)
    /\ \A rc \in loaded :
          /\ RowsOK(rc) /\ DOMAIN rc \subseteq usedIDs
          /\ Named(rc, configs) /\ Named(id2Strategies, rc)

LimitsInv ==
    /\ ConfigsOK /\ LoadedOK
    /\ FactoryOK(Limits!Factory) /\ DOMAIN id2Strategies \subseteq usedIDs
    /\ waiting \in [Requests -> SUBSET (Names \X Resources)]

\* What LoadRateLimitStrategyConfigs reads.
LEMMA DecodedOK ==
    ASSUME ConfigsOK
    PROVE  /\ RowsOK(Limits!Decoded(configs)) /\ DOMAIN Limits!Decoded(configs) \subseteq DOMAIN configs
           /\ Named(Limits!Decoded(configs), configs)
  <1> DEFINE D == {i \in DOMAIN configs : Limits!IsStrategy(configs[i].Value)}
             rc == Limits!Decoded(configs)
  <1>1. rc = [i \in D |-> [ID |-> i, Name |-> configs[i].Name, LimitOptions |-> configs[i].Value]]
      BY DEF Limits!Decoded, Limits!Strategy
  <1>2. configs \in [DOMAIN configs -> Rows] /\ DOMAIN configs \subseteq Limits!IDs
      BY LimitsConstants, PartialIs DEF ConfigsOK, Limits!IDs
  <1>3. D \subseteq DOMAIN configs  OBVIOUS
  <1> HIDE DEF D, rc
  <1>4. \A i \in D : configs[i].Name \in Names /\ configs[i].Value \in Values
      BY <1>2, <1>3 DEF Rows
  <1>5. rc \in [D -> Strategies]  BY <1>1, <1>2, <1>3, <1>4 DEF Strategies
  <1>6. DOMAIN rc = D /\ \A i \in D : rc[i].ID = i /\ rc[i].Name = configs[i].Name
      BY <1>1
  <1>7. rc \in Partial(Limits!IDs, Strategies)  BY <1>2, <1>3, <1>5, <1>6, PartialIs
  <1>8. \A i, j \in D : rc[i].Name = rc[j].Name => i = j
      BY <1>3, <1>6 DEF ConfigsOK
  <1>9. RowsOK(rc)  BY <1>6, <1>7, <1>8 DEF RowsOK
  <1>10. Named(rc, configs)  BY <1>6 DEF Named
  <1> QED  BY <1>3, <1>6, <1>9, <1>10 DEF rc

LEMMA EmptyIs ==
    /\ DOMAIN Limits!Empty = {}
    /\ \A D, V : Limits!Empty \in Partial(D, V)
  <1>1. DOMAIN Limits!Empty = {}  BY DEF Limits!Empty
  <1>2. ASSUME NEW D, NEW V PROVE Limits!Empty \in Partial(D, V)
    <2>1. Limits!Empty \in [{} -> V]  BY DEF Limits!Empty
    <2> QED  BY <2>1 DEF Partial
  <1> QED  BY <1>1, <1>2

LEMMA LimitsInitInv == Init => LimitsInv
  <1> SUFFICES ASSUME Limits!Init PROVE LimitsInv  BY DEF Init
  <1>1. /\ usedIDs = DOMAIN configs /\ loaded = {}
        /\ strategies = Limits!Empty /\ id2Strategies = Limits!Empty /\ limiters = Limits!Empty
        /\ waiting = [q \in Requests |-> {}]
        /\ configs = Limits!Empty \/ configs \in [{1} -> [Name : {DefaultStrategy}, Value : Values]]
      BY DEF Limits!Init
  <1>2. ConfigsOK
    <2>1. CASE configs = Limits!Empty
      <3>1. usedIDs = 1..0 /\ 0 <= MaxIDs  BY <1>1, <2>1, EmptyIs, LimitsConstants
      <3> QED  BY <2>1, <3>1, EmptyIs DEF ConfigsOK
    <2>2. CASE configs \in [{1} -> [Name : {DefaultStrategy}, Value : Values]]
      <3>1. usedIDs = 1..1 /\ 1 <= MaxIDs /\ DOMAIN configs = {1}
          BY <1>1, <2>2, LimitsConstants
      <3>2. configs \in [DOMAIN configs -> Rows]
        <4>1. [Name : {DefaultStrategy}, Value : Values] \subseteq Rows
            BY LimitsConstants DEF Rows
        <4> QED  BY <2>2, <4>1
      <3>3. configs \in Partial(usedIDs, Rows)  BY <3>1, <3>2, PartialIs
      <3> QED  BY <3>1, <3>3 DEF ConfigsOK
    <2> QED  BY <1>1, <2>1, <2>2
  <1>3. LoadedOK  BY <1>1, EmptyIs DEF LoadedOK, Named
  <1>4. FactoryOK(Limits!Factory)
    <2>1. Limits!Factory = [byName |-> Limits!Empty, byID |-> Limits!Empty, limits |-> Limits!Empty]
        BY <1>1 DEF Limits!Factory
    <2>2. Limits!Factory \in Factories  BY <2>1, EmptyIs DEF Factories
    <2> QED  BY <2>1, <2>2, EmptyIs DEF FactoryOK, Agree, Current
  <1> QED  BY <1>1, <1>2, <1>3, <1>4, EmptyIs DEF LimitsInv

\* A request is sent to a strategy that is there.
LEMMA GroupsAreNames ==
    ASSUME LimitsInv, NEW r, NEW m \in Limits!GroupsOf(r) PROVE m \in Names
  <1>1. strategies \in Partial(Names, Strategies) /\ id2Strategies \in Partial(Limits!IDs, Strategies)
      BY DEF LimitsInv, FactoryOK, Factories, Limits!Factory
  <1>2. /\ \A a \in DOMAIN strategies : strategies[a].Name \in Names
        /\ \A a \in DOMAIN id2Strategies : id2Strategies[a].Name \in Names
    <2>1. /\ strategies \in [DOMAIN strategies -> Strategies]
          /\ id2Strategies \in [DOMAIN id2Strategies -> Strategies]
        BY <1>1, PartialIs
    <2>2. \A x \in Strategies : x.Name \in Names  BY DEF Strategies
    <2> QED  BY <2>1, <2>2
  <1> QED  BY <1>2 DEF Limits!GroupsOf, Limits!DefaultGroups, Limits!KeyInfoGroups

\* What leaves the rows and the factory alone.
LEMMA FactoryStays ==
    ASSUME LimitsInv, UNCHANGED <<strategies, id2Strategies, limiters>>
    PROVE  FactoryOK(Limits!Factory)'
  <1>1. Limits!Factory' = Limits!Factory  BY DEF Limits!Factory
  <1> QED  BY <1>1 DEF LimitsInv, FactoryOK, Factories, Agree, Current

LEMMA LimitersChange ==
    ASSUME LimitsInv, UNCHANGED <<configs, usedIDs, strategies, id2Strategies, loaded>>,
           waiting' \in [Requests -> SUBSET (Names \X Resources)],
           limiters' \in Partial(Names \X Resources, Limits!Rules),
           \A l \in DOMAIN limiters' :
              /\ l[1] \in DOMAIN strategies /\ limiters'[l] # NoRule
              /\ limiters'[l] = strategies[l[1]].LimitOptions[l[2]]
    PROVE  LimitsInv'
  <1>1. Limits!Factory' = [byName |-> strategies, byID |-> id2Strategies, limits |-> limiters']
      BY DEF Limits!Factory
  <1>2. FactoryOK(Limits!Factory)'
    <2>1. /\ Limits!Factory.byName = strategies /\ Limits!Factory.byID = id2Strategies
          /\ Limits!Factory \in Factories /\ Agree(Limits!Factory)
        BY DEF LimitsInv, FactoryOK, Limits!Factory
    <2>2. Limits!Factory' \in Factories  BY <1>1, <2>1 DEF Factories
    <2>3. Agree(Limits!Factory')  BY <1>1, <2>1 DEF Agree
    <2>4. Current(Limits!Factory')  BY <1>1 DEF Current
    <2> QED  BY <2>2, <2>3, <2>4 DEF FactoryOK, Factories, Agree, Current
  <1>3. ConfigsOK' /\ LoadedOK'
      BY DEF LimitsInv, ConfigsOK, LoadedOK, Named, RowsOK
  <1> QED  BY <1>2, <1>3 DEF LimitsInv

LEMMA EditKeeps ==
    ASSUME LimitsInv, ~CanRename, Limits!Edit
    PROVE  LimitsInv'
  <1>1. UNCHANGED <<strategies, id2Strategies, limiters, loaded, waiting>>
      BY DEF Limits!Edit, Limits!lfVars
  <1>2. PICK n \in Nat : n <= MaxIDs /\ usedIDs = 1..n  BY DEF LimitsInv, ConfigsOK
  <1>3. configs \in [DOMAIN configs -> Rows] /\ DOMAIN configs \subseteq 1..n
      BY <1>2, PartialIs DEF LimitsInv, ConfigsOK
  <1>4. ASSUME usedIDs \subseteq usedIDs', \E m \in Nat : m <= MaxIDs /\ usedIDs' = 1..m,
               configs' \in Partial(usedIDs', Rows),
               \A i \in DOMAIN configs' : i \in DOMAIN configs \/ i \notin usedIDs,
               \A i \in DOMAIN configs' : i \in DOMAIN configs => configs'[i].Name = configs[i].Name,
               \A i, j \in DOMAIN configs' : configs'[i].Name = configs'[j].Name => i = j
        PROVE  LimitsInv'
    <2>1. ConfigsOK'  BY <1>4 DEF ConfigsOK
    <2>2. Named(id2Strategies', configs')
        BY <1>1, <1>4 DEF LimitsInv, LoadedOK, Named
    <2>3. \A rc \in loaded' :
              /\ RowsOK(rc) /\ DOMAIN rc \subseteq usedIDs'
              /\ Named(rc, configs') /\ Named(id2Strategies', rc)
        BY <1>1, <1>4 DEF LimitsInv, LoadedOK, Named
    <2>4. LoadedOK'  BY <2>2, <2>3 DEF LoadedOK, Named, RowsOK
    <2>5. FactoryOK(Limits!Factory)'  BY <1>1, FactoryStays
    <2> QED  BY <1>1, <1>4, <2>1, <2>4, <2>5 DEF LimitsInv
  <1>5. \A i, j \in DOMAIN configs : configs[i].Name = configs[j].Name => i = j
      BY DEF LimitsInv, ConfigsOK
  <1>6. ASSUME NEW m \in Names \ {configs[i].Name : i \in DOMAIN configs}, NEW v \in Values,
               NEW id \in Limits!IDs, id = Limits!Cardinality(usedIDs) + 1,
               usedIDs' = usedIDs \cup {id},
               configs' = Limits!With(configs, id, [Name |-> m, Value |-> v])
        PROVE  LimitsInv'
    <2>1. id = n + 1
      <3>1. Cardinality(usedIDs) = n  BY <1>2, FirstNumbers
      <3> QED  BY <1>6, <3>1, LimitsLibrary
    <2>2. n + 1 <= MaxIDs /\ usedIDs' = 1..(n + 1)
      <3>1. 1..(n + 1) = (1..n) \cup {n + 1}  OBVIOUS
      <3>2. n + 1 <= MaxIDs  BY <1>6, <2>1, LimitsConstants DEF Limits!IDs
      <3> QED  BY <1>2, <1>6, <2>1, <3>1, <3>2
    <2>3. configs' = [i \in DOMAIN configs \cup {id} |->
                         IF i = id THEN [Name |-> m, Value |-> v] ELSE configs[i]]
        BY <1>6 DEF Limits!With
    <2>4. id \notin usedIDs /\ id \notin DOMAIN configs  BY <1>2, <1>3, <2>1
    <2>5. DOMAIN configs' = DOMAIN configs \cup {id}  BY <2>3
    <2>6. configs' \in [DOMAIN configs' -> Rows]
      <3>1. [Name |-> m, Value |-> v] \in Rows  BY DEF Rows
      <3> QED  BY <1>3, <2>3, <2>5, <3>1
    <2>7. configs' \in Partial(usedIDs', Rows)
      <3>1. DOMAIN configs' \subseteq usedIDs'  BY <1>2, <1>3, <1>6, <2>5
      <3> QED  BY <2>6, <3>1, PartialIs
    <2>8. configs'[id].Name = m /\ \A i \in DOMAIN configs : configs'[i] = configs[i]
        BY <2>3, <2>4
    <2>9. \A i, j \in DOMAIN configs' : configs'[i].Name = configs'[j].Name => i = j
        BY <1>5, <2>5, <2>8
    <2>10. usedIDs \subseteq usedIDs' /\ \E m2 \in Nat : m2 <= MaxIDs /\ usedIDs' = 1..m2
        BY <1>6, <2>2
    <2> QED  BY <1>4, <2>4, <2>5, <2>7, <2>8, <2>9, <2>10
  <1>7. ASSUME NEW id \in DOMAIN configs, configs' = Limits!Without(configs, {id}), UNCHANGED usedIDs
        PROVE  LimitsInv'
    <2>1. /\ configs' \in Partial(usedIDs, Rows) /\ DOMAIN configs' = DOMAIN configs \ {id}
          /\ \A i \in DOMAIN configs' : configs'[i] = configs[i]
      <3>1. PICK f, u : f = configs /\ u = usedIDs  OBVIOUS
      <3>2. f \in Partial(u, Rows)  BY <3>1 DEF LimitsInv, ConfigsOK
      <3>3. PICK g : g = Limits!Without(f, {id})  OBVIOUS
      <3>4. g \in Partial(u, Rows)  BY <3>2, <3>3, WithoutIs
      <3>5. DOMAIN g = DOMAIN f \ {id} /\ \A i \in DOMAIN g : g[i] = f[i]
          BY <3>3 DEF Limits!Without, Limits!Restrict
      <3>6. configs' = g  BY <1>7, <3>1, <3>3
      <3> QED  BY <3>1, <3>4, <3>5, <3>6
    <2> QED  BY <1>2, <1>4, <1>5, <1>7, <2>1
  <1>8. ASSUME NEW id \in DOMAIN configs, NEW v \in Values,
               configs' = [configs EXCEPT ![id].Value = v], UNCHANGED usedIDs
        PROVE  LimitsInv'
    <2>1. /\ DOMAIN configs' = DOMAIN configs /\ configs' \in [DOMAIN configs -> Rows]
          /\ \A i \in DOMAIN configs : configs'[i].Name = configs[i].Name
        BY <1>3, <1>8 DEF Rows
    <2>2. configs' \in Partial(usedIDs, Rows)  BY <1>2, <1>3, <2>1, PartialIs
    <2> QED  BY <1>2, <1>4, <1>5, <1>8, <2>1, <2>2
  <1> QED  BY <1>6, <1>7, <1>8 DEF Limits!Edit

LEMMA LimitsStep ==
    ASSUME LimitsInv, ~CanRename, Limits!Next
    PROVE  LimitsInv'
  <1>1. CASE Limits!Load
    <2>1. /\ UNCHANGED <<configs, usedIDs, strategies, id2Strategies, limiters, waiting>>
          /\ loaded' = {Limits!Decoded(configs)} \/ loaded' = loaded
        BY <1>1 DEF Limits!Load, Limits!lfVars
    <2>2. FactoryOK(Limits!Factory)'  BY <2>1, FactoryStays
    <2>3. ConfigsOK' /\ Named(id2Strategies', configs')
        BY <2>1 DEF LimitsInv, ConfigsOK, LoadedOK
    <2>4. \A rc \in loaded' :
              /\ RowsOK(rc) /\ DOMAIN rc \subseteq usedIDs
              /\ Named(rc, configs) /\ Named(id2Strategies, rc)
      <3>1. CASE loaded' = loaded  BY <3>1 DEF LimitsInv, LoadedOK
      <3>2. CASE loaded' = {Limits!Decoded(configs)}
        <4>1. PICK rc : rc = Limits!Decoded(configs)  OBVIOUS
        <4>2. RowsOK(rc) /\ DOMAIN rc \subseteq DOMAIN configs /\ Named(rc, configs)
            BY <4>1, DecodedOK DEF LimitsInv
        <4>3. DOMAIN configs \subseteq usedIDs  BY PartialIs DEF LimitsInv, ConfigsOK
        <4>4. Named(id2Strategies, rc)  BY <4>2 DEF LimitsInv, LoadedOK, Named
        <4> QED  BY <3>2, <4>1, <4>2, <4>3, <4>4
      <3> QED  BY <2>1, <3>1, <3>2
    <2>5. LoadedOK'  BY <2>1, <2>3, <2>4 DEF LoadedOK, Named, RowsOK
    <2> QED  BY <2>1, <2>2, <2>3, <2>5 DEF LimitsInv
  <1>2. CASE Limits!Reload
    <2>1. PICK rc \in loaded, order \in Limits!SetToSeqs(usedIDs) :
              LET lf == Limits!reload(rc, order)
              IN  strategies' = lf.byName /\ id2Strategies' = lf.byID /\ limiters' = lf.limits
        BY <1>2 DEF Limits!Reload
    <2>2. loaded' = {} /\ UNCHANGED <<configs, usedIDs, waiting>>
        BY <1>2 DEF Limits!Reload
    <2>3. PICK lf : lf = Limits!reload(rc, order)  OBVIOUS
    <2>4. /\ RowsOK(rc) /\ DOMAIN rc \subseteq usedIDs /\ Named(rc, configs)
          /\ Named(id2Strategies, rc)
        BY DEF LimitsInv, LoadedOK
    <2>5. FactoryOK(lf) /\ \A i \in DOMAIN lf.byID : i \in DOMAIN rc /\ lf.byID[i].Name = rc[i].Name
      <3>1. PICK n \in Nat : n <= MaxIDs /\ usedIDs = 1..n  BY DEF LimitsInv, ConfigsOK
      <3> QED  BY <2>3, <2>4, <3>1, ReloadKeeps DEF LimitsInv
    <2>6. Limits!Factory' = lf
      <3>1. lf = [byName |-> lf.byName, byID |-> lf.byID, limits |-> lf.limits]
          BY <2>5 DEF FactoryOK, Factories
      <3> QED  BY <2>1, <2>3, <3>1 DEF Limits!Factory
    <2>7. FactoryOK(Limits!Factory)'
        BY <2>5, <2>6 DEF FactoryOK, Factories, Agree, Current
    <2>8. id2Strategies' = lf.byID  BY <2>1, <2>3
    <2>9. Named(id2Strategies', configs') /\ DOMAIN id2Strategies' \subseteq usedIDs'
        BY <2>2, <2>4, <2>5, <2>8 DEF Named
    <2>10. LoadedOK'  BY <2>2, <2>9 DEF LoadedOK
    <2>11. ConfigsOK'  BY <2>2 DEF LimitsInv, ConfigsOK
    <2> QED  BY <2>2, <2>7, <2>9, <2>10, <2>11 DEF LimitsInv
  <1>a. /\ limiters \in Partial(Names \X Resources, Limits!Rules)
        /\ strategies \in Partial(Names, Strategies)
        /\ \A l \in DOMAIN limiters :
              /\ l[1] \in DOMAIN strategies /\ limiters[l] # NoRule
              /\ limiters[l] = strategies[l[1]].LimitOptions[l[2]]
      BY DEF LimitsInv, FactoryOK, Factories, Current, Limits!Factory
  <1>3. CASE Limits!GC
    <2>1. PICK l \in DOMAIN limiters : limiters' = Limits!Without(limiters, {l})
        BY <1>3 DEF Limits!GC
    <2>2. UNCHANGED <<configs, usedIDs, strategies, id2Strategies, loaded, waiting>>
        BY <1>3 DEF Limits!GC
    <2>3. /\ limiters' \in Partial(Names \X Resources, Limits!Rules)
          /\ DOMAIN limiters' = DOMAIN limiters \ {l}
          /\ \A k \in DOMAIN limiters' : limiters'[k] = limiters[k]
      <3>1. PICK f : f = limiters  OBVIOUS
      <3>2. PICK g : g = Limits!Without(f, {l})  OBVIOUS
      <3>3. g \in Partial(Names \X Resources, Limits!Rules)  BY <1>a, <3>1, <3>2, WithoutIs
      <3>4. DOMAIN g = DOMAIN f \ {l} /\ \A k \in DOMAIN g : g[k] = f[k]
          BY <3>2 DEF Limits!Without, Limits!Restrict
      <3>5. limiters' = g  BY <2>1, <3>1, <3>2
      <3> QED  BY <3>1, <3>3, <3>4, <3>5
    <2>4. waiting' \in [Requests -> SUBSET (Names \X Resources)]  BY <2>2 DEF LimitsInv
    <2> QED  BY <1>a, <2>2, <2>3, <2>4, LimitersChange
  <1>4. CASE Limits!Edit  BY <1>4, EditKeeps
  <1>5. ASSUME NEW q \in Requests, Limits!GetGroupAndKey(q) PROVE LimitsInv'
    <2>1. PICK r \in Resources, m \in Names : waiting' = [waiting EXCEPT ![q] = {<<m, r>>}]
        BY <1>5 DEF Limits!GetGroupAndKey
    <2>2. UNCHANGED <<configs, usedIDs, strategies, id2Strategies, limiters, loaded>>
        BY <1>5 DEF Limits!GetGroupAndKey, Limits!lfVars
    <2>3. waiting' \in [Requests -> SUBSET (Names \X Resources)]  BY <2>1 DEF LimitsInv
    <2> QED  BY <1>a, <2>2, <2>3, LimitersChange
  <1>6. ASSUME NEW q \in Requests, Limits!Limit(q) PROVE LimitsInv'
    <2>1. /\ UNCHANGED <<configs, usedIDs, strategies, id2Strategies, loaded>>
          /\ waiting' = [waiting EXCEPT ![q] = {}]
        BY <1>6 DEF Limits!Limit
    <2>2. waiting' \in [Requests -> SUBSET (Names \X Resources)]  BY <2>1 DEF LimitsInv
    <2>3. CASE limiters' = limiters  BY <1>a, <2>1, <2>2, <2>3, LimitersChange
    <2>4. ASSUME NEW l \in waiting[q], l[1] \in DOMAIN strategies,
                 strategies[l[1]].LimitOptions[l[2]] # NoRule,
                 limiters' = Limits!With(limiters, l, strategies[l[1]].LimitOptions[l[2]])
          PROVE  LimitsInv'
      <3>1. l \in Names \X Resources  BY <2>4 DEF LimitsInv
      <3>2. PICK rule \in Limits!Rules : rule = strategies[l[1]].LimitOptions[l[2]]
        <4>1. strategies[l[1]] \in Strategies  BY <1>a, <2>4, PartialIs
        <4> QED  BY <3>1, <4>1, RulesOf
      <3>3. /\ limiters' \in Partial(Names \X Resources, Limits!Rules)
            /\ DOMAIN limiters' = DOMAIN limiters \cup {l} /\ limiters'[l] = rule
            /\ \A k \in DOMAIN limiters : k # l => limiters'[k] = limiters[k]
        <4>1. PICK f : f = limiters  OBVIOUS
        <4>2. PICK g : g = Limits!With(f, l, rule)  OBVIOUS
        <4>3. g \in Partial(Names \X Resources, Limits!Rules)
            BY <1>a, <3>1, <4>1, <4>2, WithIs
        <4>4. /\ DOMAIN g = DOMAIN f \cup {l} /\ g[l] = rule
              /\ \A k \in DOMAIN f : k # l => g[k] = f[k]
            BY <4>2 DEF Limits!With
        <4>5. limiters' = g  BY <2>4, <3>2, <4>1, <4>2
        <4> QED  BY <4>1, <4>3, <4>4, <4>5
      <3> QED  BY <1>a, <2>1, <2>2, <2>4, <3>2, <3>3, LimitersChange
    <2> QED  BY <1>6, <2>3, <2>4 DEF Limits!Limit
  <1> QED  BY <1>1, <1>2, <1>3, <1>4, <1>5, <1>6 DEF Limits!Next

LEMMA LimitsNextInv == ASSUME ~CanRename PROVE LimitsInv /\ [Next]_vars => LimitsInv'
  <1> SUFFICES ASSUME LimitsInv, [Next]_vars PROVE LimitsInv'  OBVIOUS
  <1>1. CASE Limits!Next  BY <1>1, LimitsStep
  <1>2. CASE UNCHANGED limitsVars
    <2>1. UNCHANGED <<configs, usedIDs, strategies, id2Strategies, limiters, loaded, waiting>>
        BY <1>2 DEF limitsVars
    <2>2. FactoryOK(Limits!Factory)'  BY <2>1, FactoryStays
    <2> QED  BY <2>1, <2>2 DEF LimitsInv, ConfigsOK, LoadedOK, RowsOK, Named
  <1> QED  BY <1>1, <1>2, StepOfLimits

\* The strategies by name, those by id and the limiters fit together, in whatever order
\* the strategies of a reload are taken, and whatever requests and edits come between.
THEOREM LimitsInvariance == ASSUME ~CanRename PROVE Spec => []LimitsInv
  BY LimitsInitInv, LimitsNextInv, PTL DEF Spec

\* A limiter limits by the rule its strategy has, and a strategy is the same by its name
\* and by its id, as long as no strategy is renamed.
THEOREM LimitersFollow == ASSUME ~CanRename PROVE Spec => []LimitersCurrent
  <1>1. LimitsInv => LimitersCurrent
    <2> SUFFICES ASSUME LimitsInv PROVE LimitersCurrent  OBVIOUS
    <2>1. Limits!LimitersCurrent
        BY DEF LimitsInv, FactoryOK, Current, Limits!Factory, Limits!LimitersCurrent
    <2>2. /\ \A m \in DOMAIN strategies :
                \E i \in DOMAIN id2Strategies : id2Strategies[i] = strategies[m]
          /\ \A i \in DOMAIN id2Strategies :
                \E m \in DOMAIN strategies : strategies[m] = id2Strategies[i]
        BY DEF LimitsInv, FactoryOK, Agree, Limits!Factory
    <2>3. Limits!NamesAgree  BY <2>2 DEF Limits!NamesAgree, Limits!Range
    <2> QED  BY <2>1, <2>3 DEF LimitersCurrent
  <1> QED  BY <1>1, LimitsInvariance, PTL

-----------------------------------------------------------------------------
(* The lists, page after page.                                              *)

Stored == [owner : Owners, block : Nat, rank : 1..2]

\* The rows are numbered on from the first, and their blocks have a last one.
RowsIn(r) ==
    /\ \E n \in Nat : r \in [FirstIndex..(FirstIndex + n - 1) -> Stored]
    /\ \E top \in Nat : \A i \in DOMAIN r : r[i].block <= top

ByBlock == {"rewards", "da rewards", "miners"}
ByRank == {"da submits", "da submits of tx"}
OfTx == {"submits of tx", "da submits of tx"}
OfOwner == {"address submits", "address rewards"}

\* The rows a query is about and some page holds, and what they are ordered by.
AskedIn(r, q) ==
    {i \in DOMAIN r :
        /\ q.list \in OfTx \cup {"address submits of tx"} => r[i].block = q.block
        /\ q.list \in OfOwner \cup {"address submits of tx"} => r[i].owner = Address
        /\ i \notin Paging!Overstepped(q)}
KeyIn(r, q) ==
    [i \in AskedIn(r, q) |->
        IF q.list \in ByBlock THEN r[i].block
        ELSE IF q.list \in ByRank THEN r[i].block * (MaxRows + 1) + r[i].rank ELSE i]
DescOf(q) == q.desc \/ q.list = "address submits"
Listed(o, r, q) == IsOrder(o, AskedIn(r, q), KeyIn(r, q), DescOf(q))

LEMMA PagingConstants ==
    /\ FirstIndex \in {0, 1} /\ FirstIndex \in Nat /\ MaxRows \in Nat /\ PageSize \in Nat \ {0}
    /\ Address \in Owners /\ (\E o \in Owners : o # Address) /\ Lists \subseteq Paging!AllLists
  BY ServicesAssumption DEF ServicesAssumption, Paging!ConstantsOK

LEMMA PagingLibrary ==
    /\ \A S : Paging!Cardinality(S) = Cardinality(S) /\ Paging!Max(S) = Max(S)
    /\ \A f : Paging!Range(f) = {f[x] : x \in DOMAIN f}
  BY DEF Paging!Cardinality, Cardinality, Paging!Max, Max, Paging!Range

LEMMA NoDomain == ASSUME NEW s, s = <<>> PROVE DOMAIN s = {}
  OBVIOUS

LEMMA NoFunction == ASSUME NEW f, f = [i \in {} |-> f[i]] PROVE f = <<>>
  OBVIOUS

LEMMA RowsFinite ==
    ASSUME NEW r, RowsIn(r), NEW q
    PROVE  /\ IsFiniteSet(DOMAIN r) /\ DOMAIN r \subseteq Nat
           /\ AskedIn(r, q) \subseteq DOMAIN r /\ IsFiniteSet(AskedIn(r, q))
           /\ \A i \in DOMAIN r : r[i] \in Stored
  <1>1. PICK n \in Nat : r \in [FirstIndex..(FirstIndex + n - 1) -> Stored]  BY DEF RowsIn
  <1>2. IsFiniteSet(DOMAIN r)  BY <1>1, PagingConstants, FS_Interval
  <1>3. AskedIn(r, q) \subseteq DOMAIN r  BY DEF AskedIn
  <1> QED  BY <1>1, <1>2, <1>3, PagingConstants, FS_Subset

LEMMA KeysInt ==
    ASSUME NEW r, RowsIn(r), NEW q
    PROVE  KeyIn(r, q) \in [AskedIn(r, q) -> Int]
  <1>1. ASSUME NEW i \in AskedIn(r, q)
        PROVE  /\ i \in Int /\ r[i].block \in Int
               /\ r[i].block * (MaxRows + 1) + r[i].rank \in Int
    <2>1. i \in Nat /\ r[i] \in Stored  BY RowsFinite
    <2>2. r[i].block \in Nat /\ r[i].rank \in 1..2  BY <2>1 DEF Stored
    <2> QED  BY <2>1, <2>2, PagingConstants
  <1> QED  BY <1>1 DEF KeyIn

\* A page is a part of an order of n rows: the len rows from one on.
IsPart(o, n, from, len) ==
    /\ Paging!Part(o, from) = [k \in 1..len |-> o[from + k]]
    /\ len <= PageSize /\ (len > 0 => from + len <= n)
    /\ from + len = n \/ len = PageSize \/ (from >= n /\ len = 0)

LEMMA PartIs ==
    ASSUME NEW S, NEW n \in Nat, NEW o \in [1..n -> S], NEW from \in Nat
    PROVE  \E len \in Nat : IsPart(o, n, from, len)
  <1>1. o \in Seq(S) /\ Len(o) = n  OBVIOUS
  <1>2. PICK m : m = Paging!Min({from + PageSize, n})  OBVIOUS
  <1>3. m = IF from + PageSize <= n THEN from + PageSize ELSE n
    <2>1. \E x \in {from + PageSize, n} : \A y \in {from + PageSize, n} : x <= y
        BY PagingConstants
    <2>2. m \in {from + PageSize, n} /\ \A y \in {from + PageSize, n} : m <= y
        BY <1>2, <2>1 DEF Paging!Min
    <2> QED  BY <2>2, PagingConstants
  <1>4. Paging!Part(o, from) = SubSeq(o, from + 1, m)  BY <1>1, <1>2 DEF Paging!Part
  <1>5. m \in Nat  BY <1>3, PagingConstants
  <1>6. SubSeq(o, from + 1, m) = [k \in 1..(1 + m - (from + 1)) |-> o[k + (from + 1) - 1]]
      BY <1>1, <1>3, <1>5
  <1> DEFINE len == IF from < m THEN m - from ELSE 0
  <1>7. len \in Nat  BY <1>5
  <1>8. 1..(1 + m - (from + 1)) = 1..len  BY <1>5
  <1>9. \A k \in 1..len : k + (from + 1) - 1 = from + k  BY <1>5
  <1>10. Paging!Part(o, from) = [k \in 1..len |-> o[from + k]]
      BY <1>4, <1>6, <1>8, <1>9
  <1>11. /\ len <= PageSize /\ (len > 0 => from + len <= n)
         /\ (from + len = n \/ len = PageSize \/ (from >= n /\ len = 0))
      BY <1>3, <1>5, PagingConstants
  <1> HIDE DEF len
  <1> QED  BY <1>7, <1>10, <1>11 DEF IsPart

\* The orders the lists are sorted by.
LEMMA SortedByIndex ==
    ASSUME NEW S, IsFiniteSet(S), NEW desc \in BOOLEAN, NEW o \in Paging!Sorted(S, Paging!IndexOf, desc)
    PROVE  IsOrder(o, S, [i \in S |-> i], desc)
  <1>1. PICK n \in Nat : n = Cardinality(S)  BY FS_CardinalityType
  <1>2. o \in [1..n -> S] /\ \A k, m \in 1..n : k # m => o[k] # o[m]
      BY <1>1, PagingLibrary DEF Paging!Sorted, Paging!SetToSeqs
  <1>3. Len(o) = n  BY <1>2
  <1>4. \A k \in 1..(n - 1) : o[k] \in S /\ o[k + 1] \in S  BY <1>2
  <1>5. \A k \in 1..(Len(o) - 1) : IF desc THEN o[k] >= o[k + 1] ELSE o[k] <= o[k + 1]
      BY DEF Paging!Sorted, Paging!IndexOf
  <1> QED  BY <1>1, <1>2, <1>3, <1>4, <1>5 DEF IsOrder

LEMMA SortedByBlock ==
    ASSUME NEW S, IsFiniteSet(S), NEW desc \in BOOLEAN, NEW o \in Paging!Sorted(S, Paging!BlockOf, desc)
    PROVE  IsOrder(o, S, [i \in S |-> rows[i].block], desc)
  <1>1. PICK n \in Nat : n = Cardinality(S)  BY FS_CardinalityType
  <1>2. o \in [1..n -> S] /\ \A k, m \in 1..n : k # m => o[k] # o[m]
      BY <1>1, PagingLibrary DEF Paging!Sorted, Paging!SetToSeqs
  <1>3. Len(o) = n  BY <1>2
  <1>4. \A k \in 1..(n - 1) : o[k] \in S /\ o[k + 1] \in S  BY <1>2
  <1>5. \A k \in 1..(Len(o) - 1) :
           IF desc THEN rows[o[k]].block >= rows[o[k + 1]].block ELSE rows[o[k]].block <= rows[o[k + 1]].block
      BY DEF Paging!Sorted, Paging!BlockOf
  <1> QED  BY <1>1, <1>2, <1>3, <1>4, <1>5 DEF IsOrder

RankOf(i) == rows[i].block * (MaxRows + 1) + rows[i].rank

LEMMA SortedByRank ==
    ASSUME NEW S, IsFiniteSet(S), NEW desc \in BOOLEAN, NEW o \in Paging!Sorted(S, Paging!RankOf, desc)
    PROVE  IsOrder(o, S, [i \in S |-> RankOf(i)], desc)
  <1>1. PICK n \in Nat : n = Cardinality(S)  BY FS_CardinalityType
  <1>2. o \in [1..n -> S] /\ \A k, m \in 1..n : k # m => o[k] # o[m]
      BY <1>1, PagingLibrary DEF Paging!Sorted, Paging!SetToSeqs
  <1>3. Len(o) = n  BY <1>2
  <1>4. \A k \in 1..(n - 1) : o[k] \in S /\ o[k + 1] \in S  BY <1>2
  <1>5. \A k \in 1..(Len(o) - 1) :
           IF desc THEN RankOf(o[k]) >= RankOf(o[k + 1]) ELSE RankOf(o[k]) <= RankOf(o[k + 1])
      BY DEF Paging!Sorted, Paging!RankOf, RankOf
  <1> QED  BY <1>1, <1>2, <1>3, <1>4, <1>5 DEF IsOrder

\* A page as the store returns it: a part of an order.  A page of all submissions in
\* descending order, behind the first one, holds what is below the greatest index that was
\* read, whatever was added since.
OrderedPage(l) == \E o : Listed(o, rows, query) /\ l = Paging!Part(o, skip)
TakenByIndex == query.list = "submits" /\ query.desc /\ skip > 0
IndexPage(l) ==
    \A i \in AskedIn(rows, query) :
        i <= total - skip /\ i > total - skip - PageSize => \E k \in DOMAIN l : l[k] = i
IsList(l) == \E len \in Nat : l \in [1..len -> AskedIn(rows, query)]
StorePage(l) ==
    /\ IsList(l)
    /\ TakenByIndex => IndexPage(l)
    /\ still \/ ~TakenByIndex => OrderedPage(l)

LEMMA OrderedIsList ==
    ASSUME RowsIn(rows), skip \in Nat, NEW l, OrderedPage(l)
    PROVE  IsList(l)
  <1> DEFINE S == AskedIn(rows, query)
  <1>1. PICK o : Listed(o, rows, query) /\ l = Paging!Part(o, skip)  BY DEF OrderedPage
  <1>2. PICK n \in Nat : n = Cardinality(S)  BY RowsFinite, FS_CardinalityType
  <1>3. o \in [1..n -> S]  BY <1>1, <1>2 DEF Listed, IsOrder
  <1>4. PICK len \in Nat : IsPart(o, n, skip, len)  BY <1>3, PartIs
  <1>5. l = [k \in 1..len |-> o[skip + k]]  BY <1>1, <1>4 DEF IsPart
  <1>6. \A k \in 1..len : skip + k \in 1..n  BY <1>4 DEF IsPart
  <1> QED  BY <1>3, <1>5, <1>6 DEF IsList

\* The lists that the database sorts and counts.
PartOf(p, S, key, desc) == \E o : IsOrder(o, S, key, desc) /\ p = Paging!Part(o, skip)
ByIndexPart(p, S, desc) == PartOf(p, S, [i \in S |-> i], desc)
ByBlockPart(p, S, desc) == PartOf(p, S, [i \in S |-> rows[i].block], desc)
ByRankPart(p, S, desc) == PartOf(p, S, [i \in S |-> RankOf(i)], desc)

LEMMA ListedByIndex ==
    ASSUME NEW S, IsFiniteSet(S), NEW desc \in BOOLEAN,
           NEW p \in Paging!ListByOrder(S, Paging!IndexOf, desc).pages
    PROVE  ByIndexPart(p, S, desc)
  <1>1. PICK o \in Paging!Sorted(S, Paging!IndexOf, desc) : p = Paging!Part(o, skip)
      BY DEF Paging!ListByOrder
  <1>2. IsOrder(o, S, [i \in S |-> i], desc)  BY <1>1, SortedByIndex
  <1> QED  BY <1>1, <1>2 DEF ByIndexPart, PartOf

LEMMA ListedByBlock ==
    ASSUME NEW S, IsFiniteSet(S), NEW desc \in BOOLEAN,
           NEW p \in Paging!ListByOrder(S, Paging!BlockOf, desc).pages
    PROVE  ByBlockPart(p, S, desc)
  <1>1. PICK o \in Paging!Sorted(S, Paging!BlockOf, desc) : p = Paging!Part(o, skip)
      BY DEF Paging!ListByOrder
  <1>2. IsOrder(o, S, [i \in S |-> rows[i].block], desc)  BY <1>1, SortedByBlock
  <1> QED  BY <1>1, <1>2 DEF ByBlockPart, PartOf

LEMMA ListedByRank ==
    ASSUME NEW S, IsFiniteSet(S), NEW desc \in BOOLEAN,
           NEW p \in Paging!ListByOrder(S, Paging!RankOf, desc).pages
    PROVE  ByRankPart(p, S, desc)
  <1>1. PICK o \in Paging!Sorted(S, Paging!RankOf, desc) : p = Paging!Part(o, skip)
      BY DEF Paging!ListByOrder
  <1>2. IsOrder(o, S, [i \in S |-> RankOf(i)], desc)  BY <1>1, SortedByRank
  <1> QED  BY <1>1, <1>2 DEF ByRankPart, PartOf

LEMMA AskedOf ==
    /\ query.list \in OfTx => AskedIn(rows, query) = Paging!OfBlock(query.block)
    /\ query.list \in OfOwner => AskedIn(rows, query) = Paging!OfAddress
    /\ query.list = "address submits of tx" =>
          AskedIn(rows, query) = Paging!OfAddress \cap Paging!OfBlock(query.block)
    /\ query.list \notin OfTx \cup OfOwner \cup {"address submits of tx", "submits"} =>
          AskedIn(rows, query) = DOMAIN rows
    /\ query.list = "submits" =>
          AskedIn(rows, query) = DOMAIN rows \ Paging!Overstepped(query)
    /\ AskedIn(rows, query) = Paging!Asked(query) \ Paging!Overstepped(query)
  <1>0. query.list # "submits" => Paging!Overstepped(query) = {}  BY DEF Paging!Overstepped
  <1>1. query.list \in OfTx => AskedIn(rows, query) = Paging!OfBlock(query.block)
      BY <1>0 DEF OfTx, OfOwner, AskedIn, Paging!OfBlock
  <1>2. query.list \in OfOwner => AskedIn(rows, query) = Paging!OfAddress
      BY <1>0 DEF OfTx, OfOwner, AskedIn, Paging!OfAddress
  <1>3. query.list = "address submits of tx" =>
          AskedIn(rows, query) = Paging!OfAddress \cap Paging!OfBlock(query.block)
      BY <1>0 DEF OfTx, OfOwner, AskedIn, Paging!OfAddress, Paging!OfBlock
  <1>4. query.list \notin OfTx \cup OfOwner \cup {"address submits of tx", "submits"} =>
          AskedIn(rows, query) = DOMAIN rows
      BY <1>0 DEF OfTx, OfOwner, AskedIn
  <1>5. query.list = "submits" =>
          AskedIn(rows, query) = DOMAIN rows \ Paging!Overstepped(query)
      BY DEF OfTx, OfOwner, AskedIn
  <1>6. AskedIn(rows, query) = Paging!Asked(query) \ Paging!Overstepped(query)
      BY <1>0, <1>1, <1>2, <1>3, <1>4, <1>5 DEF Paging!Asked, OfTx, OfOwner
  <1> QED  BY <1>1, <1>2, <1>3, <1>4, <1>5, <1>6

LEMMA KeyIs ==
    /\ query.list \in ByBlock =>
          KeyIn(rows, query) = [i \in AskedIn(rows, query) |-> rows[i].block]
    /\ query.list \in ByRank =>
          KeyIn(rows, query) = [i \in AskedIn(rows, query) |-> RankOf(i)]
    /\ query.list \notin ByBlock \cup ByRank =>
          KeyIn(rows, query) = [i \in AskedIn(rows, query) |-> i]
  BY DEF KeyIn, ByBlock, ByRank, RankOf

\* The rows of S one by one, by index.
Running(o, n, S, d) ==
    /\ o \in [1..n -> S] /\ S \subseteq Int
    /\ \A k, m \in 1..n : k # m => o[k] # o[m]
    /\ \A k \in 1..(n - 1) : IF d THEN o[k] >= o[k + 1] ELSE o[k] <= o[k + 1]

IndexKey(S) == [i \in S |-> i]

LEMMA RunningIsOrder ==
    ASSUME NEW S, NEW n \in Nat, Cardinality(S) = n, NEW d \in BOOLEAN, NEW o, Running(o, n, S, d)
    PROVE  IsOrder(o, S, IndexKey(S), d)
  <1>1. \A k \in 1..(n - 1) : o[k] \in S /\ o[k + 1] \in S  BY DEF Running
  <1> QED  BY <1>1 DEF Running, IsOrder, IndexKey

LEMMA IndexUntied ==
    ASSUME NEW S, S \subseteq Int
    PROVE  IndexKey(S) \in [S -> Int] /\ \A i \in S : Untied(S, IndexKey(S), i)
  BY DEF Untied, IndexKey

LEMMA RunningUnique ==
    ASSUME NEW S, IsFiniteSet(S), NEW n \in Nat, Cardinality(S) = n, NEW d \in BOOLEAN,
           NEW o, IsOrder(o, S, IndexKey(S), d), NEW u, Running(u, n, S, d)
    PROVE  o = u
  <1>1. S \subseteq Int  BY DEF Running
  <1>2. IndexKey(S) \in [S -> Int] /\ \A i \in S : Untied(S, IndexKey(S), i)  BY <1>1, IndexUntied
  <1>3. IsOrder(u, S, IndexKey(S), d)  BY RunningIsOrder
  <1> QED  BY <1>2, <1>3, OrderUnique

LEMMA SortedIs ==
    ASSUME NEW S, IsFiniteSet(S), NEW desc \in BOOLEAN, NEW o \in Paging!Sorted(S, Paging!IndexOf, desc)
    PROVE  IsOrder(o, S, IndexKey(S), desc)
  BY SortedByIndex DEF IndexKey

\* What is behind some rows of an order is an order of what is left.
TailOf(all, n, from, left, U) ==
    /\ left \in Nat /\ left = (IF from < n THEN n - from ELSE 0)
    /\ IsFiniteSet(U) /\ Cardinality(U) = left /\ U \subseteq Int
    /\ \A k \in 1..left : all[from + k] \in U

LEMMA TailIs ==
    ASSUME NEW S, NEW n \in Nat, NEW d \in BOOLEAN, NEW all, Running(all, n, S, d),
           NEW from \in Nat, NEW left, NEW U, TailOf(all, n, from, left, U),
           NEW o, IsOrder(o, U, IndexKey(U), d)
    PROVE  Paging!Part(o, 0) = Paging!Part(all, from)
  <1> USE DEF TailOf
  <1> DEFINE u == [k \in 1..left |-> all[from + k]]
  <1>0. \A k \in 1..left : from + k \in 1..n  OBVIOUS
  <1>1. Running(u, left, U, d)
    <2>1. u \in [1..left -> U]  OBVIOUS
    <2>2. \A k, m \in 1..left : k # m => u[k] # u[m]
      <3>1. \A k, m \in 1..left : k # m => from + k # from + m  OBVIOUS
      <3> QED  BY <1>0, <3>1 DEF Running
    <2>3. \A k \in 1..(left - 1) : IF d THEN u[k] >= u[k + 1] ELSE u[k] <= u[k + 1]
      <3> SUFFICES ASSUME NEW k \in 1..(left - 1)
                   PROVE  IF d THEN u[k] >= u[k + 1] ELSE u[k] <= u[k + 1]
          OBVIOUS
      <3>1. /\ from + k \in 1..(n - 1) /\ (from + k) + 1 = from + (k + 1)
            /\ k \in 1..left /\ k + 1 \in 1..left
          OBVIOUS
      <3>2. u[k] = all[from + k] /\ u[k + 1] = all[from + (k + 1)]  BY <3>1
      <3>3. IF d THEN all[from + k] >= all[(from + k) + 1] ELSE all[from + k] <= all[(from + k) + 1]
          BY <3>1 DEF Running
      <3> HIDE DEF u
      <3> QED  BY <3>1, <3>2, <3>3
    <2> HIDE DEF u
    <2> QED  BY <2>1, <2>2, <2>3 DEF Running
  <1>2. u \in [1..left -> S] /\ all \in [1..n -> S]  BY <1>0 DEF Running
  <1>3. \A k \in 1..left : u[k] = all[from + k]  OBVIOUS
  <1> HIDE DEF u
  <1>4. o = u  BY <1>1, RunningUnique
  <1>5. PICK a \in Nat : IsPart(u, left, 0, a)  BY <1>2, PartIs
  <1>6. PICK b \in Nat : IsPart(all, n, from, b)  BY <1>2, PartIs
  <1>7. a = b /\ a <= left  BY <1>5, <1>6, PagingConstants DEF IsPart
  <1>8. ASSUME NEW k \in 1..a PROVE u[0 + k] = all[from + k]
    <2>1. k \in 1..left /\ 0 + k = k  BY <1>7
    <2> QED  BY <1>3, <2>1
  <1> QED  BY <1>4, <1>5, <1>6, <1>7, <1>8 DEF IsPart

\* Two orders that begin with the same rows, a page of them.
StartAlike(o, m, all, n) ==
    /\ m \in Nat /\ n \in Nat /\ (\E S : all \in [1..n -> S]) /\ (\E S : o \in [1..m -> S])
    /\ m = n \/ (PageSize <= m /\ PageSize <= n)
    /\ \A k \in 1..PageSize : k <= m /\ k <= n => o[k] = all[k]

LEMMA SameStart ==
    ASSUME NEW o, NEW m, NEW all, NEW n, StartAlike(o, m, all, n)
    PROVE  Paging!Part(o, 0) = Paging!Part(all, 0)
  <1> USE DEF StartAlike
  <1>0. PICK S, T : all \in [1..n -> S] /\ o \in [1..m -> T] /\ m \in Nat /\ n \in Nat  OBVIOUS
  <1>1. PICK a \in Nat : IsPart(o, m, 0, a)  BY <1>0, PartIs
  <1>2. PICK b \in Nat : IsPart(all, n, 0, b)  BY <1>0, PartIs
  <1>3. a = b /\ a <= PageSize /\ a <= n /\ a <= m  BY <1>0, <1>1, <1>2, PagingConstants DEF IsPart
  <1>4. \A k \in 1..a : o[0 + k] = all[0 + k]
    <2> SUFFICES ASSUME NEW k \in 1..a PROVE o[0 + k] = all[0 + k]  OBVIOUS
    <2>1. k \in 1..PageSize /\ k <= n /\ k <= m /\ 0 + k = k  BY <1>3, PagingConstants
    <2> QED  BY <2>1
  <1> QED  BY <1>1, <1>2, <1>3, <1>4 DEF IsPart

\* The rows that pages of all submissions hold, of the n there are: in ascending order
\* the first ones, and those behind the one that is overstepped.
Numbers(n) == FirstIndex..(FirstIndex + n - 1)
Lost(n) == FirstIndex = 0 /\ n > PageSize
Held(n) == Numbers(n) \ (IF FirstIndex = 0 THEN {PageSize} ELSE {})
HeldCount(n) == IF Lost(n) THEN n - 1 ELSE n
Upwards(n) == [k \in 1..HeldCount(n) |-> IF FirstIndex = 0 /\ k <= PageSize THEN k - 1 ELSE k]
Downwards(n) == [k \in 1..n |-> FirstIndex + n - k]

LEMMA NumbersFinite ==
    ASSUME NEW n \in Nat
    PROVE  IsFiniteSet(Numbers(n)) /\ Cardinality(Numbers(n)) = n /\ Numbers(n) \subseteq Int
  <1>1. PICK f \in Nat : f = FirstIndex  BY PagingConstants
  <1>2. f + n - 1 \in Int /\ (f + n - 1) - f + 1 = n /\ (f > f + n - 1 => n = 0)  OBVIOUS
  <1>3. IsFiniteSet(f..(f + n - 1)) /\ Cardinality(f..(f + n - 1)) = n  BY <1>2, FS_Interval
  <1>4. f..(f + n - 1) \subseteq Int  OBVIOUS
  <1> QED  BY <1>1, <1>3, <1>4 DEF Numbers

LEMMA Ascending ==
    ASSUME NEW n \in Nat
    PROVE  /\ HeldCount(n) \in Nat /\ IsFiniteSet(Held(n)) /\ Cardinality(Held(n)) = HeldCount(n)
           /\ Running(Upwards(n), HeldCount(n), Held(n), FALSE)
  <1>0. PICK f \in Nat, P \in Nat : f = FirstIndex /\ (f = 0 \/ f = 1) /\ P = PageSize /\ P # 0
      BY PagingConstants
  <1>1. PICK m : m = HeldCount(n)  OBVIOUS
  <1>2. m \in Nat /\ m = IF f = 0 /\ n > P THEN n - 1 ELSE n  BY <1>0, <1>1 DEF HeldCount, Lost
  <1>3. PICK S : S = Held(n)  OBVIOUS
  <1>4. S = (f..(f + n - 1)) \ (IF f = 0 THEN {P} ELSE {})  BY <1>0, <1>3 DEF Held, Numbers
  <1>5. PICK all : all = Upwards(n)  OBVIOUS
  <1>6. all = [k \in 1..m |-> IF f = 0 /\ k <= P THEN k - 1 ELSE k]
      BY <1>0, <1>1, <1>5 DEF Upwards
  <1>7. IsFiniteSet(S) /\ Cardinality(S) = m
    <2>1. IsFiniteSet(Numbers(n)) /\ Cardinality(Numbers(n)) = n  BY NumbersFinite
    <2>2. CASE f = 0 /\ n > P
      <3>1. PageSize \in Numbers(n) /\ S = Numbers(n) \ {PageSize} /\ m = n - 1
          BY <1>0, <1>2, <1>4, <2>2 DEF Numbers
      <3> QED  BY <2>1, <3>1, FS_RemoveElement
    <2>3. CASE ~(f = 0 /\ n > P)
      <3>1. S = Numbers(n)  BY <1>0, <1>4, <2>3 DEF Numbers
      <3> QED  BY <1>2, <2>1, <2>3, <3>1
    <2> QED  BY <2>2, <2>3
  <1>8. \A k \in 1..m : all[k] = IF f = 0 /\ k <= P THEN k - 1 ELSE k  BY <1>6
  <1>9. all \in [1..m -> S]
    <2> SUFFICES ASSUME NEW k \in 1..m PROVE (IF f = 0 /\ k <= P THEN k - 1 ELSE k) \in S
        BY <1>6
    <2> QED  BY <1>0, <1>2, <1>4
  <1>10. \A k, l \in 1..m : k # l => all[k] # all[l]  BY <1>2, <1>8
  <1>11. \A k \in 1..(m - 1) : all[k] <= all[k + 1]
    <2> SUFFICES ASSUME NEW k \in 1..(m - 1) PROVE all[k] <= all[k + 1]  OBVIOUS
    <2>1. k \in 1..m /\ k + 1 \in 1..m  BY <1>2
    <2>2. /\ all[k] = IF f = 0 /\ k <= P THEN k - 1 ELSE k
          /\ all[k + 1] = IF f = 0 /\ k + 1 <= P THEN (k + 1) - 1 ELSE k + 1
        BY <1>8, <2>1
    <2> QED  BY <2>1, <2>2
  <1>12. S \subseteq Int  BY <1>4
  <1>13. Running(all, m, S, FALSE)  BY <1>9, <1>10, <1>11, <1>12 DEF Running
  <1> QED  BY <1>1, <1>2, <1>3, <1>5, <1>7, <1>13

LEMMA Descending ==
    ASSUME NEW n \in Nat
    PROVE  Running(Downwards(n), n, Numbers(n), TRUE)
  <1>0. PICK f \in Nat : f = FirstIndex  BY PagingConstants
  <1>1. PICK all : all = Downwards(n)  OBVIOUS
  <1>2. all = [k \in 1..n |-> f + n - k]  BY <1>0, <1>1 DEF Downwards
  <1>3. Numbers(n) = f..(f + n - 1)  BY <1>0 DEF Numbers
  <1>4. \A k \in 1..n : f + n - k \in f..(f + n - 1)  OBVIOUS
  <1>5. all \in [1..n -> Numbers(n)]  BY <1>2, <1>3, <1>4
  <1>6. \A k \in 1..n : all[k] = f + n - k  BY <1>2
  <1>7. \A k, l \in 1..n : k # l => all[k] # all[l]  BY <1>6
  <1>8. \A k \in 1..(n - 1) : all[k] >= all[k + 1]
    <2> SUFFICES ASSUME NEW k \in 1..(n - 1) PROVE all[k] >= all[k + 1]  OBVIOUS
    <2>1. k \in 1..n /\ k + 1 \in 1..n  OBVIOUS
    <2> QED  BY <1>6, <2>1
  <1>9. Numbers(n) \subseteq Int  BY <1>3
  <1> QED  BY <1>1, <1>5, <1>7, <1>8, <1>9 DEF Running

\* What a request for all submissions knows behind its first query.
TotalRead ==
    query.list = "submits" => total \in DOMAIN rows /\ (still => \A i \in DOMAIN rows : i <= total)
SkipOK == skip = 0 \/ skip >= PageSize

LEMMA RowNumbers ==
    ASSUME RowsIn(rows), query.list = "submits"
    PROVE  \E n \in Nat : /\ DOMAIN rows = Numbers(n)
                          /\ AskedIn(rows, query) = IF query.desc THEN Numbers(n) ELSE Held(n)
                          /\ KeyIn(rows, query) = [i \in AskedIn(rows, query) |-> i]
  <1>1. PICK n \in Nat : DOMAIN rows = Numbers(n)  BY DEF RowsIn, Numbers
  <1>2. AskedIn(rows, query) = Numbers(n) \ Paging!Overstepped(query)  BY <1>1, AskedOf
  <1>3. AskedIn(rows, query) = IF query.desc THEN Numbers(n) ELSE Held(n)
      BY <1>2 DEF Paging!Overstepped, Held
  <1>4. KeyIn(rows, query) = [i \in AskedIn(rows, query) |-> i]  BY KeyIs DEF ByBlock, ByRank
  <1> QED  BY <1>1, <1>3, <1>4

\* Pages of all submissions: in ascending order, of an order of what is held.
LEMMA AscendingPage ==
    ASSUME RowsIn(rows), skip \in Nat, SkipOK, query.list = "submits", query.desc = FALSE,
           NEW p \in Paging!ListAllSubmits(query.desc).pages
    PROVE  OrderedPage(p)
  <1>0. PICK f \in Nat, P \in Nat, from \in Nat :
           /\ f = FirstIndex /\ (f = 0 \/ f = 1) /\ P = PageSize /\ P # 0
           /\ from = skip /\ (from = 0 \/ from >= P)
      BY PagingConstants DEF SkipOK
  <1>d. PICK d \in BOOLEAN : d = FALSE  OBVIOUS
  <1>1. PICK n \in Nat : /\ DOMAIN rows = Numbers(n) /\ AskedIn(rows, query) = Held(n)
                         /\ KeyIn(rows, query) = [i \in AskedIn(rows, query) |-> i]
      BY RowNumbers
  <1>a. PICK all : all = Upwards(n)  OBVIOUS
  <1>b. PICK m : m = HeldCount(n)  OBVIOUS
  <1>2. /\ all = Upwards(n) /\ m = HeldCount(n) /\ m \in Nat
        /\ Running(all, m, Held(n), d) /\ Cardinality(Held(n)) = m /\ IsFiniteSet(Held(n))
      BY <1>a, <1>b, <1>d, Ascending
  <1>3. m \in Nat /\ m = IF f = 0 /\ n > P THEN n - 1 ELSE n  BY <1>0, <1>2 DEF HeldCount, Lost
  <1>4. \A k \in 1..m : all[k] = IF f = 0 /\ k <= P THEN k - 1 ELSE k  BY <1>0, <1>2 DEF Upwards
  <1>5. Listed(all, rows, query)
    <2>1. DescOf(query) = FALSE  BY DEF DescOf
    <2>2. IsOrder(all, Held(n), IndexKey(Held(n)), d)  BY <1>2, RunningIsOrder
    <2> QED  BY <1>1, <1>d, <2>1, <2>2 DEF Listed, IndexKey
  <1>6. PICK U : U = Paging!Unskipped(d)  OBVIOUS
  <1>7. PICK o \in Paging!Sorted(U, Paging!IndexOf, d) : p = Paging!Part(o, 0)
    <2>1. p \in Paging!ListAllSubmits(FALSE).pages  BY Zenon
    <2> QED  BY <1>6, <1>d, <2>1 DEF Paging!ListAllSubmits
  <1>9. CASE from = 0
    <2>1. U = Numbers(n)  BY <1>d, <1>0, <1>1, <1>6, <1>9 DEF Paging!Unskipped
    <2>2. IsFiniteSet(U) /\ Cardinality(U) = n /\ U \subseteq Int  BY <2>1, NumbersFinite
    <2>3. PICK w : w = [k \in 1..n |-> f + k - 1]  OBVIOUS
    <2>4. U = f..(f + n - 1)  BY <1>0, <2>1 DEF Numbers
    <2>5. w \in [1..n -> U]
      <3>1. \A k \in 1..n : f + k - 1 \in f..(f + n - 1)  OBVIOUS
      <3> QED  BY <2>3, <2>4, <3>1
    <2>6. Running(w, n, U, d)
      <3>1. \A k \in 1..n : w[k] = f + k - 1  BY <2>3
      <3>2. \A k, l \in 1..n : k # l => w[k] # w[l]  BY <3>1
      <3>3. \A k \in 1..(n - 1) : w[k] <= w[k + 1]
        <4> SUFFICES ASSUME NEW k \in 1..(n - 1) PROVE w[k] <= w[k + 1]  OBVIOUS
        <4>1. k \in 1..n /\ k + 1 \in 1..n  OBVIOUS
        <4> QED  BY <3>1, <4>1
      <3> QED  BY <2>2, <2>5, <3>2, <3>3, <1>d DEF Running
    <2>7. IsOrder(o, U, IndexKey(U), d)  BY <1>7, <2>2, SortedIs
    <2>8. o = w  BY <2>2, <2>6, <2>7, RunningUnique
    <2>9. n = m \/ (P <= n /\ P <= m)  BY <1>0, <1>3
    <2>10. \A k \in 1..P : k <= n /\ k <= m => w[k] = all[k]
      <3> SUFFICES ASSUME NEW k \in 1..P, k <= n, k <= m PROVE w[k] = all[k]  OBVIOUS
      <3>1. k \in 1..n /\ k \in 1..m  OBVIOUS
      <3>2. w[k] = f + k - 1  BY <2>3, <3>1
      <3>3. all[k] = IF f = 0 THEN k - 1 ELSE k  BY <1>4, <3>1
      <3> QED  BY <1>0, <3>2, <3>3
    <2>11. Paging!Part(w, 0) = Paging!Part(all, 0)
      <3>1. all \in [1..m -> Held(n)]  BY <1>2 DEF Running
      <3>2. (\E S : all \in [1..m -> S]) /\ (\E S : w \in [1..n -> S])  BY <2>5, <3>1
      <3>3. StartAlike(w, n, all, m)  BY <1>0, <1>3, <2>9, <2>10, <3>2 DEF StartAlike
      <3> QED  BY <3>3, SameStart
    <2> QED  BY <1>0, <1>5, <1>7, <1>9, <2>8, <2>11 DEF OrderedPage
  <1>10. CASE from # 0
    <2>0. (IF from < m THEN m - from ELSE 0) \in Nat  BY <1>3
    <2>1. PICK left \in Nat : left = IF from < m THEN m - from ELSE 0  BY <2>0
    <2>2. U = (from + 1)..(f + n - 1)
      <3>1. U = {i \in f..(f + n - 1) : i > from}
          BY <1>d, <1>0, <1>1, <1>6, <1>10 DEF Paging!Unskipped, Numbers
      <3>2. {i \in f..(f + n - 1) : i > from} = (from + 1)..(f + n - 1)  BY <1>0, <1>10
      <3> QED  BY <3>1, <3>2
    <2>3. IsFiniteSet(U) /\ Cardinality(U) = left
      <3>1. PICK b \in Int : b = f + n - 1  OBVIOUS
      <3>a. from + 1 \in Int  OBVIOUS
      <3>2. /\ IsFiniteSet((from + 1)..b)
            /\ Cardinality((from + 1)..b) = IF from + 1 > b THEN 0 ELSE b - (from + 1) + 1
          BY <3>a, FS_Interval, Zenon
      <3>3. left = IF from + 1 > b THEN 0 ELSE b - (from + 1) + 1
          BY <1>0, <1>3, <1>10, <2>1, <3>1
      <3> QED  BY <2>2, <3>1, <3>2, <3>3
    <2>4. \A k \in 1..left : all[from + k] \in U
      <3> SUFFICES ASSUME NEW k \in 1..left PROVE all[from + k] \in U  OBVIOUS
      <3>1. from + k \in 1..m /\ ~(from + k <= P)  BY <1>0, <1>3, <1>10, <2>1
      <3>2. all[from + k] = from + k  BY <1>4, <3>1
      <3>3. from + k \in (from + 1)..(f + n - 1)  BY <1>0, <1>3, <3>1
      <3> QED  BY <2>2, <3>2, <3>3
    <2>5. U \subseteq Int  BY <2>2
    <2>6. IsOrder(o, U, IndexKey(U), d)  BY <1>7, <2>3, SortedIs
    <2>7. TailOf(all, m, from, left, U)  BY <2>1, <2>3, <2>4, <2>5 DEF TailOf
    <2>8. Paging!Part(o, 0) = Paging!Part(all, from)  BY <1>2, <2>6, <2>7, TailIs
    <2> QED  BY <1>0, <1>5, <1>7, <2>8 DEF OrderedPage
  <1> QED  BY <1>9, <1>10

\* In descending order, of one of what there is while nothing is added.
LEMMA DescendingPage ==
    ASSUME RowsIn(rows), skip \in Nat, TotalRead, query.list = "submits", query.desc = TRUE,
           still \/ skip = 0, NEW p \in Paging!ListAllSubmits(query.desc).pages
    PROVE  OrderedPage(p)
  <1>0. PICK f \in Nat, from \in Nat : f = FirstIndex /\ from = skip  BY PagingConstants
  <1>d. PICK d \in BOOLEAN : d = TRUE  OBVIOUS
  <1>1. PICK n \in Nat : /\ DOMAIN rows = Numbers(n) /\ AskedIn(rows, query) = Numbers(n)
                         /\ KeyIn(rows, query) = [i \in AskedIn(rows, query) |-> i]
      BY RowNumbers
  <1>2. PICK all : all = Downwards(n) /\ Running(all, n, Numbers(n), d)  BY <1>d, Descending
  <1>3. \A k \in 1..n : all[k] = f + n - k  BY <1>0, <1>2 DEF Downwards
  <1>4. Listed(all, rows, query)
    <2>1. DescOf(query) = TRUE  BY DEF DescOf
    <2>2. IsOrder(all, Numbers(n), IndexKey(Numbers(n)), d)
        BY <1>2, NumbersFinite, RunningIsOrder
    <2> QED  BY <1>1, <1>d, <2>1, <2>2 DEF Listed, IndexKey
  <1>5. PICK U : U = Paging!Unskipped(d)  OBVIOUS
  <1>6. PICK o \in Paging!Sorted(U, Paging!IndexOf, d) : p = Paging!Part(o, 0)
    <2>1. p \in Paging!ListAllSubmits(TRUE).pages  BY Zenon
    <2> QED  BY <1>5, <1>d, <2>1 DEF Paging!ListAllSubmits
  <1>8. DOMAIN rows = f..(f + n - 1)  BY <1>0, <1>1 DEF Numbers
  <1>9. U = f..(f + n - 1 - from)
    <2>1. CASE from = 0
      <3>1. U = DOMAIN rows  BY <1>d, <1>0, <1>5, <2>1 DEF Paging!Unskipped
      <3>2. f + n - 1 - from = f + n - 1  BY <2>1
      <3> QED  BY <1>8, <3>1, <3>2
    <2>2. CASE from # 0
      <3>1. PICK t : t = total /\ t = f + n - 1
        <4>1. PICK t : t = total /\ t \in f..(f + n - 1) /\ \A i \in f..(f + n - 1) : i <= t
            BY <1>0, <1>8, <2>2 DEF TotalRead
        <4>2. f + n - 1 \in f..(f + n - 1)  BY <4>1
        <4> QED  BY <4>1, <4>2
      <3>2. U = {i \in DOMAIN rows : i <= t - from}
          BY <1>d, <1>0, <1>5, <2>2, <3>1 DEF Paging!Unskipped
      <3>3. {i \in f..(f + n - 1) : i <= f + n - 1 - from} = f..(f + n - 1 - from)  OBVIOUS
      <3> QED  BY <1>8, <3>1, <3>2, <3>3
    <2> QED  BY <2>1, <2>2
  <1>10. PICK left \in Nat : left = IF from < n THEN n - from ELSE 0  OBVIOUS
  <1>11. IsFiniteSet(U) /\ Cardinality(U) = left
    <2>1. PICK b \in Int : b = f + n - 1 - from  OBVIOUS
    <2>2. IsFiniteSet(f..b) /\ Cardinality(f..b) = IF f > b THEN 0 ELSE b - f + 1  BY FS_Interval
    <2>3. left = IF f > b THEN 0 ELSE b - f + 1  BY <1>10, <2>1
    <2> QED  BY <1>9, <2>1, <2>2, <2>3
  <1>12. \A k \in 1..left : all[from + k] \in U
    <2> SUFFICES ASSUME NEW k \in 1..left PROVE all[from + k] \in U  OBVIOUS
    <2>1. from + k \in 1..n  BY <1>10
    <2>2. all[from + k] = f + n - (from + k)  BY <1>3, <2>1
    <2>3. f + n - (from + k) \in f..(f + n - 1 - from)  BY <2>1
    <2> QED  BY <1>9, <2>2, <2>3
  <1>13. U \subseteq Int  BY <1>9
  <1>14. IsOrder(o, U, IndexKey(U), d)  BY <1>6, <1>11, SortedIs
  <1>15. Paging!Part(o, 0) = Paging!Part(all, from)
    <2>1. TailOf(all, n, from, left, U)  BY <1>10, <1>11, <1>12, <1>13 DEF TailOf
    <2> QED  BY <1>2, <1>14, <2>1, TailIs
  <1> QED  BY <1>0, <1>4, <1>6, <1>15 DEF OrderedPage

\* Whatever was added behind the total, the page holds what is below it.
LEMMA PageByIndex ==
    ASSUME RowsIn(rows), skip \in Nat, TotalRead, TakenByIndex, query.desc = TRUE,
           NEW p \in Paging!ListAllSubmits(query.desc).pages
    PROVE  IsList(p) /\ IndexPage(p)
  <1>0. PICK f \in Nat, from \in Nat, P \in Nat :
           /\ f = FirstIndex /\ from = skip /\ from > 0 /\ P = PageSize /\ P > 0
      BY PagingConstants DEF TakenByIndex
  <1>d. PICK d \in BOOLEAN : d = TRUE  OBVIOUS
  <1>1. PICK n \in Nat : DOMAIN rows = Numbers(n) /\ AskedIn(rows, query) = Numbers(n)
      BY RowNumbers DEF TakenByIndex
  <1>2. Numbers(n) = f..(f + n - 1)  BY <1>0 DEF Numbers
  <1>3. PICK t : t = total /\ t \in f..(f + n - 1)  BY <1>1, <1>2 DEF TakenByIndex, TotalRead
  <1>4. t \in Nat /\ t - from \in Int  BY <1>3
  <1>5. PICK U : U = Paging!Unskipped(d)  OBVIOUS
  <1>6. PICK o \in Paging!Sorted(U, Paging!IndexOf, d) : p = Paging!Part(o, 0)
    <2>1. p \in Paging!ListAllSubmits(TRUE).pages  BY Zenon
    <2> QED  BY <1>5, <1>d, <2>1 DEF Paging!ListAllSubmits
  <1>7. U = f..(t - from)
    <2>1. U = {i \in DOMAIN rows : i <= t - from}
        BY <1>d, <1>0, <1>3, <1>5 DEF Paging!Unskipped
    <2>2. {i \in f..(f + n - 1) : i <= t - from} = f..(t - from)  BY <1>0, <1>3
    <2> QED  BY <1>1, <1>2, <2>1, <2>2
  <1>8. IsFiniteSet(U)  BY <1>4, <1>7, FS_Interval
  <1>9. U \subseteq Numbers(n) /\ U \subseteq Int
    <2>1. f..(t - from) \subseteq f..(f + n - 1) /\ f..(t - from) \subseteq Int  BY <1>0, <1>3
    <2> QED  BY <1>2, <1>7, <2>1
  <1>10. PICK left \in Nat : left = Cardinality(U)  BY <1>8, FS_CardinalityType
  <1>12. IsOrder(o, U, IndexKey(U), d)  BY <1>6, <1>8, SortedIs
  <1>13. o \in [1..left -> U]  BY <1>10, <1>12 DEF IsOrder
  <1>14. PICK len \in Nat : IsPart(o, left, 0, len)  BY <1>13, PartIs
  <1>15. /\ p = [k \in 1..len |-> o[0 + k]]
         /\ len <= P /\ len <= left /\ (len = left \/ len = P)
      BY <1>0, <1>6, <1>14 DEF IsPart
  <1>16. \A k \in 1..len : 0 + k = k /\ k \in 1..left  BY <1>15
  <1>17. DOMAIN p = 1..len /\ \A k \in 1..len : p[k] = o[k]  BY <1>15, <1>16
  <1>18. IsList(p)
    <2>1. \A k \in 1..len : o[0 + k] \in Numbers(n)  BY <1>9, <1>13, <1>16
    <2>2. p \in [1..len -> Numbers(n)]  BY <1>15, <2>1
    <2> QED  BY <1>1, <2>2 DEF IsList
  <1>19. ASSUME NEW i \in Numbers(n), i <= t - from, i > t - from - P
         PROVE  \E k \in 1..len : p[k] = i
    <2>1. i \in f..(f + n - 1)  BY <1>2
    <2>2. i \in U /\ i \in Int  BY <1>7, <1>19, <2>1
    <2>3. IndexKey(U) \in [U -> Int] /\ \A x \in U : Untied(U, IndexKey(U), x)  BY <1>9, IndexUntied
    <2>4. PICK m \in 1..left : o[m] = i
      <3>1. \E m \in 1..Cardinality(U) : o[m] = i  BY <1>8, <1>12, <2>2, OrderComplete
      <3> QED  BY <1>10, <3>1
    <2>5. Cardinality(Ahead(U, IndexKey(U), d, i)) = m - 1
      <3>1. m \in 1..Cardinality(U) /\ Untied(U, IndexKey(U), o[m])  BY <1>10, <2>2, <2>3, <2>4
      <3>2. Cardinality(Ahead(U, IndexKey(U), d, o[m])) = m - 1
          BY <1>8, <1>12, <2>3, <3>1, OrderPlace
      <3> QED  BY <2>4, <3>2
    <2>6. Ahead(U, IndexKey(U), d, i) = (i + 1)..(t - from)
      <3>1. Ahead(U, IndexKey(U), d, i) = {j \in U : j > i}  BY <1>d, <2>2 DEF Ahead, IndexKey
      <3>2. {j \in f..(t - from) : j > i} = (i + 1)..(t - from)  BY <1>4, <2>1
      <3> QED  BY <1>7, <3>1, <3>2
    <2>7. Cardinality((i + 1)..(t - from)) = IF i + 1 > t - from THEN 0 ELSE (t - from) - (i + 1) + 1
        BY <1>4, <2>2, FS_Interval
    <2>8. m <= P
      <3>1. PICK c : c = t - from  OBVIOUS
      <3>2. c \in Int /\ i <= c /\ i > c - P /\ i \in Int /\ m \in Nat  BY <1>4, <1>19, <2>2, <2>4, <3>1
      <3>3. m - 1 = IF i + 1 > c THEN 0 ELSE c - (i + 1) + 1  BY <2>5, <2>6, <2>7, <3>1
      <3> QED  BY <3>2, <3>3
    <2>9. m \in 1..len  BY <1>15, <2>4, <2>8
    <2> QED  BY <1>17, <2>4, <2>9
  <1>20. IndexPage(p)
    <2> SUFFICES ASSUME NEW i \in Numbers(n), i <= total - skip, i > total - skip - PageSize
                 PROVE  \E k \in DOMAIN p : p[k] = i
        BY <1>1 DEF IndexPage
    <2>1. i <= t - from /\ i > t - from - P  BY <1>0, <1>3
    <2> QED  BY <1>17, <1>19, <2>1
  <1> QED  BY <1>18, <1>20

\* Every list returns a part of its order.
LEMMA OrderedIsStored ==
    ASSUME RowsIn(rows), skip \in Nat, query.list # "submits", NEW l, OrderedPage(l)
    PROVE  StorePage(l)
  <1>1. IsList(l)  BY OrderedIsList
  <1> QED  BY <1>1 DEF StorePage, TakenByIndex

LEMMA SubmitPages ==
    ASSUME RowsIn(rows), skip \in Nat, SkipOK, TotalRead, query.desc \in BOOLEAN,
           query.list \in Paging!OfSubmits, NEW p \in Paging!Submits(query).pages
    PROVE  StorePage(p)
  <1> DEFINE S == AskedIn(rows, query)
  <1>1. IsFiniteSet(S)  BY RowsFinite
  <1>2. CASE query.list = "submits"
    <2>1. p \in Paging!ListAllSubmits(query.desc).pages  BY <1>2 DEF Paging!Submits
    <2>2. CASE query.desc = FALSE
      <3>1. OrderedPage(p)  BY <1>2, <2>1, <2>2, AscendingPage
      <3>2. IsList(p)  BY <3>1, OrderedIsList
      <3> QED  BY <2>2, <3>1, <3>2 DEF StorePage, TakenByIndex
    <2>3. CASE query.desc = TRUE
      <3>1. still \/ skip = 0 => OrderedPage(p)  BY <1>2, <2>1, <2>3, DescendingPage
      <3>2. TakenByIndex => IsList(p) /\ IndexPage(p)  BY <2>1, <2>3, PageByIndex
      <3>3. ~TakenByIndex => skip = 0  BY <1>2, <2>3 DEF TakenByIndex
      <3>4. OrderedPage(p) => IsList(p)  BY OrderedIsList
      <3> QED  BY <3>1, <3>2, <3>3, <3>4, Zenon DEF StorePage
    <2> QED  BY <2>2, <2>3
  <1>3. CASE query.list \in {"submits of tx", "address submits of tx"}
    <2>1. p \in Paging!ListByOrder(S, Paging!IndexOf, query.desc).pages
      <3>1. CASE query.list = "submits of tx"
          BY <3>1, AskedOf DEF Paging!Submits, OfTx
      <3>2. CASE query.list = "address submits of tx"
          BY <3>2, AskedOf DEF Paging!Submits
      <3> QED  BY <1>3, <3>1, <3>2
    <2>2. KeyIn(rows, query) = [i \in S |-> i]  BY <1>3, KeyIs DEF ByBlock, ByRank
    <2>3. DescOf(query) = query.desc  BY <1>3 DEF DescOf
    <2>4. ByIndexPart(p, S, query.desc)
      <3> HIDE DEF S
      <3> QED  BY <1>1, <2>1, ListedByIndex
    <2>5. OrderedPage(p)  BY <2>2, <2>3, <2>4 DEF OrderedPage, Listed, PartOf, ByIndexPart
    <2> QED  BY <1>3, <2>5, OrderedIsStored
  <1>4. CASE query.list = "address submits"
    <2>1. S = Paging!OfAddress  BY <1>4, AskedOf DEF OfOwner
    <2>2. KeyIn(rows, query) = [i \in S |-> i]  BY <1>4, KeyIs DEF ByBlock, ByRank
    <2>3. DescOf(query) = TRUE  BY <1>4 DEF DescOf
    <2>4. p \in Paging!ListAddressSubmits.pages  BY <1>4 DEF Paging!Submits
    <2>5. PICK o \in Paging!Sorted(S, Paging!IndexOf, TRUE) : p = Paging!Part(o, skip)
        BY <2>1, <2>4 DEF Paging!ListAddressSubmits
    <2>6. IsOrder(o, S, [i \in S |-> i], TRUE)
      <3> HIDE DEF S
      <3> QED  BY <1>1, <2>5, SortedByIndex
    <2>7. OrderedPage(p)  BY <2>2, <2>3, <2>5, <2>6 DEF OrderedPage, Listed
    <2> QED  BY <1>4, <2>7, OrderedIsStored
  <1> QED  BY <1>2, <1>3, <1>4 DEF Paging!OfSubmits

LEMMA RewardPages ==
    ASSUME RowsIn(rows), skip \in Nat, query.desc \in BOOLEAN,
           query.list \in {"rewards", "address rewards"}, NEW p \in Paging!Rewards(query).pages
    PROVE  StorePage(p)
  <1> DEFINE S == AskedIn(rows, query)
  <1>0. IsFiniteSet(S)  BY RowsFinite
  <1>1. DescOf(query) = query.desc  BY DEF DescOf
  <1>2. CASE query.list = "rewards"
    <2>1. S = DOMAIN rows  BY <1>2, AskedOf DEF OfTx, OfOwner
    <2>2. KeyIn(rows, query) = [i \in S |-> rows[i].block]  BY <1>2, KeyIs DEF ByBlock, ByRank
    <2>3. p \in Paging!ListByOrder(S, Paging!BlockOf, query.desc).pages
        BY <1>2, <2>1 DEF Paging!Rewards, Paging!ListRewards
    <2>4. ByBlockPart(p, S, query.desc)
      <3> HIDE DEF S
      <3> QED  BY <1>0, <2>3, ListedByBlock
    <2>5. OrderedPage(p)  BY <1>1, <2>2, <2>4 DEF OrderedPage, Listed, PartOf, ByBlockPart
    <2> QED  BY <1>2, <2>5, OrderedIsStored
  <1>3. CASE query.list = "address rewards"
    <2>1. S = Paging!OfAddress  BY <1>3, AskedOf DEF OfOwner
    <2>2. KeyIn(rows, query) = [i \in S |-> i]  BY <1>3, KeyIs DEF ByBlock, ByRank
    <2>3. p \in Paging!ListByOrder(S, Paging!IndexOf, query.desc).pages
        BY <1>3, <2>1 DEF Paging!Rewards, Paging!ListAddressRewards
    <2>4. ByIndexPart(p, S, query.desc)
      <3> HIDE DEF S
      <3> QED  BY <1>0, <2>3, ListedByIndex
    <2>5. OrderedPage(p)  BY <1>1, <2>2, <2>4 DEF OrderedPage, Listed, PartOf, ByIndexPart
    <2> QED  BY <1>3, <2>5, OrderedIsStored
  <1> QED  BY <1>2, <1>3

LEMMA DAPages ==
    ASSUME RowsIn(rows), skip \in Nat, query.desc \in BOOLEAN, query.list \in ByRank,
           NEW p \in Paging!DASubmits(query).pages
    PROVE  StorePage(p)
  <1> DEFINE S == AskedIn(rows, query)
  <1>0. IsFiniteSet(S)  BY RowsFinite
  <1>1. DescOf(query) = query.desc  BY DEF DescOf, ByRank
  <1>2. S = IF query.list = "da submits" THEN DOMAIN rows ELSE Paging!OfBlock(query.block)
      BY AskedOf DEF OfTx, OfOwner, ByRank
  <1>3. KeyIn(rows, query) = [i \in S |-> RankOf(i)]  BY KeyIs
  <1>4. p \in Paging!ListByOrder(S, Paging!RankOf, query.desc).pages
    <2>1. p \in Paging!ListDASubmits(IF query.list = "da submits" THEN DOMAIN rows
                                     ELSE Paging!OfBlock(query.block), query.desc).pages
        BY Zenon DEF Paging!DASubmits
    <2>2. p \in Paging!ListDASubmits(S, query.desc).pages
      <3> HIDE DEF S
      <3> QED  BY <1>2, <2>1, Zenon
    <2> QED  BY <2>2, Zenon DEF Paging!ListDASubmits
  <1>5. ByRankPart(p, S, query.desc)
    <2> HIDE DEF S
    <2> QED  BY <1>0, <1>4, ListedByRank
  <1>6. OrderedPage(p)  BY <1>1, <1>3, <1>5 DEF OrderedPage, Listed, PartOf, ByRankPart
  <1> QED  BY <1>6, OrderedIsStored DEF ByRank

LEMMA BlockPages ==
    ASSUME RowsIn(rows), skip \in Nat, query.desc \in BOOLEAN, query.list \in {"da rewards", "miners"},
           NEW p \in Paging!ListByOrder(DOMAIN rows, Paging!BlockOf, query.desc).pages
    PROVE  StorePage(p)
  <1> DEFINE S == AskedIn(rows, query)
  <1>0. IsFiniteSet(S)  BY RowsFinite
  <1>1. DescOf(query) = query.desc  BY DEF DescOf
  <1>2. S = DOMAIN rows  BY AskedOf DEF OfTx, OfOwner
  <1>3. KeyIn(rows, query) = [i \in S |-> rows[i].block]  BY KeyIs DEF ByBlock, ByRank
  <1>4. p \in Paging!ListByOrder(S, Paging!BlockOf, query.desc).pages  BY <1>2
  <1>5. ByBlockPart(p, S, query.desc)
    <2> HIDE DEF S
    <2> QED  BY <1>0, <1>4, ListedByBlock
  <1>6. OrderedPage(p)  BY <1>1, <1>3, <1>5 DEF OrderedPage, Listed, PartOf, ByBlockPart
  <1> QED  BY <1>6, OrderedIsStored

LEMMA StatPages ==
    ASSUME RowsIn(rows), skip \in Nat, query.desc \in BOOLEAN, query.list = "stats",
           NEW p \in Paging!ListStats(query.desc).pages
    PROVE  StorePage(p)
  <1> DEFINE S == AskedIn(rows, query)
  <1>0. IsFiniteSet(S)  BY RowsFinite
  <1>1. DescOf(query) = query.desc  BY DEF DescOf
  <1>2. S = DOMAIN rows  BY AskedOf DEF OfTx, OfOwner
  <1>3. KeyIn(rows, query) = [i \in S |-> i]  BY KeyIs DEF ByBlock, ByRank
  <1>4. p \in Paging!ListByOrder(S, Paging!IndexOf, query.desc).pages  BY <1>2 DEF Paging!ListStats
  <1>5. ByIndexPart(p, S, query.desc)
    <2> HIDE DEF S
    <2> QED  BY <1>0, <1>4, ListedByIndex
  <1>6. OrderedPage(p)  BY <1>1, <1>3, <1>5 DEF OrderedPage, Listed, PartOf, ByIndexPart
  <1> QED  BY <1>6, OrderedIsStored

LEMMA ListPages ==
    ASSUME RowsIn(rows), skip \in Nat, SkipOK, TotalRead, query \in Paging!Queries,
           NEW p \in Paging!ListOf(query).pages
    PROVE  StorePage(p)
  <1>1. query.desc \in BOOLEAN /\ query.list \in Paging!AllLists
      BY PagingConstants DEF Paging!Queries
  <1>2. CASE query.list \in Paging!OfSubmits
    <2>1. p \in Paging!Submits(query).pages  BY <1>2 DEF Paging!ListOf, Paging!OfSubmits
    <2> QED  BY <1>1, <1>2, <2>1, SubmitPages
  <1>3. CASE query.list \in {"rewards", "address rewards"}
    <2>1. p \in Paging!Rewards(query).pages  BY <1>3 DEF Paging!ListOf, Paging!OfSubmits
    <2> QED  BY <1>1, <1>3, <2>1, RewardPages
  <1>4. CASE query.list \in ByRank
    <2>1. p \in Paging!DASubmits(query).pages  BY <1>4 DEF Paging!ListOf, Paging!OfSubmits, ByRank
    <2> QED  BY <1>1, <1>4, <2>1, DAPages
  <1>5. CASE query.list \in {"da rewards", "miners"}
    <2>1. p \in Paging!ListByOrder(DOMAIN rows, Paging!BlockOf, query.desc).pages
        BY <1>5 DEF Paging!ListOf, Paging!OfSubmits, Paging!ListDARewards, Paging!ListMiners
    <2> QED  BY <1>1, <1>5, <2>1, BlockPages
  <1>6. CASE query.list = "stats"
    <2>1. p \in Paging!ListStats(query.desc).pages  BY <1>6 DEF Paging!ListOf, Paging!OfSubmits
    <2> QED  BY <1>1, <1>6, <2>1, StatPages
  <1> QED  BY <1>1, <1>2, <1>3, <1>4, <1>5, <1>6 DEF Paging!AllLists, Paging!OfSubmits, ByRank

OwnersKnown == \A i \in DOMAIN rows : rows[i].owner \in addresses

\* The rows of a page with the addresses of their owners.
ShownAs(page, l) ==
    /\ \E len \in Nat : DOMAIN page = 1..len /\ DOMAIN l = 1..len /\ page = [k \in 1..len |-> page[k]]
    /\ \A k \in DOMAIN l : /\ page[k].index = l[k]
                           /\ query.list # "stats" => page[k].from = rows[l[k]].owner

LEMMA ConvertIs ==
    ASSUME RowsIn(rows), OwnersKnown, NEW l, IsList(l)
    PROVE  ShownAs(Paging!Convert(l), l)
  <1>1. PICK len \in Nat : l \in [1..len -> AskedIn(rows, query)]  BY DEF IsList
  <1> DEFINE ids == {rows[i].owner : i \in Paging!Range(l)}
             map == Paging!BatchGetAddresses(ids)
             NameOf(id) == IF id \in DOMAIN map THEN map[id] ELSE NoName
             list == [k \in DOMAIN l |-> [index |-> l[k], from |-> NameOf(rows[l[k]].owner)]]
  <1>2. Paging!Convert(l) = list  BY DEF Paging!Convert
  <1>3. ASSUME NEW k \in DOMAIN l PROVE NameOf(rows[l[k]].owner) = rows[l[k]].owner
    <2>1. l[k] \in DOMAIN rows  BY <1>1, RowsFinite
    <2>2. rows[l[k]].owner \in ids /\ rows[l[k]].owner \in addresses
        BY <2>1, PagingLibrary DEF OwnersKnown
    <2> HIDE DEF ids
    <2>3. map = [id \in ids \cap addresses |-> id]  BY DEF Paging!BatchGetAddresses
    <2> HIDE DEF map
    <2> QED  BY <2>2, <2>3
  <1>4. DOMAIN l = 1..len  BY <1>1
  <1> HIDE DEF NameOf
  <1>5. /\ DOMAIN list = 1..len
        /\ \A k \in 1..len : list[k].index = l[k] /\ list[k].from = rows[l[k]].owner
      BY <1>3, <1>4
  <1>6. list = [k \in 1..len |-> list[k]]  BY <1>4
  <1> HIDE DEF list
  <1> QED  BY <1>2, <1>4, <1>5, <1>6 DEF ShownAs

LEMMA PageIs ==
    ASSUME RowsIn(rows), skip \in Nat, SkipOK, TotalRead, query \in Paging!Queries, OwnersKnown,
           NEW page \in Paging!Pages(query)
    PROVE  \E l : StorePage(l) /\ ShownAs(page, l)
  <1>1. PICK l \in Paging!ListOf(query).pages :
           page = IF query.list = "stats" THEN Paging!ConvertStats(l) ELSE Paging!Convert(l)
      BY DEF Paging!Pages
  <1>2. StorePage(l) /\ IsList(l)
    <2>1. StorePage(l)  BY ListPages
    <2> QED  BY <2>1 DEF StorePage
  <1>3. CASE query.list # "stats"
    <2>1. ShownAs(Paging!Convert(l), l)  BY <1>2, ConvertIs
    <2> QED  BY <1>1, <1>2, <1>3, <2>1
  <1>4. CASE query.list = "stats"
    <2>1. PICK len \in Nat : l \in [1..len -> AskedIn(rows, query)]  BY <1>2 DEF IsList
    <2>2. page = [k \in DOMAIN l |-> [index |-> l[k], from |-> NoName]]
        BY <1>1, <1>4 DEF Paging!ConvertStats
    <2>3. DOMAIN l = 1..len /\ DOMAIN page = 1..len /\ \A k \in 1..len : page[k].index = l[k]
        BY <2>1, <2>2
    <2>4. page = [k \in 1..len |-> page[k]]  BY <2>2, <2>3
    <2> QED  BY <1>2, <1>4, <2>3, <2>4 DEF ShownAs
  <1> QED  BY <1>3, <1>4

\* The total that the first query reads.
LEMMA TotalIs ==
    ASSUME RowsIn(rows), query \in Paging!Queries
    PROVE  /\ query.list = "submits" /\ rows = <<>> => Paging!ListOf(query).count = 0
           /\ query.list = "submits" /\ rows # <<>> =>
                 /\ Paging!ListOf(query).count \in DOMAIN rows
                 /\ \A i \in DOMAIN rows : i <= Paging!ListOf(query).count
           /\ query.list = "address submits" => Paging!ListOf(query).count = files
           /\ query.list \notin {"submits", "address submits"} =>
                 Paging!ListOf(query).count = Cardinality(AskedIn(rows, query))
  <1> DEFINE c == Paging!ListOf(query).count
  <1>0. query.list \in Paging!AllLists  BY PagingConstants DEF Paging!Queries
  <1>1. CASE query.list = "submits"
    <2>1. c = IF rows = <<>> THEN 0 ELSE Paging!Max(DOMAIN rows)
        BY <1>1 DEF Paging!ListOf, Paging!OfSubmits, Paging!Submits, Paging!ListAllSubmits
    <2>2. ASSUME rows # <<>>
          PROVE  /\ Paging!Max(DOMAIN rows) \in DOMAIN rows
                 /\ \A i \in DOMAIN rows : i <= Paging!Max(DOMAIN rows)
      <3>1. PICK n \in Nat : rows \in [FirstIndex..(FirstIndex + n - 1) -> Stored]  BY DEF RowsIn
      <3>2. DOMAIN rows # {}
        <4> SUFFICES ASSUME DOMAIN rows = {} PROVE FALSE  OBVIOUS
        <4>1. rows = [i \in {} |-> rows[i]]  BY <3>1
        <4> QED  BY <2>2, <4>1, NoFunction
      <3>3. DOMAIN rows \subseteq 0..(FirstIndex + n) /\ FirstIndex + n \in Nat  BY <3>1, PagingConstants
      <3>4. Max(DOMAIN rows) \in DOMAIN rows /\ \A i \in DOMAIN rows : i <= Max(DOMAIN rows)
          BY <3>2, <3>3, LargestElement
      <3> QED  BY <3>4, PagingLibrary
    <2> QED  BY <1>1, <2>1, <2>2
  <1>2. CASE query.list = "address submits"
      BY <1>2 DEF Paging!ListOf, Paging!OfSubmits, Paging!Submits, Paging!ListAddressSubmits
  <1>3. CASE query.list \in {"submits of tx", "address submits of tx"}
    <2>1. c = Paging!Cardinality(AskedIn(rows, query))
      <3>1. CASE query.list = "submits of tx"
          BY <3>1, AskedOf DEF Paging!ListOf, Paging!OfSubmits, Paging!Submits, OfTx, Paging!ListByOrder
      <3>2. CASE query.list = "address submits of tx"
          BY <3>2, AskedOf DEF Paging!ListOf, Paging!OfSubmits, Paging!Submits, Paging!ListByOrder
      <3> QED  BY <1>3, <3>1, <3>2
    <2> QED  BY <1>3, <2>1, PagingLibrary
  <1>4. CASE query.list \in {"rewards", "address rewards"}
    <2>1. c = Paging!Cardinality(AskedIn(rows, query))
      <3>1. CASE query.list = "rewards"
          BY <3>1, AskedOf DEF Paging!ListOf, Paging!OfSubmits, Paging!Rewards, Paging!ListRewards,
             Paging!ListByOrder, OfTx, OfOwner
      <3>2. CASE query.list = "address rewards"
          BY <3>2, AskedOf DEF Paging!ListOf, Paging!OfSubmits, Paging!Rewards,
             Paging!ListAddressRewards, Paging!ListByOrder, OfOwner
      <3> QED  BY <1>4, <3>1, <3>2
    <2> QED  BY <1>4, <2>1, PagingLibrary
  <1>5. CASE query.list \in ByRank
    <2>1. AskedIn(rows, query)
            = IF query.list = "da submits" THEN DOMAIN rows ELSE Paging!OfBlock(query.block)
        BY <1>5, AskedOf DEF OfTx, OfOwner, ByRank
    <2>2. c = Paging!DASubmits(query).count  BY <1>5 DEF Paging!ListOf, Paging!OfSubmits, ByRank
    <2>3. c = Paging!Cardinality(IF query.list = "da submits" THEN DOMAIN rows ELSE Paging!OfBlock(query.block))
        BY <2>2 DEF Paging!DASubmits, Paging!ListDASubmits, Paging!ListByOrder
    <2>4. c = Paging!Cardinality(AskedIn(rows, query))
      <3> HIDE DEF c
      <3> QED  BY <2>1, <2>3, Zenon
    <2> QED  BY <1>5, <2>4, PagingLibrary DEF ByRank
  <1>6. CASE query.list \in {"da rewards", "miners", "stats"}
    <2>1. AskedIn(rows, query) = DOMAIN rows  BY <1>6, AskedOf DEF OfTx, OfOwner
    <2>2. c = Paging!Cardinality(DOMAIN rows)
        BY <1>6 DEF Paging!ListOf, Paging!OfSubmits, Paging!ListDARewards, Paging!ListMiners,
           Paging!ListStats, Paging!ListByOrder
    <2> QED  BY <1>6, <2>1, <2>2, PagingLibrary
  <1> QED  BY <1>0, <1>1, <1>2, <1>3, <1>4, <1>5, <1>6 DEF Paging!AllLists, ByRank

\* The rows of the query that are ahead of row i.
AheadIn(r, q, i) == Ahead(AskedIn(r, q), KeyIn(r, q), DescOf(q), i)
PlaceIn(r, q, i) == Cardinality(AheadIn(r, q, i))

LEMMA PlaceIs ==
    ASSUME NEW r, RowsIn(r), NEW q, NEW i \in AskedIn(r, q)
    PROVE  /\ IsFiniteSet(AheadIn(r, q, i)) /\ PlaceIn(r, q, i) \in Nat
           /\ PlaceIn(r, q, i) < Cardinality(AskedIn(r, q))
  <1> DEFINE S == AskedIn(r, q)
             A == AheadIn(r, q, i)
  <1>1. IsFiniteSet(S) /\ KeyIn(r, q) \in [S -> Int]  BY RowsFinite, KeysInt
  <1>2. A \subseteq S /\ i \notin A  BY <1>1 DEF AheadIn, Ahead
  <1> HIDE DEF S, A
  <1>3. IsFiniteSet(A) /\ Cardinality(A) <= Cardinality(S) /\ (Cardinality(S) = Cardinality(A) => S = A)
      BY <1>1, <1>2, FS_Subset
  <1>4. Cardinality(A) \in Nat /\ Cardinality(S) \in Nat  BY <1>1, <1>3, FS_CardinalityType
  <1>5. S # A  BY <1>2 DEF S
  <1> QED  BY <1>3, <1>4, <1>5 DEF S, A, PlaceIn

\* Of all submissions in descending order, the place is told by the index.
LEMMA IndexPlace ==
    ASSUME RowsIn(rows), query.list = "submits", query.desc = TRUE, NEW last \in DOMAIN rows,
           \A j \in DOMAIN rows : j <= last, NEW i \in AskedIn(rows, query)
    PROVE  PlaceIn(rows, query, i) = last - i /\ i \in Nat /\ last \in Nat
  <1>1. PICK n \in Nat : /\ DOMAIN rows = Numbers(n) /\ AskedIn(rows, query) = Numbers(n)
                         /\ KeyIn(rows, query) = [j \in AskedIn(rows, query) |-> j]
      BY RowNumbers
  <1>2. PICK f \in Nat : Numbers(n) = f..(f + n - 1)  BY PagingConstants DEF Numbers
  <1>3. last \in f..(f + n - 1) /\ i \in f..(f + n - 1) /\ \A j \in f..(f + n - 1) : j <= last
      BY <1>1, <1>2
  <1>4. last = f + n - 1
    <2>1. f + n - 1 \in f..(f + n - 1)  BY <1>3
    <2> QED  BY <1>3, <2>1
  <1>5. DescOf(query)  BY DEF DescOf
  <1>6. AheadIn(rows, query, i) = {j \in Numbers(n) : j > i}  BY <1>1, <1>5 DEF AheadIn, Ahead
  <1>7. {j \in f..(f + n - 1) : j > i} = (i + 1)..last  BY <1>3, <1>4
  <1>8. i + 1 \in Int /\ last \in Int  BY <1>3
  <1>9. Cardinality((i + 1)..last) = IF i + 1 > last THEN 0 ELSE last - (i + 1) + 1
      BY <1>8, FS_Interval
  <1>10. PICK c : c = PlaceIn(rows, query, i)  OBVIOUS
  <1>11. c = Cardinality((i + 1)..last)  BY <1>2, <1>6, <1>7, <1>10 DEF PlaceIn
  <1>12. c = last - i /\ i \in Nat /\ last \in Nat
    <2>1. i \in Nat /\ last \in Nat /\ i <= last  BY <1>1, <1>2, <1>3
    <2> QED  BY <1>9, <1>11, <2>1
  <1> QED  BY <1>10, <1>12

\* What is not unsure has a place of its own, and of an address one that is counted.
LEMMA SureOrder ==
    ASSUME RowsIn(rows), NEW i \in AskedIn(rows, query) \ Paging!Unordered(query)
    PROVE  Untied(AskedIn(rows, query), KeyIn(rows, query), i)
  <1> DEFINE S == AskedIn(rows, query)
  <1>0. S \subseteq DOMAIN rows  BY RowsFinite
  <1>1. CASE query.list \in ByBlock
    <2>1. i \notin Paging!Tied(Paging!BlockOf)  BY <1>1 DEF Paging!Unordered, ByBlock
    <2>2. \A j \in DOMAIN rows : j # i => rows[i].block # rows[j].block
        BY <1>0, <2>1 DEF Paging!Tied, Paging!BlockOf
    <2>3. KeyIn(rows, query) = [x \in S |-> rows[x].block]  BY <1>1, KeyIs
    <2> QED  BY <1>0, <2>2, <2>3 DEF Untied
  <1>2. CASE query.list \in ByRank
    <2>1. i \notin Paging!Tied(Paging!RankOf)  BY <1>2 DEF Paging!Unordered, ByRank
    <2>2. \A j \in DOMAIN rows : j # i => RankOf(i) # RankOf(j)
        BY <1>0, <2>1 DEF Paging!Tied, Paging!RankOf, RankOf
    <2>3. KeyIn(rows, query) = [x \in S |-> RankOf(x)]  BY <1>2, KeyIs
    <2> QED  BY <1>0, <2>2, <2>3 DEF Untied
  <1>3. CASE query.list \notin ByBlock \cup ByRank
    <2>1. KeyIn(rows, query) = [x \in S |-> x]  BY <1>3, KeyIs
    <2> QED  BY <2>1 DEF Untied
  <1> QED  BY <1>1, <1>2, <1>3

ByCounter(q) == q.list = "address submits"

LEMMA SureCounted ==
    ASSUME RowsIn(rows), files \in Nat, ByCounter(query),
           NEW i \in AskedIn(rows, query) \ Paging!Uncounted(query)
    PROVE  PlaceIn(rows, query, i) < files
  <1>1. PICK S : S = AskedIn(rows, query) /\ i \in S  OBVIOUS
  <1>2. S = Paging!OfAddress  BY <1>1, AskedOf DEF OfOwner, ByCounter
  <1>3. KeyIn(rows, query) = [x \in S |-> x]  BY <1>1, KeyIs DEF ByBlock, ByRank, ByCounter
  <1>4. IsFiniteSet(S) /\ S \subseteq Nat  BY <1>1, RowsFinite
  <1>5. PICK A : A = {j \in S : j > i}  OBVIOUS
  <1>6. PICK L : L = {j \in S : j < i}  OBVIOUS
  <1>7. AheadIn(rows, query, i) = A
      BY <1>1, <1>3, <1>5 DEF AheadIn, Ahead, DescOf, ByCounter
  <1>8. A \subseteq S /\ L \subseteq S  BY <1>5, <1>6
  <1>9. IsFiniteSet(L) /\ IsFiniteSet(A)  BY <1>4, <1>8, FS_Subset
  <1>10. PICK n \in Nat, l \in Nat, a \in Nat : n = Cardinality(S) /\ l = Cardinality(L) /\ a = Cardinality(A)
      BY <1>4, <1>9, FS_CardinalityType
  <1>11. ~(l < n - files)
    <2>1. i \notin Paging!Oldest(S, Paging!Cardinality(S) - files)
        BY <1>2 DEF Paging!Uncounted, ByCounter
    <2>2. ~(Paging!Cardinality({j \in S : j < i}) < Paging!Cardinality(S) - files)
        BY <1>1, <2>1 DEF Paging!Oldest
    <2>3. Paging!Cardinality(L) = l /\ Paging!Cardinality(S) = n  BY <1>10, PagingLibrary
    <2> QED  BY <1>6, <2>2, <2>3
  <1>12. L \cup A = S \ {i} /\ L \cap A = {}
    <2>1. \A j \in S : j \in Nat /\ i \in Nat  BY <1>1, <1>4
    <2>2. \A j \in S : j # i => j < i \/ j > i  BY <2>1
    <2>3. \A j \in S : ~(j < i /\ j > i) /\ (j < i \/ j > i => j # i)  BY <2>1
    <2> QED  BY <1>5, <1>6, <2>2, <2>3
  <1>13. Cardinality(S \ {i}) = n - 1  BY <1>1, <1>4, <1>10, FS_RemoveElement
  <1>14. Cardinality(L \cup A) = l + a - Cardinality(L \cap A)
      BY <1>9, <1>10, FS_Union
  <1>15. Cardinality(L \cap A) = 0  BY <1>12, FS_EmptySet
  <1>16. n - 1 = l + a - 0  BY <1>12, <1>13, <1>14, <1>15
  <1>17. a < files  BY <1>11, <1>16
  <1> QED  BY <1>7, <1>10, <1>17 DEF PlaceIn

\* A part of the order holds every sure row whose place it is about.
LEMMA PageHolds ==
    ASSUME RowsIn(rows), skip \in Nat, query \in Paging!Queries, NEW l, OrderedPage(l),
           NEW i \in AskedIn(rows, query) \ Paging!Unordered(query),
           skip <= PlaceIn(rows, query, i), PlaceIn(rows, query, i) < skip + PageSize
    PROVE  \E k \in DOMAIN l : l[k] = i
  <1> DEFINE S == AskedIn(rows, query)
             at == PlaceIn(rows, query, i)
  <1>1. Untied(S, KeyIn(rows, query), i) /\ at \in Nat  BY SureOrder, PlaceIs
  <1>2. PICK o : Listed(o, rows, query) /\ l = Paging!Part(o, skip)  BY DEF OrderedPage
  <1>3. PICK n \in Nat : n = Cardinality(S)  BY RowsFinite, FS_CardinalityType
  <1>4. o \in [1..n -> S] /\ IsOrder(o, S, KeyIn(rows, query), DescOf(query))
      BY <1>2, <1>3 DEF Listed, IsOrder
  <1>5. PICK len \in Nat : IsPart(o, n, skip, len)  BY <1>4, PartIs
  <1>6. l = [k \in 1..len |-> o[skip + k]]  BY <1>2, <1>5 DEF IsPart
  <1>7. IsFiniteSet(S) /\ KeyIn(rows, query) \in [S -> Int] /\ DescOf(query) \in BOOLEAN
      BY RowsFinite, KeysInt DEF DescOf, Paging!Queries
  <1>8. PICK m \in 1..n : o[m] = i  BY <1>3, <1>4, <1>7, OrderComplete
  <1>9. at = m - 1
    <2>1. Cardinality(Ahead(S, KeyIn(rows, query), DescOf(query), o[m])) = m - 1
      <3>1. Untied(S, KeyIn(rows, query), o[m])  BY <1>1, <1>8
      <3> HIDE DEF S
      <3> QED  BY <1>3, <1>4, <1>7, <1>8, <3>1, OrderPlace
    <2> QED  BY <1>8, <2>1 DEF PlaceIn, AheadIn
  <1>10. skip <= at /\ at < skip + PageSize  OBVIOUS
  <1> HIDE DEF at
  <1>11. m - skip \in 1..len  BY <1>5, <1>8, <1>9, <1>10, PagingConstants DEF IsPart
  <1>12. skip + (m - skip) = m  BY <1>8
  <1>13. l[m - skip] = i  BY <1>6, <1>8, <1>11, <1>12
  <1> QED  BY <1>6, <1>11, <1>13

\* Keys that are equal to none.
LEMMA AllUntied ==
    ASSUME RowsIn(rows), Paging!Unordered(query) = {}
    PROVE  \A i \in AskedIn(rows, query) : Untied(AskedIn(rows, query), KeyIn(rows, query), i)
  BY SureOrder

-----------------------------------------------------------------------------
Indexes(s) == {s[k].index : k \in DOMAIN s}

\* The rows the client is promised.
Promised == before \ (unsure \cup Paging!Overstepped(query))

PagingType ==
    /\ RowsIn(rows) /\ OwnersKnown /\ files \in Nat
    /\ query \in Paging!Queries /\ skip \in Nat /\ SkipOK /\ total \in Nat
    /\ \E n \in Nat : DOMAIN seen = 1..n /\ seen = [k \in 1..n |-> seen[k]]
    /\ \A k \in DOMAIN seen : seen[k].index \in AskedIn(rows, query)
    /\ skip = 0 => seen = <<>>
    /\ before \subseteq AskedIn(rows, query) \cup Paging!Overstepped(query)
    /\ ByCounter(query) => total <= files

\* The rows seen are named.
NamesOK == query.list # "stats" => \A k \in DOMAIN seen : seen[k].from = rows[seen[k].index].owner

\* A row whose place the client has passed is seen, and in the end every row.
PassedSeen == \A i \in Promised : PlaceIn(rows, query, i) < skip => i \in Indexes(seen)
EndSeen ==
    Paging!Finished /\ ~slipped => Promised \ Paging!Unasked(query) \subseteq Indexes(seen)

\* Between the two queries of a request: the rows W are within the total, or on the first
\* page.  A page that is taken by index skips none that is not seen.
Within(r, W) ==
    /\ query.list = "miners" => total = Cardinality(AskedIn(r, query))
    /\ ~TakenByIndex =>
          \A i \in W : PlaceIn(r, query, i) < total \/ PlaceIn(r, query, i) < PageSize
AskingOK ==
    asking => /\ TotalRead
              /\ TakenByIndex => \A i \in Promised : i > total - skip => i \in Indexes(seen)
              /\ ~slipped => Within(rows, Promised \ Paging!Unasked(query))

\* Until something is added, the client has seen the beginning of one order.
Settled == Paging!Started /\ still /\ (ByCounter(query) \/ unsure = {})
Beginning(o) ==
    \E n \in Nat : /\ DOMAIN seen = 1..n /\ n <= skip /\ n <= Cardinality(AskedIn(rows, query))
                   /\ (n = skip \/ n = Cardinality(AskedIn(rows, query)))
                   /\ \A k \in 1..n : seen[k].index = o[k]
Nothing ==
    ~asking /\ (ByCounter(query) \/ query.list = "submits") /\ seen = <<>> /\ total <= skip
InOrder == Settled => (\E o : Listed(o, rows, query) /\ Beginning(o)) \/ Nothing

PagingInv == PagingType /\ NamesOK /\ PassedSeen /\ EndSeen /\ AskingOK /\ InOrder

-----------------------------------------------------------------------------
LEMMA ConcatIs ==
    ASSUME NEW n \in Nat, NEW m \in Nat, NEW s, s = [k \in 1..n |-> s[k]], NEW t, t = [k \in 1..m |-> t[k]]
    PROVE  /\ DOMAIN (s \o t) = 1..(n + m) /\ s \o t = [k \in 1..(n + m) |-> (s \o t)[k]]
           /\ \A k \in 1..n : (s \o t)[k] = s[k]
           /\ \A k \in 1..m : (s \o t)[n + k] = t[k]
  <1> DEFINE V == {s[k] : k \in 1..n} \cup {t[k] : k \in 1..m}
  <1>1. s \in [1..n -> V] /\ t \in [1..m -> V]  OBVIOUS
  <1>2. s \in Seq(V) /\ Len(s) = n /\ t \in Seq(V) /\ Len(t) = m
    <2> HIDE DEF V
    <2> QED  BY <1>1
  <1> HIDE DEF V
  <1>3. s \o t \in Seq(V) /\ Len(s \o t) = n + m  BY <1>2
  <1>4. \A k \in 1..(n + m) : (s \o t)[k] = IF k <= n THEN s[k] ELSE t[k - n]
      BY <1>2, ConcatProperties
  <1>5. \A k \in 1..m : n + k \in 1..(n + m) /\ ~(n + k <= n) /\ (n + k) - n = k  OBVIOUS
  <1>6. \A k \in 1..n : k \in 1..(n + m) /\ k <= n  OBVIOUS
  <1> QED  BY <1>3, <1>4, <1>5, <1>6

LEMMA PagingInitInv == Init => PagingInv
  <1> SUFFICES ASSUME Init PROVE PagingInv  OBVIOUS
  <1>1. /\ rows = [i \in {} |-> 0] /\ files = 0 /\ query \in Paging!Queries
        /\ skip = 0 /\ total = 0 /\ asking = FALSE /\ seen = <<>> /\ before = {} /\ unsure = {}
      BY DEF Init, Paging!Init
  <1>2. RowsIn(rows)
    <2>1. rows \in [FirstIndex..(FirstIndex + 0 - 1) -> Stored]  BY <1>1, PagingConstants
    <2>2. DOMAIN rows = {}  BY <1>1
    <2> QED  BY <2>1, <2>2 DEF RowsIn
  <1>3. DOMAIN seen = 1..0 /\ seen = [k \in 1..0 |-> seen[k]]  BY <1>1
  <1>4. DOMAIN rows = {} /\ DOMAIN seen = {} /\ Promised = {}  BY <1>1 DEF Promised
  <1>5. PagingType  BY <1>1, <1>2, <1>3, <1>4 DEF PagingType, OwnersKnown, SkipOK
  <1>6. ~Paging!Started  BY <1>1 DEF Paging!Started
  <1>7. NamesOK /\ PassedSeen /\ EndSeen  BY <1>4 DEF NamesOK, PassedSeen, EndSeen
  <1>8. AskingOK  BY <1>1, Zenon DEF AskingOK
  <1>9. InOrder  BY <1>6, Zenon DEF InOrder, Settled
  <1> QED  BY <1>5, <1>7, <1>8, <1>9 DEF PagingInv

-----------------------------------------------------------------------------
\* What the invariant says of the properties.
LEMMA NoneMissed == PagingInv => Paging!NoRowMissed
  <1> SUFFICES ASSUME PagingInv, Paging!Finished, ~slipped
               PROVE  before \subseteq Paging!Range(Paging!SeenRows) \cup unsure
                                        \cup Paging!Overstepped(query) \cup Paging!Unasked(query)
      BY Zenon DEF Paging!NoRowMissed
  <1>1. Paging!Range(Paging!SeenRows) = Indexes(seen)
    <2>1. Paging!SeenRows = [k \in DOMAIN seen |-> seen[k].index]  BY DEF Paging!SeenRows
    <2> QED  BY <2>1, PagingLibrary DEF Indexes
  <1>2. Promised \ Paging!Unasked(query) \subseteq Indexes(seen)  BY Zenon DEF PagingInv, EndSeen
  <1> QED  BY <1>1, <1>2 DEF Promised

LEMMA AllNamed == PagingInv => Paging!OwnersNamed
  <1> SUFFICES ASSUME PagingInv PROVE Paging!OwnersNamed  OBVIOUS
  <1>1. ASSUME NEW i \in DOMAIN rows, NEW blob \in Paging!getDATx(i)
        PROVE  blob.from = rows[blob.index].owner
    <2>1. PICK j \in DOMAIN rows :
             blob = [index |-> j, from |-> IF rows[j].owner \in DOMAIN Paging!BatchGetAddresses({rows[j].owner})
                                           THEN rows[j].owner ELSE NoName]
        BY DEF Paging!getDATx
    <2>2. rows[j].owner \in addresses  BY DEF PagingInv, PagingType, OwnersKnown
    <2>3. rows[j].owner \in DOMAIN Paging!BatchGetAddresses({rows[j].owner})
        BY <2>2 DEF Paging!BatchGetAddresses
    <2> QED  BY <2>1, <2>3
  <1> QED  BY <1>1 DEF Paging!OwnersNamed, PagingInv, NamesOK

\* An order of the query is one the client can expect.
LEMMA ListedSorted ==
    ASSUME RowsIn(rows), query \in Paging!Queries, NEW o, Listed(o, rows, query)
    PROVE  o \in Paging!Sorted(Paging!Asked(query) \ Paging!Overstepped(query), Paging!KeyOf,
                            query.desc \/ query.list = "address submits")
  <1> DEFINE S == AskedIn(rows, query)
  <1>1. PICK n \in Nat : n = Cardinality(S)  BY RowsFinite, FS_CardinalityType
  <1>2. /\ o \in [1..n -> S] /\ \A k, m \in 1..n : k # m => o[k] # o[m]
        /\ \A k \in 1..(n - 1) :
              IF DescOf(query) THEN KeyIn(rows, query)[o[k]] >= KeyIn(rows, query)[o[k + 1]]
              ELSE KeyIn(rows, query)[o[k]] <= KeyIn(rows, query)[o[k + 1]]
      BY <1>1 DEF Listed, IsOrder
  <1>3. \A i \in S : KeyIn(rows, query)[i] = Paging!KeyOf(i)
    <2>1. CASE query.list \in ByBlock
      <3>1. KeyIn(rows, query) = [i \in S |-> rows[i].block]  BY <2>1, KeyIs
      <3>2. \A i : Paging!KeyOf(i) = rows[i].block
          BY <2>1 DEF Paging!KeyOf, Paging!BlockOf, ByBlock
      <3> QED  BY <3>1, <3>2
    <2>2. CASE query.list \in ByRank
      <3>1. KeyIn(rows, query) = [i \in S |-> RankOf(i)]  BY <2>2, KeyIs
      <3>2. \A i : Paging!KeyOf(i) = RankOf(i)
          BY <2>2 DEF Paging!KeyOf, Paging!RankOf, RankOf, ByRank
      <3> QED  BY <3>1, <3>2
    <2>3. CASE query.list \notin ByBlock \cup ByRank
      <3>1. KeyIn(rows, query) = [i \in S |-> i]  BY <2>3, KeyIs
      <3>2. \A i : Paging!KeyOf(i) = i  BY <2>3 DEF Paging!KeyOf, ByRank, ByBlock
      <3> QED  BY <3>1, <3>2
    <2> QED  BY <2>1, <2>2, <2>3
  <1>4. Len(o) = n  BY <1>2
  <1>5. \A k \in 1..(n - 1) : o[k] \in S /\ o[k + 1] \in S  BY <1>2
  <1>6. \A k \in 1..(n - 1) :
           IF DescOf(query) THEN Paging!KeyOf(o[k]) >= Paging!KeyOf(o[k + 1])
           ELSE Paging!KeyOf(o[k]) <= Paging!KeyOf(o[k + 1])
    <2> HIDE DEF S
    <2> QED  BY <1>2, <1>3, <1>5
  <1>7. Paging!Asked(query) \ Paging!Overstepped(query) = S /\ Paging!Cardinality(S) = n  BY <1>1, AskedOf, PagingLibrary
  <1> HIDE DEF S
  <1>8. o \in Paging!SetToSeqs(S)  BY <1>2, <1>7 DEF Paging!SetToSeqs
  <1> QED  BY <1>4, <1>6, <1>7, <1>8 DEF Paging!Sorted, DescOf

\* What is seen is the beginning of an order.
LEMMA BeginningIsPrefix ==
    ASSUME PagingType, NEW o, Listed(o, rows, query), Beginning(o)
    PROVE  Paging!IsPrefix(Paging!SeenRows, o)
  <1> DEFINE S == AskedIn(rows, query)
             s == Paging!SeenRows
  <1>1. PICK n \in Nat : /\ DOMAIN seen = 1..n /\ n <= Cardinality(S)
                         /\ \A k \in 1..n : seen[k].index = o[k]
      BY DEF Beginning
  <1>2. PICK c \in Nat : c = Cardinality(S)  BY RowsFinite, FS_CardinalityType DEF PagingType
  <1>3. o \in [1..c -> S]  BY <1>2 DEF Listed, IsOrder
  <1>4. s = [k \in 1..n |-> seen[k].index]  BY <1>1 DEF Paging!SeenRows
  <1>5. \A k \in 1..n : s[k] = o[k] /\ o[k] \in S  BY <1>1, <1>2, <1>3, <1>4
  <1>6. s \in [1..n -> S]  BY <1>4, <1>5
  <1>7. s = [k \in 1..n |-> s[k]]  BY <1>4
  <1> HIDE DEF s, S
  <1>8. Len(s) = n /\ Len(o) = c  BY <1>3, <1>6
  <1>9. SubSeq(s, 1, n) = [k \in 1..n |-> s[k]]  BY <1>6, <1>7
  <1>10. SubSeq(o, 1, n) = [k \in 1..n |-> o[k]]  BY <1>1, <1>2, <1>3
  <1>11. SubSeq(s, 1, n) = SubSeq(o, 1, n)  BY <1>5, <1>9, <1>10
  <1> QED  BY <1>1, <1>2, <1>8, <1>11 DEF Paging!IsPrefix, s

LEMMA EmptyIsPrefix ==
    ASSUME NEW S, NEW c \in Nat, NEW o \in [1..c -> S]
    PROVE  Paging!IsPrefix(<<>>, o)
  <1>1. <<>> \in Seq(S) /\ o \in Seq(S) /\ Len(<<>>) = 0 /\ Len(o) = c  OBVIOUS
  <1>2. SubSeq(<<>>, 1, 0) = <<>> /\ SubSeq(o, 1, 0) = <<>>  BY <1>1, SubSeqEmpty
  <1> QED  BY <1>1, <1>2 DEF Paging!IsPrefix

LEMMA NothingSeen == ASSUME seen = <<>> PROVE Paging!SeenRows = <<>>
  <1>1. DOMAIN seen = {}  OBVIOUS
  <1> QED  BY <1>1 DEF Paging!SeenRows

\* Nothing is the beginning of an order that is there.
LEMMA NothingIsPrefix ==
    ASSUME PagingType, Nothing
    PROVE  \E o : Listed(o, rows, query) /\ Paging!IsPrefix(Paging!SeenRows, o)
  <1> DEFINE S == AskedIn(rows, query)
  <1>1. RowsIn(rows) /\ query \in Paging!Queries /\ seen = <<>>  BY DEF PagingType, Nothing
  <1>2. Paging!Unordered(query) = {}
    <2>1. query.list = "submits" \/ query.list = "address submits"  BY DEF Nothing, ByCounter
    <2> QED  BY <2>1 DEF Paging!Unordered
  <1>3. \A i \in S : Untied(S, KeyIn(rows, query), i)  BY <1>1, <1>2, AllUntied
  <1>4. KeyIn(rows, query) \in [S -> Int] /\ IsFiniteSet(S) /\ DescOf(query) \in BOOLEAN
      BY <1>1, KeysInt, RowsFinite DEF DescOf, Paging!Queries
  <1>5. PICK c \in Nat : c = Cardinality(S)  BY <1>4, FS_CardinalityType
  <1>6. PICK o : IsOrder(o, S, KeyIn(rows, query), DescOf(query))
    <2> HIDE DEF S
    <2> QED  BY <1>3, <1>4, OrderExists
  <1>7. o \in [1..c -> S]  BY <1>5, <1>6 DEF IsOrder
  <1>8. Paging!IsPrefix(Paging!SeenRows, o)  BY <1>1, <1>7, EmptyIsPrefix, NothingSeen
  <1> QED  BY <1>6, <1>8 DEF Listed

LEMMA InTheirOrder == PagingInv => Paging!PagesInOrder
  <1> DEFINE Whole == still /\ (query.list # "address submits" => unsure = {})
  <1> SUFFICES ASSUME PagingInv, Paging!Finished, Whole = TRUE
               PROVE  \E o \in Paging!Sorted(Paging!Asked(query) \ Paging!Overstepped(query), Paging!KeyOf,
                                             query.desc \/ query.list = "address submits") :
                         Paging!IsPrefix(Paging!SeenRows, o)
      BY Zenon DEF Paging!PagesInOrder
  <1>1. Settled  BY Zenon DEF Settled, Paging!Finished, ByCounter
  <1>2. PagingType /\ InOrder  BY DEF PagingInv
  <1>3. RowsIn(rows) /\ query \in Paging!Queries  BY <1>2 DEF PagingType
  <1>4. (\E o : Listed(o, rows, query) /\ Beginning(o)) \/ Nothing
      BY <1>1, <1>2, Zenon DEF InOrder
  <1>5. \E o : Listed(o, rows, query) /\ Paging!IsPrefix(Paging!SeenRows, o)
      BY <1>2, <1>4, BeginningIsPrefix, NothingIsPrefix, Zenon
  <1> QED  BY <1>3, <1>5, ListedSorted, Zenon

-----------------------------------------------------------------------------
\* The rows and the query stay.
LEMMA SameRows ==
    ASSUME PagingInv, UNCHANGED <<rows, addresses, query>>
    PROVE  /\ AskedIn(rows, query)' = AskedIn(rows, query) /\ KeyIn(rows, query)' = KeyIn(rows, query)
           /\ \A i : PlaceIn(rows, query, i)' = PlaceIn(rows, query, i)
           /\ Paging!Overstepped(query)' = Paging!Overstepped(query)
           /\ Paging!Unasked(query)' = Paging!Unasked(query)
           /\ \A o : Listed(o, rows, query)' = Listed(o, rows, query)
           /\ RowsIn(rows)' /\ OwnersKnown' /\ ByCounter(query)' = ByCounter(query)
           /\ query' \in Paging!Queries
  <1>1. query' = query /\ rows' = rows /\ addresses' = addresses  OBVIOUS
  <1>2. /\ Paging!Overstepped(query)' = Paging!Overstepped(query)
        /\ Paging!Unasked(query)' = Paging!Unasked(query)
      BY <1>1 DEF Paging!Overstepped, Paging!Unasked
  <1>3. AskedIn(rows, query)' = AskedIn(rows, query)  BY <1>1, <1>2 DEF AskedIn
  <1>4. KeyIn(rows, query)' = KeyIn(rows, query) /\ DescOf(query)' = DescOf(query)
      BY <1>1, <1>3 DEF KeyIn, DescOf
  <1>5. \A i : PlaceIn(rows, query, i)' = PlaceIn(rows, query, i)
      BY <1>3, <1>4 DEF PlaceIn, AheadIn, Ahead
  <1>6. \A o : Listed(o, rows, query)' = Listed(o, rows, query)  BY <1>3, <1>4 DEF Listed
  <1>7. RowsIn(rows)' /\ OwnersKnown'
      BY <1>1 DEF RowsIn, OwnersKnown, PagingInv, PagingType
  <1>8. ByCounter(query)' = ByCounter(query)  BY <1>1 DEF ByCounter
  <1>9. query' \in Paging!Queries  BY <1>1, Zenon DEF PagingInv, PagingType, Paging!Queries
  <1> QED  BY <1>2, <1>3, <1>4, <1>5, <1>6, <1>7, <1>8, <1>9

\* A request that has nothing to list promises nothing, and shows nothing.
LEMMA NothingLeft ==
    ASSUME PagingInv, Paging!NothingToList(query), ~asking, ~Paging!Finished,
           NEW W, Paging!Started => W \subseteq Promised,
           W \subseteq AskedIn(rows, query) \ Paging!Uncounted(query)
    PROVE  /\ W = {} /\ seen = <<>> /\ (ByCounter(query) \/ query.list = "submits")
           /\ ByCounter(query) => files <= skip
           /\ query.list = "submits" => rows = <<>>
  <1>1. /\ RowsIn(rows) /\ files \in Nat /\ query \in Paging!Queries /\ skip \in Nat /\ total \in Nat
        /\ skip = 0 => seen = <<>>
        /\ ByCounter(query) => total <= files
      BY DEF PagingInv, PagingType
  <1>2. CASE query.list = "submits" /\ rows = <<>>
    <2>1. AskedIn(rows, query) = {}
      <3>1. DOMAIN rows = {}  BY <1>2, NoDomain
      <3> QED  BY <1>1, <3>1, RowsFinite
    <2>2. PICK n \in Nat : /\ DOMAIN seen = 1..n /\ seen = [k \in 1..n |-> seen[k]]
                           /\ \A k \in 1..n : seen[k].index \in AskedIn(rows, query)
        BY DEF PagingInv, PagingType
    <2>3. 1..n = {}  BY <2>1, <2>2
    <2>4. seen = [k \in {} |-> seen[k]]  BY <2>2, <2>3
    <2>5. seen = <<>>  BY <2>4, NoFunction
    <2>6. ~ByCounter(query)  BY <1>2 DEF ByCounter
    <2> QED  BY <1>2, <2>1, <2>5, <2>6
  <1>3. CASE ByCounter(query) /\ files <= skip
    <2>1. ~Paging!Started
      <3>1. total <= skip  BY <1>1, <1>3
      <3>2. Paging!Started => Paging!Finished  BY <1>1, <3>1 DEF Paging!Finished
      <3> QED  BY <3>2
    <2>2. skip = 0 /\ seen = <<>>  BY <1>1, <2>1 DEF Paging!Started
    <2>3. ASSUME NEW i \in W PROVE FALSE
      <3>1. PlaceIn(rows, query, i) < files  BY <1>1, <1>3, SureCounted
      <3>2. PlaceIn(rows, query, i) \in Nat  BY <1>1, PlaceIs
      <3> QED  BY <1>1, <1>3, <2>2, <3>1, <3>2
    <2>4. query.list # "submits"  BY <1>3 DEF ByCounter
    <2> QED  BY <1>3, <2>2, <2>3, <2>4
  <1>4. (query.list = "submits" /\ rows = <<>>) \/ (ByCounter(query) /\ files <= skip)
      BY Zenon DEF Paging!NothingToList, ByCounter
  <1> QED  BY <1>2, <1>3, <1>4

\* The total tells how many pages there are, until rows come in before it.
LEMMA TotalPlaces ==
    ASSUME RowsIn(rows), files \in Nat, query \in Paging!Queries, ~Paging!NothingToList(query),
           NEW t, t = Paging!ListOf(query).count,
           NEW i \in AskedIn(rows, query) \ (Paging!Uncounted(query) \cup Paging!Unasked(query)),
           ~TakenByIndex, skip \in Nat
    PROVE  PlaceIn(rows, query, i) < t \/ PlaceIn(rows, query, i) < PageSize
  <1>1. PlaceIn(rows, query, i) \in Nat /\ PlaceIn(rows, query, i) < Cardinality(AskedIn(rows, query))
      BY PlaceIs
  <1>2. CASE ByCounter(query)
    <2>1. t = files  BY <1>2, TotalIs, Zenon DEF ByCounter
    <2>2. PlaceIn(rows, query, i) < files  BY <1>2, SureCounted
    <2> QED  BY <2>1, <2>2
  <1>3. CASE query.list = "submits"
    <2>1. rows # <<>>  BY <1>3 DEF Paging!NothingToList
    <2>2. t \in DOMAIN rows /\ \A j \in DOMAIN rows : j <= t  BY <1>3, <2>1, TotalIs, Zenon
    <2>3. CASE query.desc = TRUE
      <3>1. PlaceIn(rows, query, i) = t - i /\ i \in Nat /\ t \in Nat  BY <1>3, <2>2, <2>3, IndexPlace
      <3>2. i # 0
        <4>1. i \in DOMAIN rows  BY RowsFinite
        <4>2. PICK n \in Nat : DOMAIN rows = FirstIndex..(FirstIndex + n - 1)  BY DEF RowsIn
        <4>3. FirstIndex <= i  BY <4>1, <4>2, PagingConstants
        <4>4. FirstIndex = 0 => i # 0  BY <1>3, <2>3 DEF Paging!Unasked
        <4> QED  BY <4>3, <4>4, PagingConstants
      <3> QED  BY <3>1, <3>2
    <2>4. CASE query.desc = FALSE
      <3>1. PICK n \in Nat : DOMAIN rows = Numbers(n) /\ AskedIn(rows, query) = Held(n)
          BY <1>3, <2>4, RowNumbers
      <3>2. Cardinality(AskedIn(rows, query)) = HeldCount(n)  BY <3>1, Ascending
      <3>3. PICK f \in Nat, P \in Nat :
               f = FirstIndex /\ (f = 0 \/ f = 1) /\ P = PageSize /\ t \in f..(f + n - 1)
               /\ \A j \in f..(f + n - 1) : j <= t
          BY <2>2, <3>1, PagingConstants DEF Numbers
      <3>4. t = f + n - 1
        <4>1. f + n - 1 \in f..(f + n - 1)  BY <3>3
        <4> QED  BY <3>3, <4>1
      <3>5. HeldCount(n) = IF f = 0 /\ n > P THEN n - 1 ELSE n  BY <3>3 DEF HeldCount, Lost
      <3>6. PICK c : c = PlaceIn(rows, query, i)  OBVIOUS
      <3>7. c \in Nat /\ c < IF f = 0 /\ n > P THEN n - 1 ELSE n  BY <1>1, <3>2, <3>5, <3>6
      <3>8. c < t \/ c < P  BY <3>3, <3>4, <3>7
      <3> QED  BY <3>3, <3>6, <3>8
    <2>5. query.desc \in BOOLEAN  BY DEF Paging!Queries
    <2> QED  BY <2>3, <2>4, <2>5
  <1>4. CASE ~ByCounter(query) /\ query.list # "submits"
    <2>1. query.list \notin {"submits", "address submits"}  BY <1>4 DEF ByCounter
    <2>2. t = Cardinality(AskedIn(rows, query))  BY <2>1, TotalIs, Zenon
    <2> QED  BY <1>1, <2>2
  <1> QED  BY <1>2, <1>3, <1>4

\* The first query of a request.
LEMMA TotalKeeps == ASSUME PagingInv, Paging!ReadTotal PROVE PagingInv'
  <1> DEFINE S == AskedIn(rows, query)
             t == Paging!ListOf(query).count
  <1>1. /\ RowsIn(rows) /\ OwnersKnown /\ files \in Nat /\ query \in Paging!Queries
        /\ skip \in Nat /\ SkipOK /\ total \in Nat
        /\ before \subseteq S \cup Paging!Overstepped(query)
      BY DEF PagingInv, PagingType
  <1>2. /\ ~asking /\ ~Paging!Finished /\ total' = t
        /\ UNCHANGED <<rows, addresses, files, query, seen>>
        /\ before' = (IF Paging!Started THEN before ELSE Paging!Asked(query))
        /\ unsure' = unsure \cup Paging!Uncounted(query)
        /\ still' = (~Paging!Started \/ still) /\ slipped' = FALSE
      BY DEF Paging!ReadTotal
  <1>3. /\ S' = S /\ \A i : PlaceIn(rows, query, i)' = PlaceIn(rows, query, i)
        /\ Paging!Overstepped(query)' = Paging!Overstepped(query)
        /\ Paging!Unasked(query)' = Paging!Unasked(query)
        /\ \A o : Listed(o, rows, query)' = Listed(o, rows, query)
        /\ RowsIn(rows)' /\ OwnersKnown' /\ ByCounter(query)' = ByCounter(query)
        /\ query' \in Paging!Queries
      BY <1>2, SameRows
  <1>4. S = Paging!Asked(query) \ Paging!Overstepped(query)  BY AskedOf
  <1>5. before' \subseteq S \cup Paging!Overstepped(query)  BY <1>1, <1>2, <1>4
  <1>6. /\ Promised' \subseteq S \ Paging!Uncounted(query)
        /\ Paging!Started => Promised' \subseteq Promised
      BY <1>2, <1>3, <1>5 DEF Promised
  <1>7. skip' \in Nat /\ (skip' = 0 \/ skip' >= PageSize) /\ skip' >= skip
        /\ (skip' = skip \/ (Paging!NothingToList(query) /\ skip' = skip + PageSize))
      BY <1>1, PagingConstants DEF Paging!ReadTotal, SkipOK
  <1>8. t \in Nat /\ (ByCounter(query) => t = files)
    <2>1. ByCounter(query) => t = files  BY <1>1, TotalIs, Zenon DEF ByCounter
    <2>2. query.list = "submits" => t \in Nat
      <3>1. query.list = "submits" /\ rows = <<>> => t = 0  BY <1>1, TotalIs, Zenon
      <3>2. query.list = "submits" /\ rows # <<>> => t \in DOMAIN rows  BY <1>1, TotalIs, Zenon
      <3>3. DOMAIN rows \subseteq Nat  BY <1>1, RowsFinite
      <3> HIDE DEF t
      <3> QED  BY <3>1, <3>2, <3>3
    <2>3. ~ByCounter(query) /\ query.list # "submits" => t \in Nat
      <3>1. ~ByCounter(query) /\ query.list # "submits" =>
              query.list \notin {"submits", "address submits"}
          BY Zenon DEF ByCounter
      <3>2. query.list \notin {"submits", "address submits"} => t = Cardinality(S)
          BY <1>1, TotalIs, Zenon
      <3>3. Cardinality(S) \in Nat  BY <1>1, RowsFinite, FS_CardinalityType
      <3> QED  BY <3>1, <3>2, <3>3, Zenon
    <2> HIDE DEF t
    <2> QED  BY <1>1, <2>1, <2>2, <2>3
  <1>9. PagingType'
    <2>1. /\ total' \in Nat /\ files' \in Nat /\ (ByCounter(query)' => total' <= files')
          /\ skip' \in Nat /\ (skip' = 0 \/ skip' >= PageSize)
      <3> HIDE DEF t
      <3> QED  BY <1>1, <1>2, <1>3, <1>7, <1>8
    <2>2. /\ \E n \in Nat : DOMAIN seen' = 1..n /\ seen' = [k \in 1..n |-> seen'[k]]
          /\ \A k \in DOMAIN seen' : seen'[k].index \in S
      BY <1>2, Zenon DEF PagingInv, PagingType
    <2>3. skip' = 0 => seen' = <<>>
      <3>1. skip' = 0 => skip = 0  BY <1>1, <1>7
      <3>2. skip = 0 => seen = <<>>  BY DEF PagingInv, PagingType
      <3> QED  BY <1>2, <3>1, <3>2
    <2>4. before' \subseteq S' \cup Paging!Overstepped(query)'  BY <1>3, <1>5
    <2> HIDE DEF S
    <2>5. \A k \in DOMAIN seen' : seen'[k].index \in S'  BY <1>3, <2>2
    <2> QED  BY <1>3, <2>1, <2>2, <2>3, <2>4, <2>5, Zenon DEF PagingType, SkipOK, S
  <1>10. NamesOK'  BY <1>2 DEF PagingInv, NamesOK
  <1>11. CASE Paging!NothingToList(query)
    <2>1. skip' = skip + PageSize /\ asking' = asking  BY <1>11 DEF Paging!ReadTotal
    <2>2. /\ Promised' = {} /\ seen = <<>> /\ (ByCounter(query) \/ query.list = "submits")
          /\ ByCounter(query) => files <= skip
          /\ query.list = "submits" => rows = <<>>
        BY <1>2, <1>6, <1>11, NothingLeft
    <2>3. total' <= skip'
      <3>1. CASE ByCounter(query)
        <4>1. total' = files /\ files <= skip  BY <1>2, <1>8, <2>2, <3>1
        <4> QED  BY <1>1, <1>7, <4>1
      <3>2. CASE query.list = "submits"
        <4>1. total' = 0  BY <1>1, <1>2, <2>2, <3>2, TotalIs
        <4> QED  BY <1>7, <4>1
      <3> QED  BY <2>2, <3>1, <3>2
    <2>4. PassedSeen' /\ EndSeen'  BY <2>2 DEF PassedSeen, EndSeen
    <2>5. AskingOK'  BY <1>2, <2>1, Zenon DEF AskingOK
    <2>6. Nothing'
      <3>1. query' = query /\ seen' = <<>> /\ ~asking'  BY <1>2, <2>1, <2>2
      <3> QED  BY <1>3, <2>2, <2>3, <3>1, Zenon DEF Nothing
    <2>7. InOrder'  BY <2>6, Zenon DEF InOrder
    <2> QED  BY <1>9, <1>10, <2>4, <2>5, <2>7 DEF PagingInv
  <1>12. CASE ~Paging!NothingToList(query)
    <2>1. skip' = skip /\ asking' = TRUE  BY <1>12 DEF Paging!ReadTotal
    <2>2. Paging!Started' = Paging!Started  BY <2>1 DEF Paging!Started
    <2>3. ASSUME NEW i \in Promised', PlaceIn(rows, query, i) < skip PROVE i \in Indexes(seen)
      <3>1. PlaceIn(rows, query, i) \in Nat  BY <1>1, <1>6, PlaceIs
      <3>2. Paging!Started  BY <1>1, <2>3, <3>1 DEF Paging!Started
      <3> QED  BY <1>6, <2>3, <3>2 DEF PagingInv, PassedSeen
    <2>4. Indexes(seen)' = Indexes(seen)  BY <1>2 DEF Indexes
    <2>5. PassedSeen'  BY <1>3, <2>1, <2>3, <2>4 DEF PassedSeen
    <2>6. EndSeen'  BY <2>1, Zenon DEF EndSeen, Paging!Finished
    <2>7. query.list = "submits" => t \in DOMAIN rows /\ \A i \in DOMAIN rows : i <= t
      <3> SUFFICES ASSUME query.list = "submits" PROVE t \in DOMAIN rows /\ \A i \in DOMAIN rows : i <= t
          OBVIOUS
      <3>1. rows # <<>>  BY <1>12 DEF Paging!NothingToList
      <3> QED  BY <1>1, <3>1, TotalIs, Zenon
    <2>8. TotalRead'  BY <1>2, <2>7 DEF TotalRead
    <2>9. TakenByIndex' = TakenByIndex  BY <1>2, <2>1 DEF TakenByIndex
    <2>10. ASSUME TakenByIndex, NEW i \in Promised', i > total' - skip' PROVE i \in Indexes(seen)
      <3>1. query.list = "submits" /\ query.desc = TRUE
          BY <1>1, <2>10 DEF TakenByIndex, Paging!Queries
      <3>2. PlaceIn(rows, query, i) = t - i /\ i \in Nat /\ t \in Nat
          BY <1>1, <1>6, <2>7, <3>1, IndexPlace
      <3>3. i > t - skip  BY <1>2, <2>1, <2>10
      <3>4. PICK p : p = PlaceIn(rows, query, i)  OBVIOUS
      <3>5. PICK u : u = t  OBVIOUS
      <3>6. p = u - i /\ i \in Nat /\ u \in Nat /\ i > u - skip  BY <3>2, <3>3, <3>4, <3>5
      <3>7. p < skip  BY <1>1, <3>6
      <3> QED  BY <2>3, <3>4, <3>7
    <2>11. \A i : i \in Promised' \ Paging!Unasked(query)'
              => i \in S \ (Paging!Uncounted(query) \cup Paging!Unasked(query))
        BY <1>3, <1>6
    <2>12. Within(rows, Promised \ Paging!Unasked(query))'
      <3>1. query.list = "miners" => t = Cardinality(S)
        <4>1. query.list = "miners" => query.list \notin {"submits", "address submits"}  OBVIOUS
        <4> QED  BY <1>1, <4>1, TotalIs, Zenon
      <3>2. ASSUME ~TakenByIndex, NEW i \in Promised' \ Paging!Unasked(query)'
            PROVE  PlaceIn(rows, query, i) < t \/ PlaceIn(rows, query, i) < PageSize
          BY <1>1, <1>12, <2>11, <3>2, TotalPlaces
      <3>3. query' = query /\ total' = t  BY <1>2
      <3> HIDE DEF t, S
      <3> QED  BY <1>3, <2>9, <3>1, <3>2, <3>3 DEF Within, S
    <2>13. AskingOK'  BY <2>4, <2>8, <2>9, <2>10, <2>12 DEF AskingOK
    <2>14. InOrder'
      <3> SUFFICES ASSUME Settled' PROVE (\E o : Listed(o, rows, query) /\ Beginning(o))'
          BY Zenon DEF InOrder
      <3>1. Paging!Started /\ Settled
        <4>1. Paging!Started' /\ still' /\ (ByCounter(query)' \/ unsure' = {})  BY Zenon DEF Settled
        <4>2. unsure' = {} => unsure = {}  BY <1>2
        <4> QED  BY <1>2, <1>3, <2>2, <4>1, <4>2, Zenon DEF Settled
      <3>2. ~Nothing  BY <1>2, <3>1, Zenon DEF Nothing, Paging!Finished
      <3>3. PICK o : Listed(o, rows, query) /\ Beginning(o)
          BY <3>1, <3>2, Zenon DEF PagingInv, InOrder
      <3>4. Beginning(o)'  BY <1>2, <1>3, <2>1, <3>3 DEF Beginning
      <3> QED  BY <1>3, <3>3, <3>4
    <2> QED  BY <1>9, <1>10, <2>5, <2>6, <2>13, <2>14 DEF PagingInv
  <1> QED  BY <1>11, <1>12

\* A page holds what it is about, and what is sure of it.
LEMMA SureOnPage ==
    ASSUME PagingInv, asking, NEW l, StorePage(l), NEW i \in AskedIn(rows, query) \ Paging!Unordered(query),
           i \in Promised, PlaceIn(rows, query, i) < skip + PageSize
    PROVE  i \in Indexes(seen) \/ \E k \in DOMAIN l : l[k] = i
  <1>1. RowsIn(rows) /\ query \in Paging!Queries /\ skip \in Nat  BY DEF PagingInv, PagingType
  <1>2. PICK p \in Nat : p = PlaceIn(rows, query, i)  BY <1>1, PlaceIs
  <1>3. CASE TakenByIndex
    <2>1. query.list = "submits" /\ query.desc = TRUE /\ TotalRead
        BY <1>1, <1>3 DEF TakenByIndex, Paging!Queries, PagingInv, AskingOK
    <2>2. PICK n \in Nat : DOMAIN rows = Numbers(n)  BY <1>1, <2>1, RowNumbers
    <2>3. PICK f \in Nat, P \in Nat, t, from \in Nat :
             /\ f = FirstIndex /\ P = PageSize /\ t = total /\ from = skip /\ t \in f..(f + n - 1)
             /\ DOMAIN rows = f..(f + n - 1)
        BY <1>1, <2>1, <2>2, PagingConstants DEF TotalRead, Numbers
    <2>4. PICK last : last = f + n - 1  OBVIOUS
    <2>5. last \in DOMAIN rows /\ \A j \in DOMAIN rows : j <= last /\ t <= last /\ t \in Nat  BY <2>3, <2>4
    <2>6. PlaceIn(rows, query, i) = last - i /\ i \in Nat /\ last \in Nat
        BY <1>1, <2>1, <2>5, IndexPlace
    <2>7. p = last - i /\ p < from + P  BY <1>2, <2>3, <2>6
    <2>8. i > t - from - P  BY <2>3, <2>5, <2>6, <2>7
    <2>9. CASE i > t - from
      <3>1. i > total - skip  BY <2>3, <2>9
      <3> QED  BY <1>3, <3>1 DEF PagingInv, AskingOK
    <2>10. CASE i <= t - from
      <3>1. i <= total - skip /\ i > total - skip - PageSize  BY <2>3, <2>8, <2>10
      <3>2. IndexPage(l)  BY <1>3 DEF StorePage
      <3> QED  BY <3>1, <3>2 DEF IndexPage
    <2>11. i <= t - from \/ i > t - from  BY <2>3, <2>5, <2>6
    <2> QED  BY <2>9, <2>10, <2>11
  <1>4. CASE ~TakenByIndex
    <2>1. OrderedPage(l)  BY <1>4, Zenon DEF StorePage
    <2>2. CASE p < skip  BY <1>2, <2>2 DEF PagingInv, PassedSeen
    <2>3. CASE skip <= p
      <3>1. skip <= PlaceIn(rows, query, i)  BY <1>2, <2>3
      <3> QED  BY <1>1, <2>1, <3>1, PageHolds
    <2>4. p < skip \/ skip <= p  BY <1>1, <1>2
    <2> QED  BY <2>2, <2>3, <2>4
  <1> QED  BY <1>3, <1>4

\* The last page ends with the last row that is promised.
LEMMA LastOnPage ==
    ASSUME PagingInv, asking, ~slipped, NEW l, StorePage(l), total <= skip + PageSize,
           NEW i \in AskedIn(rows, query) \ Paging!Unordered(query),
           i \in Promised \ Paging!Unasked(query)
    PROVE  i \in Indexes(seen) \/ \E k \in DOMAIN l : l[k] = i
  <1>1. RowsIn(rows) /\ query \in Paging!Queries /\ skip \in Nat /\ total \in Nat
      BY DEF PagingInv, PagingType
  <1>3. CASE TakenByIndex
    <2>1. query.list = "submits" /\ query.desc = TRUE
        BY <1>1, <1>3 DEF TakenByIndex, Paging!Queries
    <2>2. i \in Nat /\ i # 0
      <3>1. i \in DOMAIN rows  BY <1>1, RowsFinite
      <3>2. PICK n \in Nat : DOMAIN rows = FirstIndex..(FirstIndex + n - 1)  BY <1>1 DEF RowsIn
      <3>3. FirstIndex <= i /\ i \in Nat  BY <3>1, <3>2, PagingConstants
      <3>4. FirstIndex = 0 => i # 0  BY <2>1 DEF Paging!Unasked
      <3> QED  BY <3>3, <3>4, PagingConstants
    <2>3. CASE i > total - skip  BY <1>3, <2>3 DEF PagingInv, AskingOK
    <2>4. CASE i <= total - skip
      <3>1. i > total - skip - PageSize  BY <1>1, <2>2, PagingConstants
      <3>2. IndexPage(l)  BY <1>3 DEF StorePage
      <3> QED  BY <2>4, <3>1, <3>2 DEF IndexPage
    <2>5. i <= total - skip \/ i > total - skip  BY <1>1, <2>2
    <2> QED  BY <2>3, <2>4, <2>5
  <1>4. CASE ~TakenByIndex
    <2>1. PICK p \in Nat : p = PlaceIn(rows, query, i)  BY <1>1, PlaceIs
    <2>2. p < total \/ p < PageSize
        BY <1>4, <2>1 DEF PagingInv, AskingOK, Within
    <2>3. p < skip + PageSize  BY <1>1, <2>1, <2>2, PagingConstants
    <2> QED  BY <2>1, <2>3, SureOnPage
  <1> QED  BY <1>3, <1>4

\* A page behind the beginning of an order is more of it.
Longer(s, m) ==
    \E o : /\ Listed(o, rows, query)
           /\ m <= skip + PageSize /\ m <= Cardinality(AskedIn(rows, query))
           /\ m = skip + PageSize \/ m = Cardinality(AskedIn(rows, query))
           /\ \A k \in 1..m : s[k] = o[k]

LEMMA LongerBeginning ==
    ASSUME PagingInv, asking, NEW n \in Nat, DOMAIN seen = 1..n,
           NEW l, OrderedPage(l), NEW len \in Nat, DOMAIN l = 1..len,
           Paging!Unordered(query) = {}, Paging!Started => Settled,
           NEW s, DOMAIN s = 1..(n + len), \A k \in 1..n : s[k] = seen[k].index,
           \A k \in 1..len : s[n + k] = l[k]
    PROVE  Longer(s, n + len)
  <1> DEFINE S == AskedIn(rows, query)
  <1>1. RowsIn(rows) /\ query \in Paging!Queries /\ skip \in Nat  BY DEF PagingInv, PagingType
  <1>2. \A i \in S : Untied(S, KeyIn(rows, query), i)  BY <1>1, AllUntied
  <1>3. PICK o : Listed(o, rows, query) /\ l = Paging!Part(o, skip)  BY DEF OrderedPage
  <1>4. PICK N \in Nat : N = Cardinality(S)  BY <1>1, RowsFinite, FS_CardinalityType
  <1>5. o \in [1..N -> S]  BY <1>3, <1>4 DEF Listed, IsOrder
  <1>6. PICK m \in Nat : IsPart(o, N, skip, m)  BY <1>1, <1>5, PartIs
  <1>7. l = [k \in 1..m |-> o[skip + k]]  BY <1>3, <1>6 DEF IsPart
  <1>8. m = len
    <2>1. 1..m = 1..len  BY <1>7
    <2> QED  BY <2>1, SameInterval
  <1>9. /\ n <= skip /\ n <= N /\ (n = skip \/ n = N)
        /\ \A k \in 1..n : seen[k].index = o[k]
    <2>1. CASE ~Paging!Started
      <3>1. skip = 0  BY <1>1, <2>1 DEF Paging!Started
      <3>2. seen = <<>>  BY <3>1 DEF PagingInv, PagingType
      <3>3. 1..n = {}  BY <3>2
      <3>4. n = 0  BY <3>3
      <3> QED  BY <3>1, <3>3, <3>4
    <2>2. CASE Paging!Started
      <3>1. PICK u : Listed(u, rows, query) /\ Beginning(u)
          BY <2>2, Zenon DEF PagingInv, InOrder, Nothing
      <3>2. u = o
        <4>1. /\ KeyIn(rows, query) \in [S -> Int] /\ IsFiniteSet(S) /\ DescOf(query) \in BOOLEAN
              /\ IsOrder(o, S, KeyIn(rows, query), DescOf(query))
              /\ IsOrder(u, S, KeyIn(rows, query), DescOf(query))
            BY <1>1, <1>3, <3>1, KeysInt, RowsFinite DEF DescOf, Paging!Queries, Listed
        <4> HIDE DEF S
        <4> QED  BY <1>2, <4>1, OrderUnique
      <3>3. PICK a \in Nat : /\ DOMAIN seen = 1..a /\ a <= skip /\ a <= N
                             /\ (a = skip \/ a = N) /\ \A k \in 1..a : seen[k].index = u[k]
          BY <1>4, <3>1 DEF Beginning
      <3>4. a = n
        <4>1. 1..a = 1..n  BY <3>3
        <4> QED  BY <4>1, SameInterval
      <3> QED  BY <3>2, <3>3, <3>4
    <2> QED  BY <2>1, <2>2
  <1>10. PICK from \in Nat : from = skip  BY <1>1
  <1>11. /\ n <= from /\ n <= N /\ (n = from \/ n = N)
         /\ len <= PageSize /\ (len > 0 => from + len <= N)
         /\ (from + len = N \/ len = PageSize \/ (from >= N /\ len = 0))
      BY <1>6, <1>8, <1>9, <1>10 DEF IsPart
  <1>12. /\ \A k \in 1..n : s[k] = o[k]
         /\ \A k \in 1..len : s[n + k] = o[from + k]
    <2>1. \A k \in 1..len : l[k] = o[from + k]  BY <1>7, <1>8, <1>10
    <2> QED  BY <1>9, <2>1
  <1>13. /\ n + len <= from + PageSize /\ n + len <= N
         /\ n + len = from + PageSize \/ n + len = N
    <2>1. len > 0 => n = from  BY <1>11
    <2> QED  BY <1>11, <2>1, PagingConstants
  <1>14. ASSUME NEW k \in 1..(n + len) PROVE s[k] = o[k]
    <2>1. CASE k \in 1..n  BY <1>12, <2>1
    <2>2. CASE k \notin 1..n
      <3>1. k - n \in 1..len /\ n + (k - n) = k /\ n = from /\ from + (k - n) = k
          BY <1>11, <2>2
      <3>2. s[n + (k - n)] = o[from + (k - n)]  BY <1>12, <3>1
      <3> QED  BY <3>1, <3>2
    <2> QED  BY <2>1, <2>2
  <1> QED  BY <1>3, <1>4, <1>10, <1>13, <1>14 DEF Longer

\* The second query.
LEMMA PageKeeps == ASSUME PagingInv, Paging!ReadPage PROVE PagingInv'
  <1> DEFINE S == AskedIn(rows, query)
  <1>1. /\ RowsIn(rows) /\ OwnersKnown /\ files \in Nat /\ query \in Paging!Queries
        /\ skip \in Nat /\ SkipOK /\ total \in Nat /\ asking
        /\ before \subseteq S \cup Paging!Overstepped(query)
      BY DEF PagingInv, PagingType, Paging!ReadPage
  <1>2. /\ skip' = skip + PageSize /\ asking' = FALSE
        /\ unsure' = unsure \cup Paging!Unordered(query)
        /\ UNCHANGED <<rows, addresses, files, query, total, before, still, slipped>>
      BY DEF Paging!ReadPage
  <1>3. /\ S' = S /\ \A i : PlaceIn(rows, query, i)' = PlaceIn(rows, query, i)
        /\ Paging!Overstepped(query)' = Paging!Overstepped(query)
        /\ Paging!Unasked(query)' = Paging!Unasked(query)
        /\ \A o : Listed(o, rows, query)' = Listed(o, rows, query)
        /\ RowsIn(rows)' /\ OwnersKnown' /\ ByCounter(query)' = ByCounter(query)
        /\ query' \in Paging!Queries
      BY <1>2, SameRows
  <1>4. PICK page \in Paging!Pages(query) : seen' = seen \o page  BY DEF Paging!ReadPage
  <1>5. TotalRead  BY <1>1, Zenon DEF PagingInv, AskingOK
  <1>6. PICK l : StorePage(l) /\ ShownAs(page, l)  BY <1>1, <1>5, PageIs
  <1>7. PICK len \in Nat : /\ DOMAIN page = 1..len /\ DOMAIN l = 1..len
                           /\ page = [k \in 1..len |-> page[k]]
      BY <1>6 DEF ShownAs
  <1>8. \A k \in 1..len : /\ page[k].index = l[k]
                          /\ query.list # "stats" => page[k].from = rows[l[k]].owner
      BY <1>6, <1>7 DEF ShownAs
  <1>9. \A k \in 1..len : l[k] \in S
    <2>1. PICK m \in Nat : l \in [1..m -> S]  BY <1>6 DEF StorePage, IsList
    <2>2. 1..m = 1..len  BY <1>7, <2>1
    <2> QED  BY <2>1, <2>2
  <1>10. PICK n \in Nat : DOMAIN seen = 1..n /\ seen = [k \in 1..n |-> seen[k]]
      BY DEF PagingInv, PagingType
  <1>11. /\ DOMAIN seen' = 1..(n + len) /\ seen' = [k \in 1..(n + len) |-> seen'[k]]
         /\ \A k \in 1..n : seen'[k] = seen[k]
         /\ \A k \in 1..len : seen'[n + k] = page[k]
    <2>1. PICK s, t, w : s = seen /\ t = page /\ w = seen'  OBVIOUS
    <2>2. s = [k \in 1..n |-> s[k]] /\ t = [k \in 1..len |-> t[k]] /\ w = s \o t
        BY <1>4, <1>7, <1>10, <2>1
    <2>3. /\ DOMAIN w = 1..(n + len) /\ w = [k \in 1..(n + len) |-> w[k]]
          /\ \A k \in 1..n : w[k] = s[k]
          /\ \A k \in 1..len : w[n + k] = t[k]
      <3>1. /\ DOMAIN (s \o t) = 1..(n + len) /\ s \o t = [k \in 1..(n + len) |-> (s \o t)[k]]
            /\ \A k \in 1..n : (s \o t)[k] = s[k]
            /\ \A k \in 1..len : (s \o t)[n + k] = t[k]
          BY <2>2, ConcatIs
      <3> QED  BY <2>2, <3>1, Zenon
    <2> QED  BY <2>1, <2>3
  <1>12. ASSUME NEW k \in 1..(n + len)
         PROVE  \/ k \in 1..n /\ seen'[k] = seen[k]
                \/ \E j \in 1..len : k = n + j /\ seen'[k] = page[j]
    <2>1. k \in 1..n \/ (k - n \in 1..len /\ n + (k - n) = k)  OBVIOUS
    <2> QED  BY <1>11, <2>1
  <1>13. skip' \in Nat /\ skip' # 0 /\ skip' >= skip /\ skip' >= PageSize
      BY <1>1, <1>2, PagingConstants
  <1>14. PagingType'
    <2>1. \A k \in DOMAIN seen' : seen'[k].index \in S
      <3>1. \A k \in 1..n : seen[k].index \in S  BY <1>10 DEF PagingInv, PagingType
      <3> QED  BY <1>8, <1>9, <1>11, <1>12, <3>1
    <2>2. ByCounter(query)' => total' <= files'
      <3>1. total' = total /\ files' = files  BY <1>2
      <3>2. ByCounter(query) => total <= files  BY DEF PagingInv, PagingType
      <3> QED  BY <1>3, <3>1, <3>2, Zenon
    <2>3. total' \in Nat /\ files' \in Nat  BY <1>1, <1>2
    <2>4. \E m \in Nat : DOMAIN seen' = 1..m /\ seen' = [k \in 1..m |-> seen'[k]]
      <3>1. n + len \in Nat  OBVIOUS
      <3> QED  BY <1>11, <3>1, Zenon
    <2> HIDE DEF S
    <2>5. before' \subseteq S' \cup Paging!Overstepped(query)'  BY <1>1, <1>2, <1>3
    <2>6. \A k \in DOMAIN seen' : seen'[k].index \in S'  BY <1>3, <2>1
    <2>7. skip' = 0 => seen' = <<>>  BY <1>13
    <2> QED  BY <1>3, <1>13, <2>2, <2>3, <2>4, <2>5, <2>6, <2>7, Zenon DEF PagingType, SkipOK, S
  <1>15. NamesOK'
    <2> SUFFICES ASSUME query.list # "stats", NEW k \in 1..(n + len)
                 PROVE  seen'[k].from = rows[seen'[k].index].owner
        BY <1>2, <1>11 DEF NamesOK
    <2>1. CASE k \in 1..n /\ seen'[k] = seen[k]
        BY <1>10, <2>1 DEF PagingInv, NamesOK
    <2>2. CASE \E j \in 1..len : k = n + j /\ seen'[k] = page[j]  BY <1>8, <2>2
    <2> QED  BY <1>12, <2>1, <2>2
  <1>16. \A i : i \in Indexes(seen) \/ (\E k \in DOMAIN l : l[k] = i) => i \in Indexes(seen')
    <2> SUFFICES ASSUME NEW i, i \in Indexes(seen) \/ (\E k \in 1..len : l[k] = i)
                 PROVE  \E k \in 1..(n + len) : seen'[k].index = i
        BY <1>7, <1>11 DEF Indexes
    <2>1. CASE i \in Indexes(seen)
      <3>1. PICK k \in 1..n : seen[k].index = i  BY <1>10, <2>1 DEF Indexes
      <3>2. k \in 1..(n + len)  OBVIOUS
      <3> QED  BY <1>11, <3>1, <3>2
    <2>2. CASE \E k \in 1..len : l[k] = i
      <3>1. PICK k \in 1..len : l[k] = i  BY <2>2
      <3>2. n + k \in 1..(n + len)  OBVIOUS
      <3> QED  BY <1>8, <1>11, <3>1, <3>2
    <2> QED  BY <2>1, <2>2
  <1>17. Indexes(seen)' = Indexes(seen')  BY DEF Indexes
  <1>18. \A i \in Promised' : i \in Promised /\ i \in S \ Paging!Unordered(query)
      BY <1>1, <1>2, <1>3 DEF Promised
  <1>19. PassedSeen'
    <2> SUFFICES ASSUME NEW i \in Promised', PlaceIn(rows, query, i) < skip'
                 PROVE  i \in Indexes(seen')
        BY <1>3, <1>17 DEF PassedSeen
    <2>1. PlaceIn(rows, query, i) < skip + PageSize  BY <1>2
    <2> QED  BY <1>1, <1>6, <1>16, <1>18, <2>1, SureOnPage
  <1>20. EndSeen'
    <2> SUFFICES ASSUME Paging!Finished', ~slipped', NEW i \in Promised' \ Paging!Unasked(query)'
                 PROVE  i \in Indexes(seen')
        BY <1>17 DEF EndSeen
    <2>1. total <= skip + PageSize
      <3>1. skip' >= total'  BY DEF Paging!Finished
      <3> QED  BY <1>1, <1>2, <3>1, PagingConstants
    <2>2. i \in Promised \ Paging!Unasked(query) /\ i \in S \ Paging!Unordered(query) /\ ~slipped
        BY <1>2, <1>3, <1>18
    <2> QED  BY <1>1, <1>6, <1>16, <2>1, <2>2, LastOnPage
  <1>21. AskingOK'  BY <1>2, Zenon DEF AskingOK
  <1>22. InOrder'
    <2> SUFFICES ASSUME Settled' PROVE (\E o : Listed(o, rows, query) /\ Beginning(o))'
        BY Zenon DEF InOrder
    <2>1. still /\ (ByCounter(query) \/ (unsure = {} /\ Paging!Unordered(query) = {}))
      <3>1. still' /\ (ByCounter(query)' \/ unsure' = {})  BY Zenon DEF Settled
      <3>2. unsure' = {} => unsure = {} /\ Paging!Unordered(query) = {}  BY <1>2
      <3> QED  BY <1>2, <1>3, <3>1, <3>2, Zenon
    <2>2. Paging!Started => Settled  BY <2>1, Zenon DEF Settled
    <2>3. Paging!Unordered(query) = {}
      <3>1. ByCounter(query) => Paging!Unordered(query) = {}  BY DEF ByCounter, Paging!Unordered
      <3> QED  BY <2>1, <3>1, Zenon
    <2>4. OrderedPage(l)  BY <1>6, <2>1, Zenon DEF StorePage
    <2>5. PICK s : s = [k \in 1..(n + len) |-> seen'[k].index]  OBVIOUS
    <2>6. /\ DOMAIN s = 1..(n + len) /\ \A k \in 1..n : s[k] = seen[k].index
          /\ \A k \in 1..len : s[n + k] = l[k]
      <3>1. \A k \in 1..n : k \in 1..(n + len)  OBVIOUS
      <3>2. \A k \in 1..len : n + k \in 1..(n + len)  OBVIOUS
      <3> QED  BY <1>8, <1>11, <2>5, <3>1, <3>2
    <2>7. Longer(s, n + len)
        BY <1>1, <1>7, <1>10, <2>2, <2>3, <2>4, <2>6, LongerBeginning
    <2>8. PICK o : /\ Listed(o, rows, query)
                   /\ n + len <= skip + PageSize /\ n + len <= Cardinality(S)
                   /\ n + len = skip + PageSize \/ n + len = Cardinality(S)
                   /\ \A k \in 1..(n + len) : s[k] = o[k]
        BY <2>7 DEF Longer
    <2>9. \A k \in 1..(n + len) : seen'[k].index = o[k]  BY <2>5, <2>8
    <2>10. Cardinality(AskedIn(rows, query))' = Cardinality(S)  BY <1>3
    <2>11. n + len \in Nat  OBVIOUS
    <2>12. Beginning(o)'  BY <1>2, <1>11, <2>8, <2>9, <2>10, <2>11 DEF Beginning
    <2> QED  BY <1>3, <2>8, <2>12
  <1> QED  BY <1>14, <1>15, <1>19, <1>20, <1>21, <1>22 DEF PagingInv

\* What is added, or moves behind the rows the client is promised, takes nothing from it.
LEMMA Grown ==
    ASSUME PagingInv, RowsIn(rows'), OwnersKnown', NEW u, unsure' = unsure \cup u,
           \A i \in DOMAIN rows : i \in DOMAIN rows' /\ rows'[i].owner = rows[i].owner,
           AskedIn(rows, query) \subseteq AskedIn(rows', query),
           \A i \in Promised \ unsure' : AheadIn(rows, query, i) \subseteq AheadIn(rows', query, i),
           asking /\ ~slipped' => Within(rows', (Promised \ unsure') \ Paging!Unasked(query)),
           ~still', slipped => slipped', UNCHANGED <<files, query, skip, total, asking, seen, before>>
    PROVE  PagingInv'
  <1> DEFINE S == AskedIn(rows, query)
             T == AskedIn(rows', query)
  <1>0. /\ files' = files /\ query' = query /\ skip' = skip /\ total' = total
        /\ seen' = seen /\ before' = before /\ asking' = asking
      OBVIOUS
  <1>1. /\ RowsIn(rows) /\ S \subseteq DOMAIN rows /\ skip \in Nat
        /\ before \subseteq S \cup Paging!Overstepped(query)
        /\ \A k \in DOMAIN seen : seen[k].index \in S
      BY RowsFinite DEF PagingInv, PagingType
  <1>2. /\ Paging!Overstepped(query)' = Paging!Overstepped(query)
        /\ Paging!Unasked(query)' = Paging!Unasked(query)
        /\ ByCounter(query)' = ByCounter(query)
      BY <1>0 DEF Paging!Overstepped, Paging!Unasked, ByCounter
  <1>3. AskedIn(rows, query)' = T /\ RowsIn(rows)'
      BY <1>0, <1>2 DEF AskedIn, RowsIn
  <1>4. \A i : PlaceIn(rows, query, i)' = PlaceIn(rows', query, i)
    <2>1. KeyIn(rows, query)' = KeyIn(rows', query)  BY <1>0, <1>3 DEF KeyIn
    <2>2. DescOf(query)' = DescOf(query)  BY <1>0 DEF DescOf
    <2>3. \A i : AheadIn(rows, query, i)' = AheadIn(rows', query, i)
        BY <1>3, <2>1, <2>2 DEF AheadIn, Ahead
    <2> QED  BY <2>3 DEF PlaceIn
  <1>5. Promised' = Promised \ unsure'  BY <1>0, <1>2 DEF Promised
  <1>6. PagingType'
    <2>1. S \subseteq T  OBVIOUS
    <2>2. before' \subseteq T \cup Paging!Overstepped(query) /\ \A k \in DOMAIN seen' : seen'[k].index \in T
      <3> HIDE DEF S, T
      <3> QED  BY <1>0, <1>1, <2>1
    <2>3. /\ files' \in Nat /\ query' \in Paging!Queries /\ skip' \in Nat /\ total' \in Nat
          /\ \E n \in Nat : DOMAIN seen' = 1..n /\ seen' = [k \in 1..n |-> seen'[k]]
          /\ skip' = 0 => seen' = <<>>
          /\ SkipOK'
        BY <1>0, Zenon DEF PagingInv, PagingType, Paging!Queries, SkipOK
    <2>4. ByCounter(query)' => total' <= files'
        BY <1>0, <1>2, Zenon DEF PagingInv, PagingType
    <2> HIDE DEF S, T
    <2>5. before' \subseteq AskedIn(rows, query)' \cup Paging!Overstepped(query)'
        BY <1>2, <1>3, <2>2
    <2>6. \A k \in DOMAIN seen' : seen'[k].index \in AskedIn(rows, query)'  BY <1>3, <2>2
    <2> QED  BY <1>3, <2>3, <2>4, <2>5, <2>6, Zenon DEF PagingType
  <1>7. NamesOK'
    <2> SUFFICES ASSUME query.list # "stats", NEW k \in DOMAIN seen
                 PROVE  seen[k].from = rows'[seen[k].index].owner
        BY <1>0 DEF NamesOK
    <2>1. seen[k].index \in DOMAIN rows /\ seen[k].from = rows[seen[k].index].owner
        BY <1>1 DEF PagingInv, NamesOK
    <2> QED  BY <2>1
  <1>8. PassedSeen'
    <2> SUFFICES ASSUME NEW i \in Promised \ unsure', PlaceIn(rows', query, i) < skip
                 PROVE  i \in Indexes(seen)
        BY <1>0, <1>4, <1>5 DEF PassedSeen, Indexes
    <2>1. i \in S /\ i \in T  BY <1>1 DEF Promised
    <2>2. /\ IsFiniteSet(AheadIn(rows', query, i)) /\ PlaceIn(rows', query, i) \in Nat
          /\ PlaceIn(rows, query, i) \in Nat
        BY <1>1, <2>1, PlaceIs
    <2>3. PlaceIn(rows, query, i) <= PlaceIn(rows', query, i)
      <3>1. AheadIn(rows, query, i) \subseteq AheadIn(rows', query, i)  OBVIOUS
      <3> QED  BY <2>2, <3>1, FS_Subset DEF PlaceIn
    <2>4. PlaceIn(rows, query, i) < skip  BY <1>1, <2>2, <2>3
    <2> QED  BY <2>4 DEF PagingInv, PassedSeen
  <1>9. EndSeen'
    <2> SUFFICES ASSUME Paging!Finished', ~slipped', NEW i \in Promised' \ Paging!Unasked(query)'
                 PROVE  i \in Indexes(seen)'
        BY DEF EndSeen
    <2>1. Paging!Finished /\ ~slipped
      <3>1. Paging!Finished' = Paging!Finished  BY <1>0 DEF Paging!Finished, Paging!Started
      <3>2. Paging!Finished  BY <3>1, Zenon
      <3>3. ~slipped  BY Zenon
      <3> QED  BY <3>2, <3>3
    <2>2. i \in Promised \ Paging!Unasked(query)  BY <1>2, <1>5
    <2>3. Indexes(seen)' = Indexes(seen)  BY <1>0 DEF Indexes
    <2>4. Promised \ Paging!Unasked(query) \subseteq Indexes(seen)
        BY <2>1, Zenon DEF PagingInv, EndSeen
    <2> QED  BY <2>2, <2>3, <2>4
  <1>10. AskingOK'
    <2> SUFFICES ASSUME asking'
                 PROVE  /\ TotalRead'
                        /\ TakenByIndex' => \A i \in Promised' : i > total' - skip' => i \in Indexes(seen)'
                        /\ ~slipped' => Within(rows, Promised \ Paging!Unasked(query))'
        BY Zenon DEF AskingOK
    <2>1. /\ asking /\ TotalRead
          /\ TakenByIndex => \A i \in Promised : i > total - skip => i \in Indexes(seen)
      <3>1. asking  BY <1>0
      <3>2. AskingOK  BY DEF PagingInv
      <3> QED  BY <3>1, <3>2, Zenon DEF AskingOK
    <2>2. TotalRead'
      <3>1. query.list = "submits" => total \in DOMAIN rows  BY <2>1 DEF TotalRead
      <3>2. query.list = "submits" => total \in DOMAIN rows'  BY <3>1
      <3> QED  BY <1>0, <3>2, Zenon DEF TotalRead
    <2>3. TakenByIndex' = TakenByIndex  BY <1>0 DEF TakenByIndex
    <2>4. TakenByIndex' => \A i \in Promised' : i > total' - skip' => i \in Indexes(seen)'
      <3>1. Indexes(seen)' = Indexes(seen)  BY <1>0 DEF Indexes
      <3>2. Promised' \subseteq Promised  BY <1>5
      <3> QED  BY <1>0, <2>1, <2>3, <3>1, <3>2
    <2>5. ASSUME ~slipped' PROVE Within(rows, Promised \ Paging!Unasked(query))'
      <3>1. Within(rows', (Promised \ unsure') \ Paging!Unasked(query))  BY <2>1, <2>5, Zenon
      <3>2. /\ query.list = "miners" => total = Cardinality(T)
            /\ ~TakenByIndex =>
                 \A i \in (Promised \ unsure') \ Paging!Unasked(query) :
                    PlaceIn(rows', query, i) < total \/ PlaceIn(rows', query, i) < PageSize
          BY <3>1 DEF Within
      <3> HIDE DEF T
      <3> QED  BY <1>0, <1>2, <1>3, <1>4, <1>5, <2>3, <3>2 DEF Within
    <2> QED  BY <2>2, <2>4, <2>5
  <1>11. InOrder'  BY Zenon DEF InOrder, Settled
  <1> QED  BY <1>6, <1>7, <1>8, <1>9, <1>10, <1>11 DEF PagingInv

\* Rows added behind the last one, or a new one.
LEMMA Added ==
    ASSUME PagingInv, NEW r, r = rows', RowsIn(r), OwnersKnown', unsure' = unsure,
           \A i \in DOMAIN rows : i \in DOMAIN r /\ r[i] = rows[i],
           asking /\ ~slipped' => Within(r, Promised \ Paging!Unasked(query)),
           ~still', slipped => slipped', UNCHANGED <<files, query, skip, total, asking, seen, before>>
    PROVE  PagingInv'
  <1> DEFINE S == AskedIn(rows, query)
             T == AskedIn(r, query)
  <1>1. S \subseteq T  BY DEF AskedIn
  <1>2. \A i \in S : KeyIn(r, query)[i] = KeyIn(rows, query)[i]
    <2>1. ASSUME NEW i \in S PROVE KeyIn(r, query)[i] = KeyIn(rows, query)[i]
      <3>1. r[i] = rows[i] /\ i \in T  BY <1>1 DEF AskedIn
      <3> QED  BY <3>1 DEF KeyIn
    <2> QED  BY <2>1
  <1>3. ASSUME NEW i \in Promised \ unsure'
        PROVE  AheadIn(rows, query, i) \subseteq AheadIn(r, query, i)
    <2>1. i \in S  BY DEF PagingInv, PagingType, Promised
    <2> HIDE DEF S, T
    <2> QED  BY <1>1, <1>2, <2>1 DEF AheadIn, Ahead, S, T
  <1>4. unsure' = unsure \cup {}  OBVIOUS
  <1>5. \A i \in DOMAIN rows : i \in DOMAIN rows' /\ rows'[i].owner = rows[i].owner  OBVIOUS
  <1>6. RowsIn(rows') /\ AskedIn(rows, query) \subseteq AskedIn(rows', query)  BY <1>1
  <1>7. \A i \in Promised \ unsure' : AheadIn(rows, query, i) \subseteq AheadIn(rows', query, i)  BY <1>3
  <1>8. Promised \ unsure' = Promised  BY DEF Promised
  <1>9. asking /\ ~slipped' => Within(rows', (Promised \ unsure') \ Paging!Unasked(query))
      BY <1>8, Zenon
  <1> HIDE DEF S, T
  <1> QED  BY <1>4, <1>5, <1>6, <1>7, <1>9, Grown

\* A rank of a later block is greater.
LEMMA LaterRank ==
    ASSUME NEW a \in Nat, NEW b \in Nat, a <= b, NEW K \in Nat, K >= 1, NEW x \in 1..2, NEW y \in 1..2
    PROVE  ~((b + 1) * K + y < a * K + x)
  <1>0. b - a \in Nat /\ b = a + (b - a)  OBVIOUS
  <1>1. PICK d \in Nat : b = a + d  BY <1>0
  <1>2. (b + 1) * K = a * K + d * K + K  BY <1>1
  <1>3. d * K \in Nat /\ a * K \in Nat  OBVIOUS
  <1>4. PICK p \in Nat, q \in Nat : p = a * K /\ q = d * K  BY <1>3
  <1>5. ~(p + q + K + y < p + x)  BY <1>4
  <1> QED  BY <1>2, <1>4, <1>5

\* In ascending order rows that come later are behind all that were there.
LEMMA AddedLast ==
    ASSUME PagingInv, NEW r, RowsIn(r), NEW b \in Nat, ~DescOf(query), query.list # "miners",
           \A i \in DOMAIN rows : i \in DOMAIN r /\ r[i] = rows[i] /\ rows[i].block <= b,
           \A j \in DOMAIN r \ DOMAIN rows : r[j].block = b + 1 /\ \A i \in DOMAIN rows : j > i,
           asking, ~slipped
    PROVE  Within(r, Promised \ Paging!Unasked(query))
  <1> DEFINE S == AskedIn(rows, query)
             T == AskedIn(r, query)
  <1>1. /\ RowsIn(rows) /\ Within(rows, Promised \ Paging!Unasked(query))
        /\ before \subseteq S \cup Paging!Overstepped(query)
      BY Zenon DEF PagingInv, PagingType, AskingOK
  <1>2. S \subseteq T /\ S \subseteq DOMAIN rows /\ T \subseteq DOMAIN r /\ T \cap DOMAIN rows \subseteq S
      BY DEF AskedIn
  <1>3. ASSUME NEW i \in S, NEW j \in T \ S PROVE ~(KeyIn(r, query)[j] < KeyIn(r, query)[i])
    <2>1. i \in DOMAIN rows /\ j \in DOMAIN r \ DOMAIN rows /\ i \in T /\ j \in T  BY <1>2
    <2>2. r[j].block = b + 1 /\ j > i /\ r[i] = rows[i] /\ r[i].block <= b  BY <2>1
    <2>3. /\ i \in Nat /\ j \in Nat /\ r[i] \in Stored /\ r[j] \in Stored
        BY <1>1, <2>1, RowsFinite
    <2>4. r[i].block \in Nat /\ r[i].rank \in 1..2 /\ r[j].rank \in 1..2  BY <2>3 DEF Stored
    <2>5. CASE query.list \in ByBlock
      <3>1. KeyIn(r, query)[j] = r[j].block /\ KeyIn(r, query)[i] = r[i].block
          BY <2>1, <2>5 DEF KeyIn
      <3> QED  BY <2>2, <2>4, <3>1
    <2>6. CASE query.list \in ByRank
      <3>1. /\ KeyIn(r, query)[j] = r[j].block * (MaxRows + 1) + r[j].rank
            /\ KeyIn(r, query)[i] = r[i].block * (MaxRows + 1) + r[i].rank
          BY <2>1, <2>6 DEF KeyIn, ByBlock, ByRank
      <3>2. PICK K \in Nat, x \in 1..2, y \in 1..2, a \in Nat :
               K = MaxRows + 1 /\ K >= 1 /\ x = r[i].rank /\ y = r[j].rank /\ a = r[i].block
          BY <2>4, PagingConstants
      <3>3. a <= b  BY <2>2, <3>2
      <3>4. ~((b + 1) * K + y < a * K + x)  BY <3>2, <3>3, LaterRank
      <3> QED  BY <2>2, <3>1, <3>2, <3>4
    <2>7. CASE query.list \notin ByBlock \cup ByRank
      <3>1. KeyIn(r, query)[j] = j /\ KeyIn(r, query)[i] = i  BY <2>1, <2>7 DEF KeyIn
      <3> QED  BY <2>2, <2>3, <3>1
    <2> QED  BY <2>5, <2>6, <2>7
  <1>4. ASSUME NEW i \in S PROVE PlaceIn(r, query, i) <= PlaceIn(rows, query, i)
    <2>1. \A j \in S : KeyIn(r, query)[j] = KeyIn(rows, query)[j]
      <3>1. ASSUME NEW j \in S PROVE KeyIn(r, query)[j] = KeyIn(rows, query)[j]
        <4>1. r[j] = rows[j] /\ j \in T  BY <1>2
        <4> QED  BY <4>1 DEF KeyIn
      <3> QED  BY <3>1
    <2>2. AheadIn(r, query, i) \subseteq AheadIn(rows, query, i)
      <3> SUFFICES ASSUME NEW j \in AheadIn(r, query, i) PROVE j \in AheadIn(rows, query, i)
          OBVIOUS
      <3>1. j \in T /\ KeyIn(r, query)[j] < KeyIn(r, query)[i]  BY DEF AheadIn, Ahead
      <3>2. j \in S  BY <1>3, <3>1
      <3> QED  BY <2>1, <3>1, <3>2 DEF AheadIn, Ahead
    <2>3. /\ IsFiniteSet(AheadIn(rows, query, i))
        BY <1>1, PlaceIs
    <2> QED  BY <2>2, <2>3, FS_Subset DEF PlaceIn
  <1>5. ASSUME ~TakenByIndex, NEW i \in Promised \ Paging!Unasked(query)
        PROVE  PlaceIn(r, query, i) < total \/ PlaceIn(r, query, i) < PageSize
    <2>1. i \in S /\ i \in T  BY <1>1, <1>2 DEF Promised
    <2>2. PlaceIn(rows, query, i) < total \/ PlaceIn(rows, query, i) < PageSize
        BY <1>1, <1>5 DEF Within
    <2>3. PICK p \in Nat, o \in Nat : p = PlaceIn(r, query, i) /\ o = PlaceIn(rows, query, i)
        BY <1>1, <2>1, PlaceIs
    <2>4. total \in Nat  BY DEF PagingInv, PagingType
    <2>5. p <= o  BY <1>4, <2>1, <2>3
    <2> QED  BY <2>2, <2>3, <2>4, <2>5, PagingConstants
  <1> QED  BY <1>5 DEF Within

\* The last index and the last block.
LEMMA LastRow ==
    ASSUME NEW N \in Nat, rows \in [FirstIndex..(FirstIndex + N - 1) -> Stored], RowsIn(rows)
    PROVE  /\ Paging!LastIndex = FirstIndex + N - 1
           /\ Paging!LastBlock \in Nat /\ \A i \in DOMAIN rows : rows[i].block <= Paging!LastBlock
  <1>1. IsFiniteSet(DOMAIN rows) /\ Cardinality(DOMAIN rows) = N
    <2>1. DOMAIN rows = FirstIndex..(FirstIndex + N - 1)  OBVIOUS
    <2>2. (FirstIndex + N - 1) - FirstIndex + 1 = N  BY PagingConstants
    <2> QED  BY <2>1, <2>2, PagingConstants, FS_Interval
  <1>2. Paging!LastIndex = FirstIndex + N - 1  BY <1>1, PagingLibrary DEF Paging!LastIndex
  <1>3. CASE rows = <<>>
    <2>1. DOMAIN rows = {}  BY <1>3, NoDomain
    <2> QED  BY <1>2, <1>3, <2>1 DEF Paging!LastBlock
  <1>4. CASE rows # <<>>
    <2> DEFINE B == {rows[i].block : i \in DOMAIN rows}
    <2>1. Paging!LastBlock = Max(B)  BY <1>4, PagingLibrary DEF Paging!LastBlock
    <2>2. PICK top \in Nat : \A i \in DOMAIN rows : rows[i].block <= top  BY DEF RowsIn
    <2>3. \A i \in DOMAIN rows : rows[i].block \in Nat  BY DEF Stored
    <2>4. B \subseteq 0..top  BY <2>2, <2>3
    <2>5. CASE DOMAIN rows = {}
      <3>1. N = 0  BY <1>1, <2>5, FS_EmptySet
      <3>2. rows = [i \in {} |-> rows[i]]  BY <2>5
      <3>3. rows = <<>>  BY <3>2, NoFunction
      <3> QED  BY <1>4, <3>3
    <2>6. CASE DOMAIN rows # {}
      <3>1. B # {}  BY <2>6
      <3> HIDE DEF B
      <3>2. Max(B) \in B /\ \A x \in B : x <= Max(B)  BY <2>2, <2>4, <3>1, LargestElement
      <3>3. Max(B) \in Nat
        <4>1. Max(B) \in 0..top  BY <2>4, <3>2, Zenon
        <4>2. 0..top \subseteq Nat  OBVIOUS
        <4> QED  BY <4>1, <4>2, Zenon
      <3> QED  BY <1>2, <2>1, <3>2, <3>3 DEF B
    <2> QED  BY <2>5, <2>6
  <1> QED  BY <1>3, <1>4

LEMMA NextInterval ==
    ASSUME NEW f \in Nat, NEW N \in Nat, NEW n \in 1..2, NEW last, last = f + N - 1
    PROVE  /\ (f..last) \cap (last + 1..last + n) = {}
           /\ (f..last) \cup (last + 1..last + n) = f..(f + (N + n) - 1)
  OBVIOUS

\* n rows of the block after b, behind the last row.
Behind(last, b, n) ==
    \E new \in [last + 1..last + n -> [owner : Paging!Senders, block : {b + 1}, rank : Paging!Ranks]] :
       /\ rows' = [i \in DOMAIN rows \cup DOMAIN new |-> IF i \in DOMAIN new THEN new[i] ELSE rows[i]]
       /\ addresses' = addresses \cup {new[i].owner : i \in DOMAIN new}

LEMMA PushKeeps == ASSUME PagingInv, Paging!Push PROVE PagingInv'
  <1>1. PICK n \in 1..2 : Behind(Paging!LastIndex, Paging!LastBlock, n)
      BY DEF Paging!Push, Behind
  <1>2. PICK N \in Nat : rows \in [FirstIndex..(FirstIndex + N - 1) -> Stored]
      BY DEF PagingInv, PagingType, RowsIn
  <1>3. RowsIn(rows)  BY DEF PagingInv, PagingType
  <1>4. PICK b \in Nat : b = Paging!LastBlock /\ \A i \in DOMAIN rows : rows[i].block <= b
      BY <1>2, <1>3, LastRow
  <1>5. PICK last : last = FirstIndex + N - 1 /\ last = Paging!LastIndex
      BY <1>2, <1>3, LastRow
  <1>6. /\ Paging!Senders \subseteq Owners /\ Paging!Ranks \subseteq 1..2
    <2>1. Address \in Owners /\ (CHOOSE o \in Owners : o # Address) \in Owners
        BY PagingConstants
    <2>2. Paging!Ranks \subseteq 1..2
      <3>1. 1..2 \subseteq 1..2 /\ {1} \subseteq 1..2  OBVIOUS
      <3>2. Paging!Ranks = 1..2 \/ Paging!Ranks = {1}  BY Zenon DEF Paging!Ranks
      <3> QED  BY <3>1, <3>2, Zenon
    <2> QED  BY <2>1, <2>2 DEF Paging!Senders
  <1> DEFINE Value == [owner : Owners, block : {b + 1}, rank : 1..2]
  <1>7. PICK new \in [last + 1..last + n -> Value] :
           /\ rows' = [i \in DOMAIN rows \cup DOMAIN new |->
                         IF i \in DOMAIN new THEN new[i] ELSE rows[i]]
           /\ addresses' = addresses \cup {new[i].owner : i \in DOMAIN new}
    <2>1. PICK new \in [last + 1..last + n ->
                          [owner : Paging!Senders, block : {b + 1}, rank : Paging!Ranks]] :
             /\ rows' = [i \in DOMAIN rows \cup DOMAIN new |->
                           IF i \in DOMAIN new THEN new[i] ELSE rows[i]]
             /\ addresses' = addresses \cup {new[i].owner : i \in DOMAIN new}
      <3>1. Behind(last, b, n)  BY <1>1, <1>4, <1>5, Zenon
      <3> QED  BY <3>1 DEF Behind
    <2>2. [owner : Paging!Senders, block : {b + 1}, rank : Paging!Ranks] \subseteq Value  BY <1>6
    <2>3. new \in [last + 1..last + n -> Value]
      <3> HIDE DEF Value
      <3> QED  BY <2>1, <2>2
    <2> QED  BY <2>1, <2>3
  <1>8. /\ DOMAIN new = last + 1..last + n /\ DOMAIN rows = FirstIndex..last
        /\ last + 1 = FirstIndex + N /\ last + n = FirstIndex + (N + n) - 1 /\ N + n \in Nat
      BY <1>2, <1>5, <1>7, PagingConstants
  <1>9. /\ DOMAIN rows \cap DOMAIN new = {}
        /\ DOMAIN rows \cup DOMAIN new = FirstIndex..(FirstIndex + (N + n) - 1)
    <2>1. FirstIndex \in Nat /\ last = FirstIndex + N - 1  BY <1>5, PagingConstants, Zenon
    <2>2. /\ (FirstIndex..last) \cap (last + 1..last + n) = {}
          /\ (FirstIndex..last) \cup (last + 1..last + n) = FirstIndex..(FirstIndex + (N + n) - 1)
        BY <2>1, NextInterval
    <2> QED  BY <1>8, <2>2, Zenon
  <1>10. ASSUME NEW i \in DOMAIN new
         PROVE  new[i] \in Stored /\ new[i].block = b + 1 /\ new[i].block <= b + 1
    <2>1. new[i] \in Value  BY <1>7, <1>8, <1>10
    <2>2. Value \subseteq Stored  BY DEF Stored
    <2>3. new[i].block = b + 1  BY <2>1
    <2> QED  BY <2>1, <2>2, <2>3
  <1> DEFINE r == [i \in DOMAIN rows \cup DOMAIN new |-> IF i \in DOMAIN new THEN new[i] ELSE rows[i]]
  <1>11. \A i \in DOMAIN rows : i \in DOMAIN r /\ r[i] = rows[i]  BY <1>9
  <1>12. \A i \in DOMAIN new : i \in DOMAIN r /\ r[i] = new[i]  OBVIOUS
  <1>13. RowsIn(r)
    <2>1. \A i \in DOMAIN rows : rows[i] \in Stored  BY <1>2
    <2>2. \A i \in DOMAIN rows \cup DOMAIN new : r[i] \in Stored
        BY <1>10, <1>11, <1>12, <2>1
    <2>3. r \in [FirstIndex..(FirstIndex + (N + n) - 1) -> Stored]  BY <1>9, <2>2
    <2>4. \A i \in DOMAIN rows : rows[i].block <= b + 1
      <3>1. \A i \in DOMAIN rows : rows[i].block \in Nat  BY <2>1 DEF Stored
      <3> QED  BY <1>4, <3>1
    <2>5. \A i \in DOMAIN r : r[i].block <= b + 1
      <3>1. DOMAIN r = DOMAIN rows \cup DOMAIN new  OBVIOUS
      <3> HIDE DEF r
      <3> QED  BY <1>10, <1>11, <1>12, <2>4, <3>1
    <2>6. b + 1 \in Nat  OBVIOUS
    <2> HIDE DEF r
    <2> QED  BY <1>8, <2>3, <2>5, <2>6, Zenon DEF RowsIn
  <1>14. OwnersKnown'
    <2> SUFFICES ASSUME NEW i \in DOMAIN r PROVE r[i].owner \in addresses'
        BY <1>7 DEF OwnersKnown
    <2>1. CASE i \in DOMAIN new  BY <1>7, <1>12, <2>1
    <2>2. CASE i \in DOMAIN rows
        BY <1>7, <1>11, <2>2 DEF PagingInv, PagingType, OwnersKnown
    <2> QED  BY <2>1, <2>2
  <1>15. /\ still' = FALSE /\ unsure' = unsure /\ query.list # "miners"
         /\ slipped' = (slipped \/ (asking /\ Paging!AddedFirst))
         /\ UNCHANGED <<files, query, skip, total, asking, seen, before>>
      BY DEF Paging!Push
  <1>16. rows' = r  BY <1>7
  <1>17. ASSUME asking, ~slipped' PROVE Within(r, Promised \ Paging!Unasked(query))
    <2>1. ~slipped /\ ~Paging!AddedFirst  BY <1>15, <1>17, Zenon
    <2>2. CASE ~DescOf(query)
      <3>1. \A i \in DOMAIN rows : i \in DOMAIN r /\ r[i] = rows[i] /\ rows[i].block <= b
          BY <1>4, <1>11
      <3>2. ASSUME NEW j \in DOMAIN r \ DOMAIN rows
            PROVE  r[j].block = b + 1 /\ \A i \in DOMAIN rows : j > i
        <4>1. j \in DOMAIN new  OBVIOUS
        <4>2. r[j].block = b + 1  BY <1>10, <1>12, <4>1
        <4>3. \A i \in DOMAIN rows : j > i
          <5>1. last \in Int  BY <1>5, PagingConstants
          <5>2. j \in last + 1..last + n /\ DOMAIN rows = FirstIndex..last  BY <1>8, <4>1
          <5> QED  BY <5>1, <5>2, PagingConstants
        <4> QED  BY <4>2, <4>3
      <3> HIDE DEF r
      <3> QED  BY <1>13, <1>15, <1>17, <2>1, <2>2, <3>1, <3>2, AddedLast
    <2>3. CASE DescOf(query)
      <3>1. query.desc \/ query.list = "address submits"  BY <2>3, Zenon DEF DescOf
      <3>2. query.list = "submits" /\ skip # 0  BY <2>1, <3>1, Zenon DEF Paging!AddedFirst
      <3>3. query.desc  BY <3>1, <3>2
      <3>4. skip \in Nat  BY DEF PagingInv, PagingType
      <3>5. TakenByIndex  BY <3>2, <3>3, <3>4 DEF TakenByIndex
      <3> QED  BY <1>15, <3>5, Zenon DEF Within
    <2> QED  BY <2>2, <2>3
  <1>18. asking /\ ~slipped' => Within(r, Promised \ Paging!Unasked(query))  BY <1>17, Zenon
  <1>19. ~still' /\ (slipped => slipped')  BY <1>15, Zenon
  <1> HIDE DEF r
  <1> QED  BY <1>11, <1>13, <1>14, <1>15, <1>16, <1>18, <1>19, Added

\* A new miner.
LEMMA NewMiner ==
    ASSUME PagingInv, NEW i, i = Paging!LastIndex + 1, NEW o \in Owners, NEW b \in Nat,
           rows' = [j \in DOMAIN rows \cup {i} |->
                      IF j = i THEN [owner |-> o, block |-> b, rank |-> 1] ELSE rows[j]],
           addresses' = addresses \cup {o},
           ~still', slipped' = (slipped \/ asking), unsure' = unsure,
           UNCHANGED <<files, query, skip, total, asking, seen, before>>
    PROVE  PagingInv'
  <1>1. RowsIn(rows)  BY DEF PagingInv, PagingType
  <1>2. PICK N \in Nat : rows \in [FirstIndex..(FirstIndex + N - 1) -> Stored]
      BY <1>1 DEF RowsIn
  <1>3. PICK top \in Nat : \A j \in DOMAIN rows : rows[j].block <= top  BY <1>1 DEF RowsIn
  <1>4. i = FirstIndex + N
    <2>1. Paging!LastIndex = FirstIndex + N - 1  BY <1>1, <1>2, LastRow
    <2> QED  BY <2>1, PagingConstants
  <1> DEFINE r == [j \in DOMAIN rows \cup {i} |->
                     IF j = i THEN [owner |-> o, block |-> b, rank |-> 1] ELSE rows[j]]
  <1>5. /\ DOMAIN rows \cup {i} = FirstIndex..(FirstIndex + (N + 1) - 1) /\ i \notin DOMAIN rows
        /\ N + 1 \in Nat
    <2>1. DOMAIN rows = FirstIndex..(FirstIndex + N - 1)  BY <1>2
    <2> QED  BY <1>4, <2>1, PagingConstants
  <1>6. \A j \in DOMAIN rows : j \in DOMAIN r /\ r[j] = rows[j]  BY <1>5
  <1>7. r[i] = [owner |-> o, block |-> b, rank |-> 1]  OBVIOUS
  <1>8. [owner |-> o, block |-> b, rank |-> 1] \in Stored  BY DEF Stored
  <1>9. RowsIn(r)
    <2>1. \A j \in DOMAIN rows : rows[j] \in Stored /\ rows[j].block \in Nat  BY <1>2 DEF Stored
    <2>2. \A j \in DOMAIN rows \cup {i} : r[j] \in Stored  BY <1>6, <1>7, <1>8, <2>1
    <2>3. r \in [FirstIndex..(FirstIndex + (N + 1) - 1) -> Stored]  BY <1>5, <2>2
    <2>4. PICK c \in Nat : c >= top /\ c >= b
      <3>1. top + b \in Nat /\ top + b >= top /\ top + b >= b  OBVIOUS
      <3> QED  BY <3>1
    <2>5. \A j \in DOMAIN rows : rows[j].block <= c  BY <1>3, <2>1, <2>4
    <2>6. r[i].block <= c  BY <1>7, <2>4
    <2>7. DOMAIN r = DOMAIN rows \cup {i}  OBVIOUS
    <2> HIDE DEF r
    <2>8. \A j \in DOMAIN r : r[j].block <= c  BY <1>6, <2>5, <2>6, <2>7
    <2> QED  BY <1>5, <2>3, <2>8, Zenon DEF RowsIn
  <1>10. OwnersKnown'
    <2> SUFFICES ASSUME NEW j \in DOMAIN r PROVE r[j].owner \in addresses'
        BY DEF OwnersKnown
    <2>1. CASE j = i  BY <1>7, <2>1
    <2>2. CASE j \in DOMAIN rows  BY <1>6, <2>2 DEF PagingInv, PagingType, OwnersKnown
    <2> QED  BY <2>1, <2>2
  <1>11. rows' = r  OBVIOUS
  <1>12. asking /\ ~slipped' => Within(r, Promised \ Paging!Unasked(query))  BY Zenon
  <1>13. slipped => slipped'  BY Zenon
  <1> HIDE DEF r
  <1> QED  BY <1>6, <1>9, <1>10, <1>11, <1>12, <1>13, Added

\* A miner that wins once more: what is ahead of the others stays ahead of them, and
\* where the greatest amounts come last, nothing is promised of those there were.
LEMMA MovedMiner ==
    ASSUME PagingInv, query.list = "miners", NEW i \in DOMAIN rows,
           rows' = [rows EXCEPT ![i].block = @ + 1], addresses' = addresses,
           unsure' = unsure \cup (IF query.desc THEN {i} ELSE DOMAIN rows),
           ~still', UNCHANGED <<files, query, skip, total, asking, seen, before, slipped>>
    PROVE  PagingInv'
  <1>1. RowsIn(rows) /\ query \in Paging!Queries /\ Promised \subseteq AskedIn(rows, query)
      BY DEF PagingInv, PagingType, Promised
  <1>2. PICK N \in Nat : rows \in [FirstIndex..(FirstIndex + N - 1) -> Stored]
      BY <1>1 DEF RowsIn
  <1>3. PICK top \in Nat : \A j \in DOMAIN rows : rows[j].block <= top  BY <1>1 DEF RowsIn
  <1> DEFINE r == [rows EXCEPT ![i].block = @ + 1]
  <1>4. DOMAIN r = DOMAIN rows /\ \A j \in DOMAIN rows : j # i => r[j] = rows[j]  OBVIOUS
  <1>5. rows[i] \in Stored /\ r[i] = [rows[i] EXCEPT !.block = @ + 1]  BY <1>2
  <1>6. /\ r[i] \in Stored /\ r[i].block = rows[i].block + 1 /\ r[i].owner = rows[i].owner
        /\ rows[i].block \in Nat
      BY <1>5 DEF Stored
  <1>7. \A j \in DOMAIN rows : rows[j] \in Stored /\ rows[j].block \in Nat  BY <1>2 DEF Stored
  <1> HIDE DEF r
  <1>8. \A j \in DOMAIN rows : r[j] \in Stored /\ r[j].owner = rows[j].owner
      BY <1>4, <1>6, <1>7
  <1>9. RowsIn(r)
    <2>1. r \in [FirstIndex..(FirstIndex + N - 1) -> Stored]
      <3>1. DOMAIN r = FirstIndex..(FirstIndex + N - 1)  BY <1>2, <1>4
      <3>2. r = [j \in DOMAIN r |-> r[j]]  BY DEF r
      <3> QED  BY <1>4, <1>8, <3>1, <3>2
    <2>2. \A j \in DOMAIN r : r[j].block <= top + 1
      <3>1. \A j \in DOMAIN rows : j # i => r[j].block <= top + 1  BY <1>3, <1>4, <1>7
      <3>2. r[i].block <= top + 1  BY <1>3, <1>6
      <3> QED  BY <1>4, <3>1, <3>2
    <2>3. top + 1 \in Nat  OBVIOUS
    <2> QED  BY <2>1, <2>2, <2>3, Zenon DEF RowsIn
  <1>10. rows' = r  BY DEF r
  <1>11. OwnersKnown'
      BY <1>4, <1>8, <1>10 DEF PagingInv, PagingType, OwnersKnown
  <1>12. AskedIn(rows, query) = DOMAIN rows /\ AskedIn(r, query) = DOMAIN rows
      BY <1>4 DEF AskedIn, OfTx, OfOwner, Paging!Overstepped
  <1>13. /\ KeyIn(rows, query) = [j \in DOMAIN rows |-> rows[j].block]
         /\ KeyIn(r, query) = [j \in DOMAIN rows |-> r[j].block]
      BY <1>12 DEF KeyIn, ByBlock
  <1>14. ASSUME NEW k \in Promised \ unsure'
         PROVE  AheadIn(rows, query, k) \subseteq AheadIn(r, query, k)
    <2>1. query.desc /\ k # i /\ k \in DOMAIN rows  BY <1>1, <1>12
    <2>2. DescOf(query)  BY <2>1 DEF DescOf
    <2> SUFFICES ASSUME NEW j \in DOMAIN rows, rows[j].block > rows[k].block
                 PROVE  r[j].block > r[k].block
        BY <1>12, <1>13, <2>1, <2>2 DEF AheadIn, Ahead
    <2>3. r[k].block = rows[k].block /\ rows[k].block \in Nat /\ rows[j].block \in Nat
        BY <1>4, <1>7, <2>1
    <2>4. r[j].block = rows[j].block \/ r[j].block = rows[j].block + 1  BY <1>4, <1>6
    <2> QED  BY <2>3, <2>4
  <1>15. \A j \in DOMAIN rows : j \in DOMAIN rows' /\ rows'[j].owner = rows[j].owner
      BY <1>4, <1>8, <1>10
  <1>16. \A k \in Promised \ unsure' : AheadIn(rows, query, k) \subseteq AheadIn(rows', query, k)
      BY <1>10, <1>14
  <1>17. RowsIn(rows') /\ AskedIn(rows, query) \subseteq AskedIn(rows', query)
      BY <1>9, <1>10, <1>12
  <1>18. ASSUME asking, ~slipped' PROVE Within(r, (Promised \ unsure') \ Paging!Unasked(query))
    <2>1. ~slipped  BY <1>18, Zenon
    <2>2. total = Cardinality(AskedIn(rows, query))
        BY <1>18, <2>1, Zenon DEF PagingInv, AskingOK, Within
    <2>3. total = Cardinality(AskedIn(r, query))  BY <1>12, <2>2
    <2>4. \A k \in Promised \ unsure' : PlaceIn(r, query, k) < total
      <3> SUFFICES ASSUME NEW k \in Promised \ unsure' PROVE PlaceIn(r, query, k) < total  OBVIOUS
      <3>1. k \in AskedIn(r, query)  BY <1>1, <1>12
      <3> QED  BY <1>9, <2>3, <3>1, PlaceIs
    <2> QED  BY <2>3, <2>4 DEF Within
  <1>19. asking /\ ~slipped' => Within(rows', (Promised \ unsure') \ Paging!Unasked(query))
      BY <1>10, <1>18, Zenon
  <1>20. slipped => slipped'  BY Zenon
  <1> QED  BY <1>11, <1>15, <1>16, <1>17, <1>19, <1>20, Grown

LEMMA RewardKeeps == ASSUME PagingInv, Paging!Reward PROVE PagingInv'
  <1>1. PICK i \in FirstIndex..Paging!LastIndex + 1 :
          IF i \in DOMAIN rows
          THEN /\ rows' = [rows EXCEPT ![i].block = @ + 1]
               /\ unsure' = unsure \cup (IF query.desc THEN {i} ELSE DOMAIN rows)
               /\ addresses' = addresses /\ slipped' = slipped
          ELSE /\ \E o \in Paging!NewMiners, b \in 1..2 :
                     /\ rows' = [j \in DOMAIN rows \cup {i} |->
                                    IF j = i THEN [owner |-> o, block |-> b, rank |-> 1] ELSE rows[j]]
                     /\ addresses' = addresses \cup {o}
               /\ unsure' = unsure /\ slipped' = (slipped \/ asking)
      BY DEF Paging!Reward
  <1>2. /\ query.list = "miners" /\ ~still'
        /\ UNCHANGED <<files, query, skip, total, asking, seen, before>>
      BY DEF Paging!Reward
  <1>3. CASE i \in DOMAIN rows  BY <1>1, <1>2, <1>3, MovedMiner
  <1>4. CASE i \notin DOMAIN rows
    <2>1. i = Paging!LastIndex + 1
      <3>1. RowsIn(rows)  BY DEF PagingInv, PagingType
      <3>2. PICK N \in Nat : rows \in [FirstIndex..(FirstIndex + N - 1) -> Stored]
          BY <3>1 DEF RowsIn
      <3>3. Paging!LastIndex = FirstIndex + N - 1  BY <3>1, <3>2, LastRow
      <3>4. i \in FirstIndex..(FirstIndex + N - 1) + 1  BY <3>3
      <3> QED  BY <1>4, <3>2, <3>3, <3>4, PagingConstants
    <2>2. PICK o \in Paging!NewMiners, b \in 1..2 :
             /\ rows' = [j \in DOMAIN rows \cup {i} |->
                            IF j = i THEN [owner |-> o, block |-> b, rank |-> 1] ELSE rows[j]]
             /\ addresses' = addresses \cup {o} /\ unsure' = unsure
             /\ slipped' = (slipped \/ asking)
        BY <1>1, <1>4
    <2>3. o \in Owners /\ b \in Nat  BY DEF Paging!NewMiners
    <2> QED  BY <1>2, <2>1, <2>2, <2>3, NewMiner
  <1> QED  BY <1>3, <1>4

\* The counter of an address may only rise.
LEMMA CounterRises ==
    ASSUME PagingInv, files' = files \/ files' = files + 1, UNCHANGED <<rows, addresses, Paging!pageVars>>
    PROVE  PagingInv'
  <1>1. UNCHANGED <<rows, addresses, query, skip, total, asking, seen, before, unsure, still, slipped>>
      BY DEF Paging!pageVars
  <1>2. /\ AskedIn(rows, query)' = AskedIn(rows, query)
        /\ \A i : PlaceIn(rows, query, i)' = PlaceIn(rows, query, i)
        /\ Paging!Overstepped(query)' = Paging!Overstepped(query)
        /\ Paging!Unasked(query)' = Paging!Unasked(query)
        /\ \A o : Listed(o, rows, query)' = Listed(o, rows, query)
        /\ RowsIn(rows)' /\ OwnersKnown' /\ ByCounter(query)' = ByCounter(query)
        /\ query' \in Paging!Queries
      BY <1>1, SameRows
  <1>3. Promised' = Promised /\ Indexes(seen)' = Indexes(seen)  BY <1>1, <1>2 DEF Promised, Indexes
  <1>4. PagingType'
    <2>1. PICK t \in Nat, f \in Nat : t = total /\ f = files  BY DEF PagingInv, PagingType
    <2>2. PICK g \in Nat : files' = g /\ g >= f  BY <2>1
    <2>3. total' = t /\ (t <= f => t <= g)  BY <1>1, <2>1, <2>2
    <2>4. ByCounter(query)' => total' <= files'
      <3>1. ByCounter(query) => t <= f  BY <2>1, Zenon DEF PagingInv, PagingType
      <3> QED  BY <1>2, <2>2, <2>3, <3>1, Zenon
    <2>5. files' \in Nat /\ total' \in Nat  BY <2>1, <2>2, <2>3
    <2>6. /\ skip' \in Nat /\ SkipOK'
          /\ \E n \in Nat : DOMAIN seen' = 1..n /\ seen' = [k \in 1..n |-> seen'[k]]
          /\ skip' = 0 => seen' = <<>>
          /\ \A k \in DOMAIN seen' : seen'[k].index \in AskedIn(rows, query)
          /\ before' \subseteq AskedIn(rows, query) \cup Paging!Overstepped(query)
        BY <1>1, Zenon DEF PagingInv, PagingType, SkipOK
    <2>7. /\ \A k \in DOMAIN seen' : seen'[k].index \in AskedIn(rows, query)'
          /\ before' \subseteq AskedIn(rows, query)' \cup Paging!Overstepped(query)'
        BY <1>2, <2>6
    <2> QED  BY <1>2, <2>4, <2>5, <2>6, <2>7, Zenon DEF PagingType
  <1>5. NamesOK'  BY <1>1 DEF PagingInv, NamesOK
  <1>6. PassedSeen'  BY <1>1, <1>2, <1>3 DEF PagingInv, PassedSeen
  <1>7. EndSeen'
    <2>1. Paging!Finished' = Paging!Finished /\ slipped' = slipped
        BY <1>1 DEF Paging!Finished, Paging!Started
    <2> QED  BY <1>2, <1>3, <2>1 DEF PagingInv, EndSeen
  <1>8. AskingOK'
    <2>1. TotalRead' = TotalRead /\ TakenByIndex' = TakenByIndex
        BY <1>1 DEF TotalRead, TakenByIndex
    <2>2. Within(rows, Promised \ Paging!Unasked(query))' = Within(rows, Promised \ Paging!Unasked(query))
        BY <1>1, <1>2, <1>3, <2>1 DEF Within
    <2> QED  BY <1>1, <1>3, <2>1, <2>2 DEF PagingInv, AskingOK
  <1>9. InOrder'
    <2>1. Settled' = Settled  BY <1>1, <1>2 DEF Settled, Paging!Started
    <2>2. \A o : Beginning(o)' = Beginning(o)  BY <1>1, <1>2 DEF Beginning
    <2>3. Nothing' = Nothing  BY <1>1, <1>2 DEF Nothing
    <2> QED  BY <1>2, <2>1, <2>2, <2>3, Zenon DEF PagingInv, InOrder
  <1> QED  BY <1>4, <1>5, <1>6, <1>7, <1>8, <1>9 DEF PagingInv

LEMMA CountKeeps == ASSUME PagingInv, Paging!Count PROVE PagingInv'
  BY CounterRises DEF Paging!Count

LEMMA IdleKeeps == ASSUME PagingInv, UNCHANGED pagingVars PROVE PagingInv'
  BY CounterRises DEF pagingVars, Paging!pageVars

LEMMA PagingNextInv == PagingInv /\ [Next]_vars => PagingInv'
  <1> SUFFICES ASSUME PagingInv, [Next]_vars PROVE PagingInv'  OBVIOUS
  <1>1. Paging!Next \/ UNCHANGED pagingVars  BY StepOfPaging
  <1> QED  BY <1>1, TotalKeeps, PageKeeps, PushKeeps, RewardKeeps, CountKeeps, IdleKeeps DEF Paging!Next

\* Rows the client has passed are seen, in the order of the list until one is added.
THEOREM PagingInvariance == Spec => []PagingInv
  BY PagingInitInv, PagingNextInv, PTL DEF Spec

\* A client that reads a list to its end has seen every row there was when it began, in
\* order when none was added since, and each with its owner's address; unless rows came in
\* ahead of its last page, between the two queries for it, and but for the one row of all
\* submissions that the index 0 costs; and no miner is told to have won more often than it
\* tried.
THEOREM ListsAreComplete == Spec => []ListsComplete
  <1>1. PagingInv /\ ToldInv => ListsComplete
    <2>1. ToldInv => Told!WinsWereTried  BY DEF ToldInv, AnswerOK, Told!WinsWereTried
    <2> QED  BY <2>1, NoneMissed, InTheirOrder, AllNamed DEF ListsComplete
  <1> QED  BY <1>1, PagingInvariance, ToldInvariance, PTL
=============================================================================

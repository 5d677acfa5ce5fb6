------------------------------ MODULE ApiCache ------------------------------
(***************************************************************************)
(* What the API server keeps in memory (api/storage/cache.go): rankings,   *)
(* sync heights and the totals of mining.  Every ten seconds a goroutine   *)
(* reads the rankings, one query per field and period in the order of a Go *)
(* map, then the two heights, then the totals; an error ends the part it   *)
(* happens in, and the others go on.  Handlers read the memory without the *)
(* lock it is written under: a ranking is one word, the heights are two.   *)
(* The data of the database are counted by version, a height that goes     *)
(* down as well.                                                           *)
(***************************************************************************)
EXTENDS Integers, Sequences

CONSTANTS
    Spans,          \* the periods of the rankings
    Overall,        \* the ranking of all time, kept in rows of configs
    MaxVersion,     \* bound: versions of each kind of data
    MaxReadFaults   \* bound: failed queries

Rankings == Spans \cup {Overall}
Nothing == 0        \* the version of what is not there yet
NotRead == -1

ConstantsOK == {MaxVersion, MaxReadFaults} \subseteq Nat /\ Overall \notin Spans

VARIABLES
    topns,          \* versions in the database: rankings,
    nodeHeight,     \* config row SyncHeightNode,
    scanHeight,     \* highest block,
    totals,         \* and last row of reward_stats
    part,           \* part of the refresh: "topn", "heights", "rewards"
    readTopns,      \* what the refresh has read: rankings,
    readNode,       \* and height of the storage node
    cachedTopns, cachedHeights, cachedTotals, \* the memory
    summary,        \* the heights a handler has read so far
    shown,          \* for the properties: the pairs of heights cached so far
    readFaults

dbVars == <<topns, nodeHeight, scanHeight, totals>>
cacheVars == <<cachedTopns, cachedHeights, cachedTotals, shown>>
vars == <<dbVars, part, readTopns, readNode, cacheVars, summary, readFaults>>

NoTopns == [r \in Rankings |-> NotRead]

Init ==
    /\ topns = [r \in Rankings |-> Nothing]
    /\ nodeHeight = Nothing /\ scanHeight = Nothing /\ totals = Nothing
    /\ part = "topn" /\ readTopns = NoTopns /\ readNode = NotRead
    /\ cachedTopns = [r \in Rankings |-> Nothing]
    /\ cachedHeights = <<Nothing, Nothing>> /\ cachedTotals = Nothing
    /\ summary = <<>> /\ shown = {cachedHeights} /\ readFaults = 0

-----------------------------------------------------------------------------
(* The refresh.                                                             *)

\* An error ends the part of the refresh; what it has read is dropped.
Fails(next) ==
    /\ readFaults < MaxReadFaults /\ readFaults' = readFaults + 1
    /\ part' = next /\ readTopns' = NoTopns /\ readNode' = NotRead
    /\ UNCHANGED <<dbVars, cacheVars, summary>>

\* loadTopnSubmits, loadTopnRewards: the periods, then the rankings of all time.
LoadTopn ==
    /\ part = "topn"
    /\ \/ /\ \E r \in Rankings :
                /\ readTopns[r] = NotRead
                /\ r = Overall => \A s \in Spans : readTopns[s] # NotRead
                /\ readTopns' = [readTopns EXCEPT ![r] = topns[r]]
          /\ UNCHANGED <<dbVars, part, readNode, cacheVars, summary, readFaults>>
       \/ Fails("heights")

AllRead == \A r \in Rankings : readTopns[r] # NotRead

\* Faulty variant of CacheTopn: the rankings that were read are kept when a query fails.
CacheTopnRead ==
    /\ part = "topn"
    /\ cachedTopns' = readTopns
    /\ part' = "heights" /\ readTopns' = NoTopns
    /\ UNCHANGED <<dbVars, readNode, cachedHeights, cachedTotals, summary, shown, readFaults>>

\* The cached rankings are replaced all at once.
CacheTopn ==
    /\ part = "topn" /\ AllRead
    /\ cachedTopns' = readTopns
    /\ part' = "heights" /\ readTopns' = NoTopns
    /\ UNCHANGED <<dbVars, readNode, cachedHeights, cachedTotals, summary, shown, readFaults>>

\* GetSyncHeights: a query for each height; it is an error that one is not there.
LoadNodeHeight ==
    /\ part = "heights" /\ readNode = NotRead
    /\ \/ /\ nodeHeight # Nothing /\ readNode' = nodeHeight
          /\ UNCHANGED <<dbVars, part, readTopns, cacheVars, summary, readFaults>>
       \/ Fails("rewards")

CacheSyncHeights ==
    /\ part = "heights"
    /\ \/ /\ readNode # NotRead /\ scanHeight # Nothing
          /\ cachedHeights' = <<readNode, scanHeight>>
          /\ shown' = shown \cup {cachedHeights'}
          /\ part' = "rewards" /\ readNode' = NotRead
          /\ UNCHANGED <<dbVars, readTopns, cachedTopns, cachedTotals, summary, readFaults>>
       \/ readNode # NotRead /\ Fails("rewards")
       \/ /\ nodeHeight = Nothing \/ (readNode # NotRead /\ scanHeight = Nothing)
          /\ part' = "rewards" /\ readNode' = NotRead
          /\ UNCHANGED <<dbVars, readTopns, cacheVars, summary, readFaults>>

CacheMinerRewardStat ==
    /\ part = "rewards"
    /\ \/ /\ cachedTotals' = IF totals = Nothing THEN cachedTotals ELSE totals
          /\ part' = "topn"
          /\ UNCHANGED <<dbVars, readTopns, readNode, cachedTopns, cachedHeights, summary, shown,
                         readFaults>>
       \/ Fails("topn")

-----------------------------------------------------------------------------
(* A handler, and the other processes.                                      *)

\* topnByType: a ranking is one word, which is read at once.
TopnByType(r) == cachedTopns[r]

\* summary copies the two heights, one after the other.
ReadSummary ==
    /\ summary' = IF Len(summary) = 1 THEN <<summary[1], cachedHeights[2]>>
                  ELSE <<cachedHeights[1]>>
    /\ UNCHANGED <<dbVars, part, readTopns, readNode, cacheVars, readFaults>>

Later(x, y) == x < MaxVersion /\ y = x + 1

Write ==
    /\ \/ /\ \E r \in Rankings : topns[r] < MaxVersion /\ topns' = [topns EXCEPT ![r] = @ + 1]
          /\ UNCHANGED <<nodeHeight, scanHeight, totals>>
       \/ Later(nodeHeight, nodeHeight') /\ UNCHANGED <<topns, scanHeight, totals>>
       \/ Later(scanHeight, scanHeight') /\ UNCHANGED <<topns, nodeHeight, totals>>
       \/ Later(totals, totals') /\ UNCHANGED <<topns, nodeHeight, scanHeight>>
    /\ UNCHANGED <<part, readTopns, readNode, cacheVars, summary, readFaults>>

Refresh == LoadTopn \/ CacheTopn \/ LoadNodeHeight \/ CacheSyncHeights \/ CacheMinerRewardStat

Next == Refresh \/ ReadSummary \/ Write

Spec == Init /\ [][Next]_vars

\* The refresh runs every ten seconds.
FairSpec == Spec /\ WF_vars(Refresh)

-----------------------------------------------------------------------------
(* Properties.                                                              *)

Versions == Nothing..MaxVersion

TypeOK ==
    /\ {topns, cachedTopns} \subseteq [Rankings -> Versions]
    /\ {nodeHeight, scanHeight, totals, cachedTotals} \subseteq Versions
    /\ part \in {"topn", "heights", "rewards"}
    /\ readTopns \in [Rankings -> Versions \cup {NotRead}] /\ readNode \in Versions \cup {NotRead}
    /\ summary \in Seq(Versions) /\ Len(summary) <= 2
    /\ cachedHeights \in shown /\ shown \subseteq Versions \X Versions
    /\ readFaults \in 0..MaxReadFaults

\* No handler tells a ranking that is older than one told before, or none when a query of
\* a refresh fails.
NotOlder == \A r \in Rankings : TopnByType(r)' >= TopnByType(r)
NeverOlder == [][NotOlder]_vars

\* Once the database stays as it is, the memory of the API comes to show it, whatever
\* part of a refresh has failed before.
ShowsDatabase ==
    /\ \A r \in Rankings : TopnByType(r) = topns[r]
    /\ cachedTotals = totals
    /\ nodeHeight # Nothing /\ scanHeight # Nothing => cachedHeights = <<nodeHeight, scanHeight>>
CacheFollows == <>[]ShowsDatabase

\* The two heights of a summary are of one refresh.  (They are not: the handler copies
\* them while the goroutine, under a lock the handler does not take, replaces them.)
SummaryOfOneRefresh == Len(summary) = 2 => summary \in shown
=============================================================================

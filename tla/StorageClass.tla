---------------------------- MODULE StorageClass ----------------------------
(***************************************************************************)
(* The storage class of files (StorageSyncer.ReconcileStorageClass in      *)
(* sync/storage.go).  A cycle pages the set of cached files of the hot     *)
(* router, promotes the files in it to "hot" and demotes the hot files     *)
(* that are not in it to "standard", in the table of submits and in its    *)
(* copy per address, chunk by chunk, each statement on its own.  The set   *)
(* and the tables change meanwhile.                                        *)
(***************************************************************************)
EXTENDS Integers, Sequences, FiniteSets

CONSTANTS
    Roots,          \* root hashes, ordered as the router orders them
    PageLimit,      \* storageConfig.ClassPageLimit
    ChunkSize,      \* chunkSize, 1000 in the code
    MaxFiles,       \* bound: submissions in the tables
    MaxChanges,     \* bound: changes of the hot set and of the tables
    MaxFaults       \* bound: failed requests and statements, restarts

\* What the constants are assumed to be.
ConstantsOK ==
    /\ Roots \subseteq Nat \ {0} /\ IsFiniteSet(Roots)
    /\ PageLimit \in Nat \ {0} /\ ChunkSize \in Nat \ {0}
    /\ {MaxFiles, MaxChanges, MaxFaults} \subseteq Nat

VARIABLES
    hot,            \* the router's cached files
    submits,        \* by submission: root and class
    addressSubmits, \* the same per address
    phase,          \* what the cycle does
    hotSet, cursor, \* roots read so far, and up to where
    todo,           \* roots still to be written
    chunk,          \* roots written to submits and not yet to addressSubmits
    held,           \* for the properties: cached since the cycle began
    torn,           \* for the properties: left hot per address, though not in submits
    changes, faults

worker == <<phase, hotSet, cursor, todo, chunk>>
tables == <<submits, addressSubmits>>
vars == <<hot, tables, worker, held, torn, changes, faults>>

Classes == {"standard", "hot"}

SetStorageClass(table, roots, class) ==
    [i \in DOMAIN table |->
        IF table[i].root \in roots THEN [table[i] EXCEPT !.class = class] ELSE table[i]]

HotRoots(table) == {table[i].root : i \in {j \in DOMAIN table : table[j].class = "hot"}}

Init ==
    /\ hot \in SUBSET Roots /\ held = hot /\ torn = {}
    /\ submits = <<>> /\ addressSubmits = <<>>
    /\ phase = "idle" /\ hotSet = {} /\ cursor = 0 /\ todo = {} /\ chunk = {}
    /\ changes = 0 /\ faults = 0

-----------------------------------------------------------------------------
(* The router and the sync process.                                         *)

Change == changes < MaxChanges /\ changes' = changes + 1

CacheFile(r) ==
    /\ Change
    /\ r \notin hot
    /\ hot' = hot \cup {r}
    /\ UNCHANGED <<tables, worker, held, torn, faults>>

EvictFile(r) ==
    /\ Change
    /\ r \in hot
    /\ hot' = hot \ {r} /\ held' = held \ {r}
    /\ UNCHANGED <<tables, worker, torn, faults>>

\* Push: a new row is "standard".
Push(r) ==
    /\ Change
    /\ Len(submits) < MaxFiles
    /\ submits' = Append(submits, [root |-> r, class |-> "standard"])
    /\ addressSubmits' = Append(addressSubmits, [root |-> r, class |-> "standard"])
    /\ UNCHANGED <<hot, worker, held, torn, faults>>

\* Pop: the newest rows go.
Pop(n) ==
    /\ Change
    /\ submits' = SubSeq(submits, 1, n)
    /\ addressSubmits' = SubSeq(addressSubmits, 1, n)
    /\ UNCHANGED <<hot, worker, held, torn, faults>>

-----------------------------------------------------------------------------
(* The worker.                                                              *)

StartCycle ==
    /\ phase = "idle"
    /\ phase' = "page"
    /\ hotSet' = {} /\ cursor' = 0 /\ todo' = {} /\ chunk' = {}
    /\ held' = hot
    /\ UNCHANGED <<hot, tables, torn, changes, faults>>

Above(n) == {r \in hot : r > n}

\* The router's answer: the first PageLimit cached files after the cursor.
IsPage(page) ==
    /\ \A r \in page, q \in Above(cursor) \ page : r < q
    /\ \/ Cardinality(page) = PageLimit
       \/ Cardinality(page) < PageLimit /\ page = Above(cursor)

\* A full page comes with a next cursor, its last file; what was read is written
\* after the page that is not full.
ListCachedFiles ==
    /\ phase = "page"
    /\ \E page \in SUBSET Above(cursor) :
          /\ IsPage(page)
          /\ hotSet' = hotSet \cup page
          /\ \/ /\ Cardinality(page) = PageLimit
                /\ cursor' \in page /\ \A r \in page : r <= cursor'
                /\ UNCHANGED <<phase, todo>>
             \/ /\ Cardinality(page) < PageLimit
                /\ phase' = "promote" /\ todo' = hotSet'
                /\ UNCHANGED cursor
    /\ UNCHANGED <<hot, tables, chunk, held, torn, changes, faults>>

ClassOf(ph) == IF ph = "promote" THEN "hot" ELSE "standard"

\* setStorageClassChunked: a chunk goes to submits first, then to addressSubmits.
WriteSubmits ==
    /\ phase \in {"promote", "demote"}
    /\ chunk = {} /\ todo # {}
    /\ \E batch \in SUBSET todo :
          /\ Cardinality(batch) = IF Cardinality(todo) < ChunkSize THEN Cardinality(todo)
                                                                   ELSE ChunkSize
          /\ chunk' = batch
          /\ submits' = SetStorageClass(submits, batch, ClassOf(phase))
    /\ UNCHANGED <<hot, addressSubmits, phase, hotSet, cursor, todo, held, torn, changes,
                   faults>>

\* Where rows were removed and added between the two statements, the table of submits
\* may have a "standard" row for one the second statement makes "hot".
Renewed == {r \in chunk : \E i \in DOMAIN submits :
                            submits[i].root = r /\ submits[i].class = "standard"}

WriteAddressSubmits ==
    /\ chunk # {}
    /\ addressSubmits' = SetStorageClass(addressSubmits, chunk, ClassOf(phase))
    /\ todo' = todo \ chunk
    /\ chunk' = {}
    /\ torn' = IF phase = "promote" THEN torn \cup Renewed ELSE torn \ chunk
    /\ UNCHANGED <<hot, submits, phase, hotSet, cursor, held, changes, faults>>

\* Faulty variant of ToDemote: the addresses' table is looked at.
HotOfAddresses == HotRoots(addressSubmits) \ hotSet

\* The hot files, as the table of submits has them, that the cycle did not see.
ToDemote == HotRoots(submits) \ hotSet

ListHotRootHashes ==
    /\ phase = "promote" /\ todo = {}
    /\ todo' = ToDemote
    /\ phase' = "demote"
    /\ UNCHANGED <<hot, tables, hotSet, cursor, chunk, held, torn, changes, faults>>

EndCycle ==
    /\ phase = "demote" /\ todo = {}
    /\ phase' = "idle"
    /\ UNCHANGED <<hot, tables, hotSet, cursor, todo, chunk, held, torn, changes, faults>>

\* Faulty variant of CycleFails: a failed page ends the paging, not the cycle.
PagingFails ==
    /\ faults < MaxFaults
    /\ faults' = faults + 1
    /\ phase = "page"
    /\ phase' = "promote" /\ todo' = hotSet
    /\ UNCHANGED <<hot, tables, hotSet, cursor, chunk, held, torn, changes>>

\* A request or a statement that fails, or a restart of the process, ends the cycle.
\* Between the two statements of a demotion that leaves the rows per address hot, and
\* no later cycle looks for them: it lists the hot files of the table of submits.
CycleFails ==
    /\ faults < MaxFaults
    /\ faults' = faults + 1
    /\ phase # "idle"
    /\ phase' = "idle" /\ todo' = {} /\ chunk' = {}
    /\ torn' = IF phase = "demote" THEN torn \cup chunk ELSE torn
    /\ UNCHANGED <<hot, tables, hotSet, cursor, held, changes>>

-----------------------------------------------------------------------------
Worker ==
    \/ StartCycle \/ ListCachedFiles
    \/ WriteSubmits \/ WriteAddressSubmits
    \/ ListHotRootHashes \/ EndCycle

Next ==
    \/ \E r \in Roots : CacheFile(r) \/ EvictFile(r) \/ Push(r)
    \/ \E n \in 0..(Len(submits) - 1) : Pop(n)
    \/ Worker \/ CycleFails

Spec == Init /\ [][Next]_vars

\* The worker runs again after every cycle and every error.
FairSpec == Spec /\ WF_vars(Worker)

-----------------------------------------------------------------------------
(* Properties.                                                              *)

Rows == [root : Roots, class : Classes]

\* Every variable has its type, and the two tables have the same rows.
TypeOK ==
    /\ {hot, hotSet, todo, chunk, held, torn} \subseteq SUBSET Roots
    /\ submits \in Seq(Rows) /\ addressSubmits \in Seq(Rows)
    /\ DOMAIN submits = DOMAIN addressSubmits
    /\ \A i \in DOMAIN submits : submits[i].root = addressSubmits[i].root
    /\ phase \in {"idle", "page", "promote", "demote"}
    /\ cursor \in Nat

Demoted(before, after, i) == before[i].class = "hot" /\ after[i].class = "standard"

SparesHeld(before, after) ==
    \A i \in DOMAIN before \cap DOMAIN after :
        before[i].root = after[i].root /\ Demoted(before, after, i) => before[i].root \notin held

\* ReconcileStorageClass never demotes a file that has been in the hot set since
\* its cycle began, whatever pages fail and whatever else comes and goes.
CachedAreSpared == [][SparesHeld(submits, submits') /\ SparesHeld(addressSubmits, addressSubmits')]_vars

\* Once the hot set is at rest, the class of every submission follows it, and so does
\* that of the rows per address, but for those left behind by a cycle that wrote the
\* table of submits and not theirs: they stay "hot" until the file is cached again.
ClassFollowsHotSet ==
    <>[](\A i \in DOMAIN submits :
            /\ submits[i].class = "hot" <=> submits[i].root \in hot
            /\ submits[i].root \in hot => addressSubmits[i].class = "hot"
            /\ submits[i].root \notin hot \cup torn => addressSubmits[i].class = "standard")

\* Every label heals itself, in both tables, as the comment on ReconcileStorageClass has
\* it: this does not hold, for the rows named above.
\* The table per address agrees with the table of submits in the end.
TablesAgree == <>[](\A i \in DOMAIN submits : addressSubmits[i].class = submits[i].class)
=============================================================================

----------------------------- MODULE FileStatus -----------------------------
(***************************************************************************)
(* The status of files and the count of pruned files.  Three parties work  *)
(* on the column "status" without a lock: the worker LatestFiles of the    *)
(* sync process (sync/storage.go), the API handlers that refresh what they *)
(* list (api/storage/tx_api.go), and the statistic StatSubmitPruned        *)
(* (stat/stat_submit_pruned.go), which turns a pruned file into a counted  *)
(* one and adds it to the counters.  The first two read, ask the indexer   *)
(* about each file, and write (store/store.go, rpc/storage.go).            *)
(***************************************************************************)
EXTENDS Integers, FiniteSets, FiniteSetsExt

CONSTANTS
    NumFiles,       \* bound: number of submissions
    Senders,
    Sender,         \* [Files -> Senders]
    Latest,         \* LatestFiles: newest submissions asked for, 100 in the code
    Batch,          \* BatchGetSubmitsToStat: 100 in the code
    MaxRefreshes,   \* bound: refreshes by the API
    MaxFaults,      \* bound: failed writes and transactions, restarts
    MaxCount        \* bound: a counter of an address stays at this value

Files == 0..(NumFiles - 1)

ASSUME FilesAssumption == NumFiles \in Nat \ {0} /\ Sender \in [Files -> Senders]
ASSUME BatchesAssumption == Latest \in Nat \ {0} /\ Batch \in Nat \ {0}
ASSUME CountsAssumption ==
    IsFiniteSet(Senders) /\ {MaxRefreshes, MaxFaults, MaxCount} \subseteq Nat

VARIABLES
    truth,          \* status of each file in the storage network
    count,          \* number of submissions stored: the files 0..count-1
    row,            \* submits.status
    addrRow,        \* address_submits.status
    jobs,           \* refresh under way of each worker
    prunedFiles,    \* addresses.pruned_files
    prunedTotal,    \* config row "stat.file.pruned.total"
    filePrunedTotal,\* StatSubmitPruned.filePrunedTotal, in memory
    nextSubmitId, maxSubmitId, picked,  \* locals of StatSubmitPruned.stat
    refreshes, faults

jobVars == <<truth, count, row, addrRow, jobs>>
statVars == <<prunedFiles, prunedTotal, filePrunedTotal, nextSubmitId, maxSubmitId, picked>>
boundVars == <<refreshes, faults>>
vars == <<jobVars, statVars, boundVars>>

\* PartialUploaded and Uploaded (1 and 2) are told apart by nothing here: Uploaded
\* stands for both.
NotUploaded == 0
Uploaded == 2
Pruned == 3
PrunedCounted == 4
Statuses == {NotUploaded, Uploaded, Pruned}

Workers == {"sync", "api"}

\* A refresh: the files still to be asked for, with the status the worker holds,
\* and the newer statuses found.
Nothing == [f \in {} |-> NotUploaded]
Idle == [asked |-> Nothing, found |-> Nothing]

Without(fn, x) == [y \in DOMAIN fn \ {x} |-> fn[y]]
With(fn, x, v) == [y \in DOMAIN fn \cup {x} |-> IF y = x THEN v ELSE fn[y]]

Sum(c) == MapThenSumSet(LAMBDA s : c[s], Senders)
Capped(n, cap) == IF n <= cap THEN n ELSE cap

Init ==
    /\ truth = [f \in Files |-> NotUploaded]
    /\ count = 0
    /\ row = [f \in Files |-> NotUploaded] /\ addrRow = row
    /\ jobs = [w \in Workers |-> Idle]
    /\ prunedFiles = [s \in Senders |-> 0]
    /\ prunedTotal = 0 /\ filePrunedTotal = 0
    /\ nextSubmitId = 0 /\ maxSubmitId = -1 /\ picked = {}
    /\ refreshes = 0 /\ faults = 0

-----------------------------------------------------------------------------
(* Outside: submissions are indexed, and the network gets, then prunes them. *)

Submit ==
    /\ count < NumFiles
    /\ count' = count + 1
    /\ UNCHANGED <<truth, row, addrRow, jobs, statVars, boundVars>>

NetworkAdvances(f) ==
    /\ f < count
    /\ \E status \in {st \in Statuses : st > truth[f]} : truth' = [truth EXCEPT ![f] = status]
    /\ UNCHANGED <<count, row, addrRow, jobs, statVars, boundVars>>

-----------------------------------------------------------------------------
(* The two workers.                                                         *)

\* Faulty variant of Newest: the query sorts in ascending order.
Oldest == {f \in Files : f < count /\ f < Latest}

Newest == {f \in Files : f < count /\ f >= count - Latest}

\* LatestFiles reads the newest submissions.  Its query does not select the
\* status, so every file counts as not uploaded.
LatestFiles ==
    /\ jobs["sync"] = Idle
    /\ Newest # {}
    /\ jobs' = [jobs EXCEPT !["sync"].asked = [f \in Newest |-> NotUploaded]]
    /\ UNCHANGED <<truth, count, row, addrRow, statVars, boundVars>>

Refreshable(status) == status < Pruned

\* A handler lists files from one of the two tables and asks for those that are
\* not pruned yet.
RefreshFileInfos(fs) ==
    /\ refreshes < MaxRefreshes
    /\ jobs["api"] = Idle
    /\ \E table \in {row, addrRow} :
          LET unfinalized == {f \in fs : Refreshable(table[f])} IN
             /\ unfinalized # {}
             /\ jobs' = [jobs EXCEPT !["api"].asked = [f \in unfinalized |-> table[f]]]
    /\ refreshes' = refreshes + 1
    /\ UNCHANGED <<truth, count, row, addrRow, statVars, faults>>

\* getFileInfo: the indexer answers, or does not; only a status above the one
\* the worker holds is kept.
GetFileInfo(w, f) ==
    /\ f \in DOMAIN jobs[w].asked
    /\ \E found \in {jobs[w].found} \cup
                    (IF truth[f] > jobs[w].asked[f]
                     THEN {With(jobs[w].found, f, truth[f])} ELSE {}) :
          jobs' = [jobs EXCEPT ![w] = [asked |-> Without(jobs[w].asked, f), found |-> found]]
    /\ UNCHANGED <<truth, count, row, addrRow, statVars, boundVars>>

\* Once every file was asked for, the found statuses are written one by one, in
\* the order of a Go map, both tables in one transaction.
UpdateSubmit(w, f) ==
    /\ jobs[w].asked = Nothing
    /\ f \in DOMAIN jobs[w].found
    /\ row' = [row EXCEPT ![f] = jobs[w].found[f]]
    /\ addrRow' = [addrRow EXCEPT ![f] = jobs[w].found[f]]
    /\ jobs' = [jobs EXCEPT ![w].found = Without(jobs[w].found, f)]
    /\ UNCHANGED <<truth, count, statVars, boundVars>>

\* A failed write ends the refresh, and so does a restart of the worker.
RefreshFails(w) ==
    /\ faults < MaxFaults
    /\ jobs[w] # Idle
    /\ jobs' = [jobs EXCEPT ![w] = Idle]
    /\ faults' = faults + 1
    /\ UNCHANGED <<truth, count, row, addrRow, statVars, refreshes>>

-----------------------------------------------------------------------------
(* StatSubmitPruned.stat: rounds over all files, one batch at a time.       *)

NewRound ==
    /\ picked = {}
    /\ nextSubmitId > maxSubmitId
    /\ count > 0
    /\ maxSubmitId' = count - 1
    /\ nextSubmitId' = 0
    /\ UNCHANGED <<jobVars, prunedFiles, prunedTotal, filePrunedTotal, picked, boundVars>>

InBatch(f) == nextSubmitId <= f /\ f < nextSubmitId + Batch /\ f < count

\* The pruned files of a batch are read, and counted in memory at once.
QueryPruned ==
    /\ picked = {}
    /\ nextSubmitId <= maxSubmitId
    /\ LET submits == {f \in Files : InBatch(f) /\ row[f] = Pruned} IN
          IF submits = {}
          THEN /\ nextSubmitId' = nextSubmitId + Batch
               /\ UNCHANGED <<picked, filePrunedTotal>>
          ELSE /\ picked' = submits
               /\ filePrunedTotal' = Capped(filePrunedTotal + Cardinality(submits),
                                            MaxCount * Cardinality(Senders))
               /\ UNCHANGED nextSubmitId
    /\ UNCHANGED <<jobVars, prunedFiles, prunedTotal, maxSubmitId, boundVars>>

OfSender(fs, s) == {f \in fs : Sender[f] = s}

\* Added to the row of each sender.
BatchDeltaUpsertPrunedFiles ==
    prunedFiles' = [s \in Senders |->
                       Capped(prunedFiles[s] + Cardinality(OfSender(picked, s)), MaxCount)]

\* The transaction that counts the files of a batch in the database.
CountFiles(marked, total) ==
    /\ picked # {}
    /\ BatchDeltaUpsertPrunedFiles
    /\ row' = [f \in Files |-> IF f \in marked THEN PrunedCounted ELSE row[f]]
    /\ prunedTotal' = total
    /\ picked' = {}
    /\ nextSubmitId' = nextSubmitId + Batch
    /\ UNCHANGED <<truth, count, addrRow, jobs, filePrunedTotal, maxSubmitId, boundVars>>

\* Faulty variants of CommitPruned: the rows are marked by their status and not
\* by the list that was read; the total is written as it was before the batch.
CommitByStatus == CountFiles({f \in Files : InBatch(f) /\ row[f] = Pruned}, filePrunedTotal)
CommitOldTotal == CountFiles(picked, prunedTotal)

CommitPruned == CountFiles(picked, filePrunedTotal)

\* The transaction is rolled back; the round is given up, the sum in memory stays.
CommitFails ==
    /\ faults < MaxFaults
    /\ picked # {}
    /\ picked' = {}
    /\ maxSubmitId' = -1
    /\ faults' = faults + 1
    /\ UNCHANGED <<jobVars, prunedFiles, prunedTotal, filePrunedTotal, nextSubmitId,
                   refreshes>>

\* The statistics process restarts and reads its total from the database.
StatRestarts ==
    /\ faults < MaxFaults
    /\ faults' = faults + 1
    /\ filePrunedTotal' = prunedTotal
    /\ picked' = {} /\ nextSubmitId' = 0 /\ maxSubmitId' = -1
    /\ UNCHANGED <<jobVars, prunedFiles, prunedTotal, refreshes>>

-----------------------------------------------------------------------------
Stat == NewRound \/ QueryPruned \/ CommitPruned
Ask(w) == \E f \in Files : GetFileInfo(w, f)
Write(w) == \E f \in Files : UpdateSubmit(w, f)

Next ==
    \/ Submit
    \/ \E f \in Files : NetworkAdvances(f)
    \/ LatestFiles
    \/ \E fs \in SUBSET (0..(count - 1)) : RefreshFileInfos(fs)
    \/ \E w \in Workers : Ask(w) \/ Write(w) \/ RefreshFails(w)
    \/ Stat \/ CommitFails \/ StatRestarts

Spec == Init /\ [][Next]_vars

\* The worker and the statistic are loops that run again after every error, an
\* HTTP request ends, and the indexer answers about a pruned file in the end.
Answered(f) ==
    /\ f \in DOMAIN jobs["sync"].asked
    /\ truth[f] = Pruned
    /\ GetFileInfo("sync", f)
    /\ f \in DOMAIN jobs'["sync"].found

FairSpec ==
    /\ Spec
    /\ WF_vars(LatestFiles) /\ WF_vars(Stat)
    /\ \A w \in Workers : WF_vars(Ask(w)) /\ WF_vars(Write(w))
    /\ \A f \in Files : SF_vars(Answered(f))

-----------------------------------------------------------------------------
(* Properties.                                                              *)

JobTypeOK(j) ==
    /\ DOMAIN j.asked \subseteq Files /\ \A f \in DOMAIN j.asked : j.asked[f] \in {NotUploaded, Uploaded}
    /\ DOMAIN j.found \subseteq Files /\ \A f \in DOMAIN j.found : j.found[f] \in {Uploaded, Pruned}

\* Every variable has its type; a status that is looked up is below Pruned.
TypeOK ==
    /\ truth \in [Files -> Statuses] /\ count \in 0..NumFiles
    /\ row \in [Files -> Statuses \cup {PrunedCounted}] /\ addrRow \in [Files -> Statuses]
    /\ \A w \in Workers : JobTypeOK(jobs[w])
    /\ prunedFiles \in [Senders -> 0..MaxCount]
    /\ {prunedTotal, filePrunedTotal, nextSubmitId} \subseteq Nat
    /\ maxSubmitId \in -1..(NumFiles - 1) /\ picked \subseteq Files

\* A file marked as counted has been counted for its sender: whatever the other
\* writers do between the query of StatSubmitPruned and its transaction, no
\* pruned file is marked without being in the counter.
MarkedAreCounted ==
    \A s \in Senders :
        Cardinality({f \in OfSender(Files, s) : row[f] = PrunedCounted}) <= prunedFiles[s]

\* The stored total never falls behind the counters of the addresses it sums
\* up, also after rolled back transactions and restarts of the process.
TotalCoversAddresses == Sum(prunedFiles) <= prunedTotal

\* The stored total is the sum of the counters of the addresses.
TotalIsSum == prunedTotal = Sum(prunedFiles)

\* The counter of an address is at most the number of its files that are pruned.
CountedOnce ==
    \A s \in Senders :
        prunedFiles[s] <= Cardinality({f \in OfSender(Files, s) : truth[f] = Pruned})

\* A pruned file that stays among the newest ones is shown as pruned in the end, for
\* good, whatever stale status a handler or the worker itself writes over it.  Nothing
\* is promised to a file that later submissions push out of the newest: the worker asks
\* for it no more, and if it was pruned too late, or a handler that had read the indexer
\* before wrote "uploaded" over it afterwards (UpdateFileInfos, store.go:360), its row
\* keeps that status until a handler lists it again.
PrunedShown ==
    <>[](\A f \in Files :
            f < count /\ f >= count - Latest /\ truth[f] = Pruned => row[f] >= Pruned)

\* No pruned row waits forever for the statistic.
PrunedIsCounted == \A f \in Files : row[f] = Pruned ~> row[f] # Pruned

\* The pruned files that stay among the newest are shown as pruned in the end, although
\* worker, handler and statistic overwrite each other, and every row that is shown as
\* pruned leaves in the end the status the statistic looks for.
PrunedSettle == PrunedShown /\ PrunedIsCounted
=============================================================================

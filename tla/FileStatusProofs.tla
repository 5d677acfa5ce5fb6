--------------------------- MODULE FileStatusProofs ---------------------------
(***************************************************************************)
(* What is proved of the status of files: for any files, senders, batches  *)
(* and failures, the three writers of the column keep the two counters     *)
(* right.                                                                  *)
(***************************************************************************)
EXTENDS FileStatus, FoldLemmas

\* What the types leave out: a job is a record for each worker.
JobsShape == jobs = [w \in Workers |-> [asked |-> jobs[w].asked, found |-> jobs[w].found]]

\* The total in memory covers what the batch that was read will add, unless it has
\* reached its bound.
TotalCoversBatch ==
    \/ Sum(prunedFiles) + Cardinality(picked) <= filePrunedTotal
    \/ MaxCount * Cardinality(Senders) <= filePrunedTotal

IInv == TypeOK /\ JobsShape /\ TotalCoversAddresses /\ TotalCoversBatch

-----------------------------------------------------------------------------
(* Counting.                                                                *)

LEMMA FilesFinite ==
    /\ IsFiniteSet(Files)
    /\ \A F \in SUBSET Files : IsFiniteSet(F) /\ Cardinality(F) \in Nat
    /\ Cardinality(Files) = NumFiles
    /\ NumFiles \in Nat /\ MaxCount \in Nat /\ IsFiniteSet(Senders)
    /\ Cardinality(Senders) \in Nat
<1>1. NumFiles \in Nat /\ IsFiniteSet(Files) /\ Cardinality(Files) = NumFiles
  BY FilesAssumption, FS_Interval DEF Files
<1>2. \A F \in SUBSET Files : IsFiniteSet(F) /\ Cardinality(F) \in Nat
  BY <1>1, FS_Subset, FS_CardinalityType
<1>3. MaxCount \in Nat /\ IsFiniteSet(Senders) /\ Cardinality(Senders) \in Nat
  BY CountsAssumption, FS_CardinalityType
<1> QED
  BY <1>1, <1>2, <1>3

LEMMA SumIsOver == \A c : Sum(c) = SumOver(c, Senders)
BY DEF Sum, SumOver

\* Counters with a batch on top sum up to at most the old sum and the batch, and to no
\* more than the bound.
LEMMA SumGrows ==
    ASSUME NEW c, NEW d, NEW P, P \subseteq Files, c \in [Senders -> 0..MaxCount],
           d = [s \in Senders |-> Capped(c[s] + Cardinality(OfSender(P, s)), MaxCount)]
    PROVE  /\ d \in [Senders -> 0..MaxCount]
           /\ Sum(d) <= Sum(c) + Cardinality(P)
           /\ Sum(d) <= MaxCount * Cardinality(Senders)
           /\ Sum(c) \in Nat /\ Sum(d) \in Nat /\ Cardinality(P) \in Nat
<1>1. ASSUME NEW s \in Senders
      PROVE  /\ c[s] \in Nat /\ d[s] \in Nat /\ d[s] \in 0..MaxCount
             /\ d[s] <= c[s] + Cardinality({f \in P : Sender[f] = s})
  <2>1. Cardinality({f \in P : Sender[f] = s}) \in Nat
    BY FilesFinite
  <2> QED
    BY <2>1, FilesFinite DEF OfSender, Capped
<1>2. d \in [Senders -> 0..MaxCount]
  BY <1>1
<1>3. IsFiniteSet(Senders) /\ IsFiniteSet(P) /\ MaxCount \in Nat /\ Cardinality(P) \in Nat
  BY FilesFinite
<1>4. SumOver(d, Senders) <= SumOver(c, Senders) + Cardinality(P)
  <2>1. /\ \A s \in Senders : c[s] \in Nat /\ d[s] \in Nat
        /\ \A s \in Senders : d[s] <= c[s] + Cardinality({f \in P : Sender[f] = s})
    BY <1>1
  <2> QED
    BY <1>3, <2>1, SumOfParts
<1>5. SumOver(d, Senders) <= MaxCount * Cardinality(Senders)
  <2>1. \A s \in Senders : d[s] \in 0..MaxCount
    BY <1>1
  <2> QED
    BY <1>3, <2>1, SumBounded
<1>6. SumOver(d, Senders) \in Nat /\ SumOver(c, Senders) \in Nat
  <2>1. (\A s \in Senders : c[s] \in Nat) /\ (\A s \in Senders : d[s] \in Nat)
    BY <1>1
  <2> QED
    BY <1>3, <2>1, SumType
<1> QED
  BY <1>2, <1>3, <1>4, <1>5, <1>6, SumIsOver

LEMMA SumInRange ==
    TypeOK => Sum(prunedFiles) \in Nat /\ Sum(prunedFiles) <= MaxCount * Cardinality(Senders)
<1> SUFFICES ASSUME TypeOK
             PROVE  Sum(prunedFiles) \in Nat /\ Sum(prunedFiles) <= MaxCount * Cardinality(Senders)
  OBVIOUS
<1>1. \A s \in Senders : prunedFiles[s] \in 0..MaxCount /\ prunedFiles[s] \in Nat
  BY FilesFinite DEF TypeOK
<1> QED
  BY <1>1, SumType, SumBounded, FilesFinite, SumIsOver

-----------------------------------------------------------------------------
(* Types.                                                                   *)

LEMMA InitType == Init => TypeOK /\ JobsShape
<1> SUFFICES ASSUME Init PROVE TypeOK /\ JobsShape
  OBVIOUS
<1>1. TypeOK
  BY FilesFinite, FilesAssumption
     DEF Init, TypeOK, JobTypeOK, Idle, Nothing, Statuses, NotUploaded, Workers
<1>2. JobsShape
  BY DEF Init, JobsShape, Idle
<1> QED
  BY <1>1, <1>2

\* The workers' steps keep the types; none of them touches the counters.
LEMMA JobsType ==
    ASSUME TypeOK, JobsShape, NEW w \in Workers, NEW job,
           job = [asked |-> job.asked, found |-> job.found], JobTypeOK(job),
           jobs' = [jobs EXCEPT ![w] = job]
    PROVE  JobsShape' /\ \A v \in Workers : JobTypeOK(jobs'[v])
<1>1. \A v \in Workers : jobs'[v] = IF v = w THEN job ELSE jobs[v]
  BY DEF JobsShape
<1>2. jobs' = [v \in Workers |-> jobs'[v]]
  BY DEF JobsShape
<1>3. \A v \in Workers : jobs'[v] = [asked |-> jobs'[v].asked, found |-> jobs'[v].found]
  BY <1>1 DEF JobsShape
<1>4. JobsShape'
  BY <1>2, <1>3 DEF JobsShape
<1>5. \A v \in Workers : JobTypeOK(jobs'[v])
  BY <1>1 DEF TypeOK
<1> QED
  BY <1>4, <1>5

LEMMA WorkersType ==
    ASSUME TypeOK, JobsShape,
           \/ LatestFiles \/ \E fs \in SUBSET (0..(count - 1)) : RefreshFileInfos(fs)
           \/ \E w \in Workers : Ask(w) \/ Write(w) \/ RefreshFails(w)
    PROVE  TypeOK' /\ JobsShape' /\ UNCHANGED statVars
<1>1. ASSUME LatestFiles PROVE TypeOK' /\ JobsShape' /\ UNCHANGED statVars
  <2> DEFINE asked == [f \in Newest |-> NotUploaded]
             job == [jobs["sync"] EXCEPT !.asked = asked]
  <2>1. jobs' = [jobs EXCEPT !["sync"].asked = asked]
    BY <1>1 DEF LatestFiles
  <2>2. /\ job = [asked |-> asked, found |-> jobs["sync"].found]
        /\ jobs' = [jobs EXCEPT !["sync"] = job]
    BY <2>1 DEF JobsShape, Workers
  <2>3. \A f \in DOMAIN asked : f \in Files /\ asked[f] \in {NotUploaded, Uploaded}
    BY DEF Newest
  <2>4. JobTypeOK(job)
    BY <2>2, <2>3 DEF TypeOK, JobTypeOK, Workers
  <2>5. JobsShape' /\ \A v \in Workers : JobTypeOK(jobs'[v])
    BY <2>2, <2>4, JobsType DEF Workers
  <2> QED
    BY <1>1, <2>5 DEF LatestFiles, TypeOK, statVars
<1>2. ASSUME NEW fs \in SUBSET (0..(count - 1)), RefreshFileInfos(fs)
      PROVE  TypeOK' /\ JobsShape' /\ UNCHANGED statVars
  <2>1. fs \subseteq Files
    BY FilesFinite DEF TypeOK, Files
  <2>2. PICK table \in {row, addrRow} :
            jobs' = [jobs EXCEPT !["api"].asked =
                        [f \in {g \in fs : Refreshable(table[g])} |-> table[f]]]
    BY <1>2 DEF RefreshFileInfos
  <2> DEFINE asked == [f \in {g \in fs : Refreshable(table[g])} |-> table[f]]
             job == [jobs["api"] EXCEPT !.asked = asked]
  <2>3. /\ job = [asked |-> asked, found |-> jobs["api"].found]
        /\ jobs' = [jobs EXCEPT !["api"] = job]
    BY <2>2 DEF JobsShape, Workers
  <2>4. \A f \in DOMAIN asked : f \in Files /\ asked[f] \in {NotUploaded, Uploaded}
    BY <2>1 DEF TypeOK, Refreshable, Statuses, NotUploaded, Uploaded, Pruned, PrunedCounted
  <2>5. JobTypeOK(job)
    BY <2>3, <2>4 DEF TypeOK, JobTypeOK, Workers
  <2>6. JobsShape' /\ \A v \in Workers : JobTypeOK(jobs'[v])
    BY <2>3, <2>5, JobsType DEF Workers
  <2> QED
    BY <1>2, <2>6 DEF RefreshFileInfos, TypeOK, statVars
<1>3. ASSUME NEW w \in Workers, NEW f \in Files, GetFileInfo(w, f)
      PROVE  TypeOK' /\ JobsShape' /\ UNCHANGED statVars
  <2>1. PICK found \in {jobs[w].found} \cup
                       (IF truth[f] > jobs[w].asked[f]
                        THEN {With(jobs[w].found, f, truth[f])} ELSE {}) :
            jobs' = [jobs EXCEPT ![w] = [asked |-> Without(jobs[w].asked, f), found |-> found]]
    BY <1>3 DEF GetFileInfo
  <2>2. /\ DOMAIN found \subseteq Files
        /\ \A g \in DOMAIN found : found[g] \in {Uploaded, Pruned}
    <3>1. JobTypeOK(jobs[w]) /\ truth[f] \in Statuses /\ jobs[w].asked[f] \in {NotUploaded, Uploaded}
      BY <1>3 DEF TypeOK, GetFileInfo, JobTypeOK
    <3>2. CASE found = jobs[w].found
      BY <3>1, <3>2 DEF JobTypeOK
    <3>3. CASE found # jobs[w].found
      <4>1. found = With(jobs[w].found, f, truth[f]) /\ truth[f] \in {Uploaded, Pruned}
        BY <2>1, <3>1, <3>3 DEF Statuses, NotUploaded, Uploaded, Pruned
      <4> QED
        BY <3>1, <4>1 DEF JobTypeOK, With
    <3> QED
      BY <3>2, <3>3
  <2> DEFINE job == [asked |-> Without(jobs[w].asked, f), found |-> found]
  <2>3. JobTypeOK(job)
    BY <2>2 DEF TypeOK, JobTypeOK, Without
  <2>4. JobsShape' /\ \A v \in Workers : JobTypeOK(jobs'[v])
    BY <2>1, <2>3, JobsType
  <2> QED
    BY <1>3, <2>4 DEF GetFileInfo, TypeOK, statVars
<1>4. ASSUME NEW w \in Workers, NEW f \in Files, UpdateSubmit(w, f)
      PROVE  TypeOK' /\ JobsShape' /\ UNCHANGED statVars
  <2> DEFINE job == [jobs[w] EXCEPT !.found = Without(jobs[w].found, f)]
  <2>1. /\ job = [asked |-> jobs[w].asked, found |-> Without(jobs[w].found, f)]
        /\ jobs' = [jobs EXCEPT ![w] = job]
    BY <1>4 DEF UpdateSubmit, JobsShape
  <2>2. JobTypeOK(job) /\ jobs[w].found[f] \in {Uploaded, Pruned}
    BY <1>4, <2>1 DEF TypeOK, JobTypeOK, Without, UpdateSubmit
  <2>3. JobsShape' /\ \A v \in Workers : JobTypeOK(jobs'[v])
    BY <2>1, <2>2, JobsType
  <2>4. row' \in [Files -> Statuses \cup {PrunedCounted}] /\ addrRow' \in [Files -> Statuses]
    BY <1>4, <2>2 DEF UpdateSubmit, TypeOK, Statuses
  <2> QED
    BY <1>4, <2>3, <2>4 DEF UpdateSubmit, TypeOK, statVars
<1>5. ASSUME NEW w \in Workers, RefreshFails(w)
      PROVE  TypeOK' /\ JobsShape' /\ UNCHANGED statVars
  <2>1. JobTypeOK(Idle) /\ Idle = [asked |-> Idle.asked, found |-> Idle.found]
    BY DEF JobTypeOK, Idle, Nothing
  <2>2. JobsShape' /\ \A v \in Workers : JobTypeOK(jobs'[v])
    BY <1>5, <2>1, JobsType DEF RefreshFails
  <2> QED
    BY <1>5, <2>2 DEF RefreshFails, TypeOK, statVars
<1> QED
  BY <1>1, <1>2, <1>3, <1>4, <1>5 DEF Ask, Write

\* So do the steps of the network.
LEMMA NetworkType ==
    ASSUME TypeOK, JobsShape, Submit \/ \E f \in Files : NetworkAdvances(f)
    PROVE  TypeOK' /\ JobsShape' /\ UNCHANGED statVars
<1>1. CASE Submit
  BY <1>1, FilesFinite DEF Submit, TypeOK, JobsShape, JobTypeOK, statVars
<1>2. CASE \E f \in Files : NetworkAdvances(f)
  BY <1>2 DEF NetworkAdvances, TypeOK, JobsShape, JobTypeOK, statVars
<1> QED
  BY <1>1, <1>2

LEMMA StatType ==
    ASSUME TypeOK, JobsShape, Stat \/ CommitFails \/ StatRestarts
    PROVE  TypeOK' /\ JobsShape'
<1>1. CASE NewRound
  BY <1>1, FilesFinite DEF NewRound, TypeOK, JobsShape, JobTypeOK, jobVars
<1>2. CASE QueryPruned
  <2> DEFINE submits == {f \in Files : InBatch(f) /\ row[f] = Pruned}
  <2>1. submits \subseteq Files /\ Cardinality(submits) \in Nat
    BY FilesFinite
  <2>2. MaxCount * Cardinality(Senders) \in Nat
    BY FilesFinite
  <2>3. UNCHANGED <<jobVars, prunedFiles, prunedTotal, maxSubmitId>>
    BY <1>2 DEF QueryPruned
  <2>4. picked' \subseteq Files /\ filePrunedTotal' \in Nat /\ nextSubmitId' \in Nat
    <3> HIDE DEF submits
    <3>1. \/ /\ nextSubmitId' = nextSubmitId + Batch
             /\ UNCHANGED <<picked, filePrunedTotal>>
          \/ /\ picked' = submits
             /\ filePrunedTotal' = Capped(filePrunedTotal + Cardinality(submits),
                                          MaxCount * Cardinality(Senders))
             /\ UNCHANGED nextSubmitId
      BY <1>2 DEF QueryPruned, submits
    <3> QED
      BY <2>1, <2>2, <3>1, BatchesAssumption DEF TypeOK, Capped
  <2> HIDE DEF submits
  <2> QED
    BY <2>3, <2>4 DEF TypeOK, JobsShape, JobTypeOK, jobVars
<1>3. CASE CommitPruned
  <2>1. prunedFiles' \in [Senders -> 0..MaxCount]
    BY <1>3, SumGrows DEF CommitPruned, CountFiles, BatchDeltaUpsertPrunedFiles, TypeOK
  <2>2. row' \in [Files -> Statuses \cup {PrunedCounted}]
    BY <1>3 DEF CommitPruned, CountFiles, TypeOK
  <2>3. nextSubmitId' \in Nat
    BY <1>3, BatchesAssumption DEF CommitPruned, CountFiles, TypeOK
  <2> QED
    BY <1>3, <2>1, <2>2, <2>3 DEF CommitPruned, CountFiles, TypeOK, JobsShape, JobTypeOK
<1>4. CASE CommitFails
  BY <1>4, FilesFinite DEF CommitFails, TypeOK, JobsShape, JobTypeOK, jobVars
<1>5. CASE StatRestarts
  BY <1>5, FilesFinite DEF StatRestarts, TypeOK, JobsShape, JobTypeOK, jobVars
<1> QED
  BY <1>1, <1>2, <1>3, <1>4, <1>5 DEF Stat

LEMMA NextType == TypeOK /\ JobsShape /\ [Next]_vars => TypeOK' /\ JobsShape'
<1> SUFFICES ASSUME TypeOK, JobsShape, [Next]_vars PROVE TypeOK' /\ JobsShape'
  OBVIOUS
<1>1. CASE UNCHANGED vars
  BY <1>1 DEF TypeOK, JobsShape, JobTypeOK, vars, jobVars, statVars
<1>2. CASE Next
  BY <1>2, WorkersType, NetworkType, StatType DEF Next
<1> QED
  BY <1>1, <1>2

\* Every variable has its type, in every state and for any files, senders and batches.
THEOREM TypeCorrect == Spec => []TypeOK
<1>1. Init => TypeOK /\ JobsShape
  BY InitType
<1>2. TypeOK /\ JobsShape /\ [Next]_vars => TypeOK' /\ JobsShape'
  BY NextType
<1> QED
  BY <1>1, <1>2, PTL DEF Spec

-----------------------------------------------------------------------------
(* The total and the counters.                                              *)

LEMMA InitTotal == Init => TotalCoversAddresses /\ TotalCoversBatch
<1> SUFFICES ASSUME Init PROVE TotalCoversAddresses /\ TotalCoversBatch
  OBVIOUS
<1>1. Sum(prunedFiles) \in Nat /\ Sum(prunedFiles) <= 0 * Cardinality(Senders)
  <2>1. \A s \in Senders : prunedFiles[s] \in 0..0 /\ prunedFiles[s] \in Nat
    BY DEF Init
  <2>2. IsFiniteSet(Senders) /\ 0 \in Nat
    BY FilesFinite
  <2>3. SumOver(prunedFiles, Senders) \in Nat
    BY <2>1, <2>2, SumType
  <2>4. SumOver(prunedFiles, Senders) <= 0 * Cardinality(Senders)
    BY <2>1, <2>2, SumBounded
  <2> QED
    BY <2>3, <2>4, SumIsOver
<1>2. Sum(prunedFiles) = 0
  BY <1>1, FilesFinite
<1>3. prunedTotal = 0 /\ filePrunedTotal = 0 /\ Cardinality(picked) = 0
  BY FS_EmptySet DEF Init
<1> QED
  BY <1>2, <1>3 DEF TotalCoversAddresses, TotalCoversBatch

LEMMA CommitTotal ==
    ASSUME TypeOK, TotalCoversAddresses, TotalCoversBatch, CommitPruned
    PROVE  TotalCoversAddresses' /\ TotalCoversBatch'
<1>1. /\ Sum(prunedFiles') <= Sum(prunedFiles) + Cardinality(picked)
      /\ Sum(prunedFiles') <= MaxCount * Cardinality(Senders)
      /\ Sum(prunedFiles) \in Nat /\ Sum(prunedFiles') \in Nat /\ Cardinality(picked) \in Nat
  BY SumGrows DEF CommitPruned, CountFiles, BatchDeltaUpsertPrunedFiles, TypeOK
<1>2. prunedTotal' = filePrunedTotal /\ filePrunedTotal' = filePrunedTotal
  BY DEF CommitPruned, CountFiles
<1>3. Cardinality(picked') = 0
  BY FS_EmptySet DEF CommitPruned, CountFiles
<1>4. MaxCount * Cardinality(Senders) \in Nat /\ filePrunedTotal \in Nat
  BY FilesFinite DEF TypeOK
<1>5. Sum(prunedFiles') <= filePrunedTotal
  BY <1>1, <1>4 DEF TotalCoversBatch
<1>6. Sum(prunedFiles)' = Sum(prunedFiles')
  OBVIOUS
<1> QED
  BY <1>1, <1>2, <1>3, <1>5, <1>6 DEF TotalCoversAddresses, TotalCoversBatch

LEMMA StatTotal ==
    ASSUME TypeOK, TotalCoversAddresses, TotalCoversBatch,
           NewRound \/ QueryPruned \/ CommitFails \/ StatRestarts
    PROVE  TotalCoversAddresses' /\ TotalCoversBatch'
<1>1. Sum(prunedFiles) \in Nat /\ Cardinality(picked) \in Nat /\ Cardinality({}) = 0
  BY SumInRange, FilesFinite, FS_EmptySet DEF TypeOK
<1>2. UNCHANGED <<prunedFiles, prunedTotal>>
  BY DEF NewRound, QueryPruned, CommitFails, StatRestarts
<1>3. Sum(prunedFiles)' = Sum(prunedFiles) /\ prunedTotal' = prunedTotal
  BY <1>2
<1>4. CASE NewRound
  BY <1>3, <1>4 DEF NewRound, TotalCoversAddresses, TotalCoversBatch
<1>5. CASE QueryPruned
  <2> DEFINE submits == {f \in Files : InBatch(f) /\ row[f] = Pruned}
  <2>1. Cardinality(submits) \in Nat /\ MaxCount * Cardinality(Senders) \in Nat
        /\ filePrunedTotal \in Nat
    BY FilesFinite DEF TypeOK
  <2>2. picked = {}
    BY <1>5 DEF QueryPruned
  <2> HIDE DEF submits
  <2>3. \/ UNCHANGED <<picked, filePrunedTotal>>
        \/ /\ picked' = submits
           /\ filePrunedTotal' = Capped(filePrunedTotal + Cardinality(submits),
                                        MaxCount * Cardinality(Senders))
    BY <1>5 DEF QueryPruned, submits
  <2>4. CASE UNCHANGED <<picked, filePrunedTotal>>
    BY <1>3, <2>4 DEF TotalCoversAddresses, TotalCoversBatch
  <2>5. CASE /\ picked' = submits
             /\ filePrunedTotal' = Capped(filePrunedTotal + Cardinality(submits),
                                          MaxCount * Cardinality(Senders))
    <3>1. Cardinality(picked') = Cardinality(submits) /\ Cardinality(picked) = 0
      BY <1>1, <2>2, <2>5
    <3>2. \/ Sum(prunedFiles) <= filePrunedTotal
          \/ MaxCount * Cardinality(Senders) <= filePrunedTotal
      BY <1>1, <3>1 DEF TotalCoversBatch
    <3>3. \/ Sum(prunedFiles) + Cardinality(submits) <= filePrunedTotal'
          \/ MaxCount * Cardinality(Senders) <= filePrunedTotal'
      BY <1>1, <2>1, <2>5, <3>2 DEF Capped
    <3> QED
      BY <1>3, <3>1, <3>3 DEF TotalCoversAddresses, TotalCoversBatch
  <2> QED
    BY <2>3, <2>4, <2>5
<1>6. CASE CommitFails
  <2>1. Cardinality(picked') = 0 /\ filePrunedTotal' = filePrunedTotal
    BY <1>1, <1>6 DEF CommitFails
  <2>2. filePrunedTotal \in Nat
    BY DEF TypeOK
  <2> QED
    BY <1>1, <1>3, <2>1, <2>2 DEF TotalCoversAddresses, TotalCoversBatch
<1>7. CASE StatRestarts
  <2>1. Cardinality(picked') = 0 /\ filePrunedTotal' = prunedTotal
    BY <1>1, <1>7 DEF StatRestarts
  <2> QED
    BY <1>1, <1>3, <2>1 DEF TotalCoversAddresses, TotalCoversBatch
<1> QED
  BY <1>4, <1>5, <1>6, <1>7

LEMMA KeepsTotal ==
    ASSUME TotalCoversAddresses, TotalCoversBatch, UNCHANGED statVars
    PROVE  TotalCoversAddresses' /\ TotalCoversBatch'
BY DEF TotalCoversAddresses, TotalCoversBatch, statVars

LEMMA NextTotal == IInv /\ [Next]_vars => IInv'
<1> SUFFICES ASSUME IInv, [Next]_vars PROVE TotalCoversAddresses' /\ TotalCoversBatch'
  BY NextType DEF IInv
<1>1. CASE UNCHANGED vars
  BY <1>1, KeepsTotal DEF IInv, vars
<1>2. ASSUME Next PROVE UNCHANGED statVars \/ Stat \/ CommitFails \/ StatRestarts
  BY <1>2, WorkersType, NetworkType DEF IInv, Next
<1> QED
  BY <1>1, <1>2, KeepsTotal, CommitTotal, StatTotal DEF IInv, Stat

\* The stored total covers the counters of the addresses, whatever batches are rolled back
\* and however often the process restarts between a batch read and its transaction.
THEOREM TotalCovers == Spec => []TotalCoversAddresses
<1>1. Init => IInv
  BY InitType, InitTotal DEF IInv
<1>2. IInv /\ [Next]_vars => IInv'
  BY NextTotal
<1>3. IInv => TotalCoversAddresses
  BY DEF IInv
<1> QED
  BY <1>1, <1>2, <1>3, PTL DEF Spec

-----------------------------------------------------------------------------
(* The marks.                                                               *)

Marked(rows, s) == {f \in OfSender(Files, s) : rows[f] = PrunedCounted}

LEMMA MarksFinite ==
    \A rows, s : /\ Marked(rows, s) \subseteq Files /\ Marked(rows, s) \in SUBSET Files
                 /\ IsFiniteSet(Marked(rows, s)) /\ Cardinality(Marked(rows, s)) \in Nat
                 /\ Cardinality(Marked(rows, s)) <= NumFiles
<1>1. IsFiniteSet(Files)
  BY FilesFinite
<1> SUFFICES ASSUME NEW rows, NEW s
             PROVE  /\ IsFiniteSet(Marked(rows, s)) /\ Cardinality(Marked(rows, s)) \in Nat
                    /\ Cardinality(Marked(rows, s)) <= NumFiles
                    /\ Marked(rows, s) \subseteq Files
  OBVIOUS
<1>2. Marked(rows, s) \subseteq Files
  BY DEF Marked, OfSender
<1>3. Cardinality(Marked(rows, s)) <= Cardinality(Files)
  BY <1>1, <1>2, FS_Subset
<1> QED
  BY <1>2, <1>3, FilesFinite

LEMMA InitMarks == ASSUME Init PROVE MarkedAreCounted
<1>1. \A s \in Senders : {f \in OfSender(Files, s) : row[f] = PrunedCounted} = {}
  BY DEF Init, OfSender, NotUploaded, PrunedCounted
<1> QED
  BY <1>1, FS_EmptySet DEF MarkedAreCounted, Init

\* A step that marks no row and takes nothing from a counter.
LEMMA NoMoreMarks ==
    ASSUME MarkedAreCounted, prunedFiles' = prunedFiles, TypeOK,
           \A f \in Files : row'[f] = PrunedCounted => row[f] = PrunedCounted
    PROVE  MarkedAreCounted'
<1> SUFFICES ASSUME NEW s \in Senders PROVE Cardinality(Marked(row', s)) <= prunedFiles[s]
  BY DEF MarkedAreCounted, Marked
<1>1. Marked(row', s) \subseteq Marked(row, s)
  BY DEF Marked, OfSender
<1>2. Cardinality(Marked(row', s)) <= Cardinality(Marked(row, s))
  BY <1>1, MarksFinite, FS_Subset
<1>3. Cardinality(Marked(row, s)) <= prunedFiles[s]
  BY DEF MarkedAreCounted, Marked
<1>4. prunedFiles[s] \in Nat
  BY FilesFinite DEF TypeOK
<1>5. Cardinality(Marked(row, s)) \in Nat /\ Cardinality(Marked(row', s)) \in Nat
  BY MarksFinite
<1> QED
  BY <1>2, <1>3, <1>4, <1>5

LEMMA CommitMarks ==
    ASSUME NumFiles <= MaxCount, TypeOK, MarkedAreCounted, CommitPruned
    PROVE  MarkedAreCounted'
<1> SUFFICES ASSUME NEW s \in Senders PROVE Cardinality(Marked(row', s)) <= prunedFiles'[s]
  BY DEF MarkedAreCounted, Marked
<1> DEFINE new == OfSender(picked, s)
<1>1. new \subseteq Files /\ IsFiniteSet(new) /\ Cardinality(new) \in Nat
  BY FilesFinite DEF TypeOK, OfSender
<1>2. Marked(row', s) = Marked(row, s) \cup new
  BY DEF CommitPruned, CountFiles, Marked, OfSender, TypeOK
<1>3. Cardinality(Marked(row, s)) \in Nat /\ Cardinality(Marked(row', s)) \in Nat
  BY MarksFinite
<1>4. Cardinality(Marked(row', s)) <= Cardinality(Marked(row, s)) + Cardinality(new)
  <2>1. Cardinality(Marked(row, s) \cup new) =
            Cardinality(Marked(row, s)) + Cardinality(new) - Cardinality(Marked(row, s) \cap new)
    BY <1>1, MarksFinite, FS_Union
  <2>2. Cardinality(Marked(row, s) \cap new) \in Nat
    BY <1>1, FS_Intersection, FS_CardinalityType
  <2>3. Cardinality(Marked(row', s)) = Cardinality(Marked(row, s) \cup new)
    BY <1>2, Zenon
  <2> QED
    BY <1>1, <1>3, <2>1, <2>2, <2>3
<1>5. Cardinality(Marked(row, s)) <= prunedFiles[s] /\ prunedFiles[s] \in Nat
  BY FilesFinite DEF MarkedAreCounted, Marked, TypeOK
<1>6. prunedFiles'[s] = Capped(prunedFiles[s] + Cardinality(new), MaxCount)
  BY DEF CommitPruned, CountFiles, BatchDeltaUpsertPrunedFiles
<1>7. Cardinality(Marked(row', s)) <= MaxCount
  BY MarksFinite, FilesFinite, <1>3
<1> HIDE DEF new
<1> QED
  BY <1>1, <1>3, <1>4, <1>5, <1>6, <1>7, FilesFinite DEF Capped

LEMMA NextMarks ==
    ASSUME NumFiles <= MaxCount, TypeOK, JobsShape, MarkedAreCounted, [Next]_vars
    PROVE  MarkedAreCounted'
<1>1. CASE UNCHANGED vars \/ Submit \/ (\E f \in Files : NetworkAdvances(f)) \/ LatestFiles
           \/ (\E fs \in SUBSET (0..(count - 1)) : RefreshFileInfos(fs))
           \/ \E w \in Workers : Ask(w) \/ RefreshFails(w)
  <2>1. UNCHANGED <<row, prunedFiles>>
    BY <1>1 DEF vars, jobVars, statVars, Submit, NetworkAdvances, LatestFiles,
                RefreshFileInfos, Ask, GetFileInfo, RefreshFails
  <2> QED
    BY <2>1, NoMoreMarks
<1>2. ASSUME NEW w \in Workers, NEW f \in Files, UpdateSubmit(w, f) PROVE MarkedAreCounted'
  <2>1. jobs[w].found[f] # PrunedCounted
    BY <1>2 DEF UpdateSubmit, TypeOK, JobTypeOK, Uploaded, Pruned, PrunedCounted
  <2>2. \A g \in Files : row'[g] = PrunedCounted => row[g] = PrunedCounted
    BY <1>2, <2>1 DEF UpdateSubmit, TypeOK
  <2> QED
    BY <1>2, <2>2, NoMoreMarks DEF UpdateSubmit, statVars
<1>3. CASE CommitPruned
  BY <1>3, CommitMarks
<1>4. CASE NewRound \/ QueryPruned \/ CommitFails \/ StatRestarts
  <2>1. UNCHANGED <<row, prunedFiles>>
    BY <1>4 DEF NewRound, QueryPruned, CommitFails, StatRestarts, jobVars
  <2> QED
    BY <2>1, NoMoreMarks
<1> QED
  BY <1>1, <1>2, <1>3, <1>4 DEF Next, Stat, Write

\* No pruned file is marked as counted without being in the counter of its sender, in any
\* interleaving of the statistic with the worker and the handlers that write the column,
\* as long as the bound of the counters is out of reach.
THEOREM MarksCounted == ASSUME NumFiles <= MaxCount PROVE Spec => []MarkedAreCounted
<1>1. Init => TypeOK /\ JobsShape /\ MarkedAreCounted
  BY InitType, InitMarks
<1>2. /\ TypeOK /\ JobsShape /\ MarkedAreCounted /\ [Next]_vars
      => (TypeOK /\ JobsShape /\ MarkedAreCounted)'
  BY NextType, NextMarks
<1> QED
  BY <1>1, <1>2, PTL DEF Spec
=============================================================================

------------------------- MODULE StatWorkersProofs --------------------------
(***************************************************************************)
(* Proofs about the workers of the statistics process.  The count of       *)
(* expired files implements the exactly-once count, with any number of     *)
(* files and senders, failed transactions and restarts; the rankings are   *)
(* those of their counters; the rows of the statistics per interval and    *)
(* the rankings of a period are exact.  No step of another worker disturbs *)
(* any of them.                                                            *)
(***************************************************************************)
EXTENDS StatWorkers, FoldLemmas, SequenceTheorems

LEMMA Constants == Expired!ConstantsOK
  BY StatWorkersAssumption DEF StatWorkersAssumption

\* The worker counts as everybody does.
LEMMA ExpiredCardinality ==
    /\ \A S : Expired!Cardinality(S) = Cardinality(S)
    /\ \A S : Expired!IsFiniteSet(S) = IsFiniteSet(S)
  BY DEF Expired!Cardinality, Cardinality, Expired!IsFiniteSet, IsFiniteSet

-----------------------------------------------------------------------------
(* The count of expired files.                                              *)

\* The cursor in memory follows the one in the database.
ExpiredCursorsAgree == currentPos = expiredSubmitId + 1

\* The range of a round starts at the cursor and ends before the newest files.
ExpiredRangeOK ==
    phase \in {"group", "commit"} =>
        minFile = currentPos /\ minFile <= maxFile /\ maxFile < expired

\* The groups about to be written are those of the range.
GroupsOK ==
    phase = "commit" =>
        groups = [s \in Senders |->
                     Cardinality({f \in Expired!Files : Expired!InRange(f) /\ Sender[f] = s})]

ExpiredInv ==
    /\ Expired!TypeOK /\ Expired!OnlyExpired /\ Expired!CountedExactly
    /\ ExpiredCursorsAgree /\ ExpiredRangeOK /\ GroupsOK

-----------------------------------------------------------------------------
(* Numbers of files.                                                        *)

\* There are finitely many files, so each set of files has a cardinality.
LEMMA FilesFinite ==
    ASSUME Expired!ConstantsOK, NEW S \in SUBSET Expired!Files
    PROVE  IsFiniteSet(S) /\ Cardinality(S) \in Nat
  <1>1. 0 \in Int /\ NumFiles - 1 \in Int  BY DEF Expired!ConstantsOK
  <1>2. IsFiniteSet(0..(NumFiles - 1))  BY <1>1, FS_Interval
  <1>3. IsFiniteSet(S)  BY <1>2, FS_Subset DEF Expired!Files
  <1> QED  BY <1>3, FS_CardinalityType

\* The files up to the end of a range are those below it and those in it.
LEMMA RangeExtends ==
    ASSUME Expired!ConstantsOK, NEW s \in Senders, NEW low \in Int, NEW high \in Int, low <= high
    PROVE  Cardinality(Expired!FilesUpTo(high, s)) =
              Cardinality(Expired!FilesUpTo(low, s)) +
              Cardinality({f \in Expired!Files : (low + 1 <= f /\ f <= high) /\ Sender[f] = s})
  <1> DEFINE Added == {f \in Expired!Files : (low + 1 <= f /\ f <= high) /\ Sender[f] = s}
  <1>1. IsFiniteSet(Expired!FilesUpTo(low, s)) /\ IsFiniteSet(Added)
      BY FilesFinite DEF Expired!FilesUpTo
  <1>2. \A f \in Expired!Files : f \in Int  BY DEF Expired!ConstantsOK, Expired!Files
  <1>3. \A f : f \in Expired!FilesUpTo(high, s) <=> f \in Expired!FilesUpTo(low, s) \/ f \in Added
      BY <1>2 DEF Expired!FilesUpTo
  <1>4. \A f : ~(f \in Expired!FilesUpTo(low, s) /\ f \in Added)
      BY <1>2 DEF Expired!FilesUpTo
  <1>5. Cardinality(Expired!FilesUpTo(low, s) \cup Added) =
            Cardinality(Expired!FilesUpTo(low, s)) + Cardinality(Added)
            - Cardinality(Expired!FilesUpTo(low, s) \cap Added)
      BY <1>1, FS_Union
  <1>6. Cardinality({}) = 0  BY FS_EmptySet
  <1>7. Cardinality(Expired!FilesUpTo(low, s)) \in Nat /\ Cardinality(Added) \in Nat
      BY FilesFinite DEF Expired!FilesUpTo
  <1>8. Expired!FilesUpTo(high, s) = Expired!FilesUpTo(low, s) \cup Added
      BY <1>3
  <1>9. Expired!FilesUpTo(low, s) \cap Added = {}
      BY <1>4
  <1> HIDE DEF Added
  <1>10. Cardinality(Expired!FilesUpTo(high, s)) = Cardinality(Expired!FilesUpTo(low, s) \cup Added)
      BY <1>8, Zenon
  <1>11. Cardinality(Expired!FilesUpTo(low, s) \cap Added) = 0
      BY <1>6, <1>9, Zenon
  <1>12. Cardinality(Expired!FilesUpTo(high, s)) =
             Cardinality(Expired!FilesUpTo(low, s)) + Cardinality(Added)
      BY <1>5, <1>7, <1>10, <1>11
  <1> QED  BY <1>12 DEF Added

-----------------------------------------------------------------------------
(* The invariant.                                                           *)

LEMMA InitExpiredInv == ASSUME Expired!ConstantsOK PROVE Expired!Init => ExpiredInv
  <1> SUFFICES ASSUME Expired!Init PROVE ExpiredInv  OBVIOUS
  <1>1. \A s \in Senders : Expired!FilesUpTo(-1, s) = {}
      BY DEF Expired!ConstantsOK, Expired!FilesUpTo, Expired!Files
  <1>2. Cardinality({}) = 0  BY FS_EmptySet
  <1>3. Expired!CountedExactly
      BY <1>1, <1>2, ExpiredCardinality DEF Expired!Init, Expired!CountedExactly, Expired!NoFiles
  <1>4. Expired!TypeOK  BY DEF Expired!ConstantsOK, Expired!Init, Expired!TypeOK, Expired!NoFiles
  <1> QED
      BY <1>3, <1>4
         DEF Expired!Init, ExpiredInv, Expired!OnlyExpired, ExpiredCursorsAgree, ExpiredRangeOK,
             GroupsOK

\* The transaction of a round moves the counters along with the cursor.
LEMMA CommitCounts ==
    ASSUME Expired!ConstantsOK, ExpiredInv, Expired!CalculateStat
    PROVE  /\ Expired!CountedExactly'
           /\ maxFile \in Nat /\ expiredSubmitId < maxFile /\ maxFile < expired
           /\ expiredFiles' \in [Senders -> Nat]
  <1>1. /\ phase = "commit" /\ expiredSubmitId' = maxFile
        /\ expiredFiles' = [s \in Senders |-> expiredFiles[s] + groups[s]]
      BY DEF Expired!CalculateStat, Expired!WriteStat, Expired!BatchDeltaUpsertExpiredFiles
  <1>2. /\ expiredSubmitId \in Int /\ maxFile \in Nat /\ expiredSubmitId <= maxFile
        /\ minFile = expiredSubmitId + 1 /\ expiredSubmitId < maxFile /\ maxFile < expired
      BY <1>1 DEF ExpiredInv, Expired!TypeOK, ExpiredRangeOK, ExpiredCursorsAgree
  <1>3. ASSUME NEW s \in Senders
        PROVE  expiredFiles[s] + groups[s] = Cardinality(Expired!FilesUpTo(maxFile, s))
    <2>1. expiredFiles[s] = Cardinality(Expired!FilesUpTo(expiredSubmitId, s))
        BY ExpiredCardinality DEF ExpiredInv, Expired!CountedExactly
    <2>2. groups[s] = Cardinality({f \in Expired!Files : Expired!InRange(f) /\ Sender[f] = s})
        BY <1>1 DEF ExpiredInv, GroupsOK
    <2>3. groups[s] = Cardinality({f \in Expired!Files :
                          (expiredSubmitId + 1 <= f /\ f <= maxFile) /\ Sender[f] = s})
        BY <2>2, <1>2 DEF Expired!InRange
    <2> QED  BY <2>1, <2>3, <1>2, RangeExtends
  <1>4. Expired!CountedExactly'
      BY <1>1, <1>3, ExpiredCardinality DEF Expired!CountedExactly, Expired!FilesUpTo
  <1>5. expiredFiles' \in [Senders -> Nat]
      BY <1>1 DEF ExpiredInv, Expired!TypeOK
  <1> QED  BY <1>2, <1>4, <1>5

LEMMA StepExpiredInv ==
    ASSUME Expired!ConstantsOK
    PROVE  ExpiredInv /\ [Expired!Next]_(Expired!vars) => ExpiredInv'
  <1> SUFFICES ASSUME ExpiredInv, [Expired!Next]_(Expired!vars) PROVE ExpiredInv'  OBVIOUS
  <1> USE DEF ExpiredInv
  <1>1. CASE Expired!BlockExpires
    <2>1. expired' \in (expired + 1)..NumFiles  BY <1>1 DEF Expired!BlockExpires
    <2>2. Expired!TypeOK'
        BY <1>1, <2>1
           DEF Expired!ConstantsOK, Expired!BlockExpires, Expired!TypeOK, Expired!dbVars,
               Expired!statVars
    <2>3. Expired!OnlyExpired' /\ ExpiredRangeOK'
        BY <1>1, <2>1
           DEF Expired!ConstantsOK, Expired!BlockExpires, Expired!TypeOK, Expired!OnlyExpired,
               ExpiredRangeOK, Expired!dbVars, Expired!statVars
    <2>4. Expired!CountedExactly' /\ ExpiredCursorsAgree' /\ GroupsOK'
        BY <1>1
           DEF Expired!BlockExpires, Expired!CountedExactly, Expired!FilesUpTo,
               ExpiredCursorsAgree, GroupsOK, Expired!InRange, Expired!dbVars, Expired!statVars
    <2> QED  BY <2>2, <2>3, <2>4
  <1>2. CASE Expired!NextStatRange
    <2>1. PICK last \in lastBlock..(expired - 1) :
             Expired!InReach(last) /\ maxFile' = Expired!RangeEnd(last)
        BY <1>2 DEF Expired!NextStatRange, Expired!MaxSubmissionIndexExpired
    <2>2. maxFile' \in Nat /\ currentPos <= maxFile' /\ maxFile' < expired
        BY <2>1 DEF Expired!ConstantsOK, Expired!TypeOK, Expired!InReach, Expired!RangeEnd
    <2>3. Expired!TypeOK' /\ ExpiredRangeOK'
        BY <1>2, <2>2 DEF Expired!NextStatRange, Expired!TypeOK, ExpiredRangeOK, Expired!dbVars
    <2>4. Expired!OnlyExpired' /\ Expired!CountedExactly' /\ ExpiredCursorsAgree' /\ GroupsOK'
        BY <1>2
           DEF Expired!NextStatRange, Expired!OnlyExpired, Expired!CountedExactly,
               Expired!FilesUpTo, ExpiredCursorsAgree, GroupsOK, Expired!dbVars
    <2> QED  BY <2>3, <2>4
  <1>3. CASE Expired!GroupBySender
    <2>1. groups' = [s \in Senders |->
                        Cardinality({f \in Expired!Files : Expired!InRange(f) /\ Sender[f] = s})]
        BY <1>3, ExpiredCardinality DEF Expired!GroupBySender
    <2>2. groups' \in [Senders -> Nat]
        BY <2>1, FilesFinite
    <2>3. Expired!TypeOK'
        BY <1>3, <2>2 DEF Expired!GroupBySender, Expired!TypeOK, Expired!dbVars
    <2>4. GroupsOK'
        BY <1>3, <2>1 DEF Expired!GroupBySender, GroupsOK, Expired!InRange
    <2>5. /\ Expired!OnlyExpired' /\ Expired!CountedExactly' /\ ExpiredCursorsAgree'
          /\ ExpiredRangeOK'
        BY <1>3
           DEF Expired!GroupBySender, Expired!OnlyExpired, Expired!CountedExactly,
               Expired!FilesUpTo, ExpiredCursorsAgree, ExpiredRangeOK, Expired!dbVars
    <2> QED  BY <2>3, <2>4, <2>5
  <1>4. CASE Expired!CalculateStat
    <2>1. /\ Expired!CountedExactly' /\ maxFile \in Nat /\ maxFile < expired
          /\ expiredFiles' \in [Senders -> Nat]
        BY <1>4, CommitCounts
    <2>2. Expired!TypeOK'
        BY <1>4, <2>1
           DEF Expired!CalculateStat, Expired!WriteStat, Expired!BatchDeltaUpsertExpiredFiles,
               Expired!TypeOK
    <2>3. Expired!OnlyExpired' /\ ExpiredCursorsAgree' /\ ExpiredRangeOK' /\ GroupsOK'
        BY <1>4, <2>1
           DEF Expired!CalculateStat, Expired!WriteStat, Expired!BatchDeltaUpsertExpiredFiles,
               Expired!OnlyExpired, ExpiredCursorsAgree, ExpiredRangeOK, GroupsOK
    <2> QED  BY <2>1, <2>2, <2>3
  <1>5. CASE Expired!CalculateFails
    <2>1. Expired!TypeOK' /\ ExpiredRangeOK' /\ GroupsOK'
        BY <1>5 DEF Expired!CalculateFails, Expired!TypeOK, ExpiredRangeOK, GroupsOK, Expired!dbVars
    <2> QED
        BY <1>5, <2>1
           DEF Expired!CalculateFails, Expired!OnlyExpired, Expired!CountedExactly,
               Expired!FilesUpTo, ExpiredCursorsAgree, Expired!dbVars
  <1>6. CASE Expired!Restart
    <2>1. Expired!TypeOK' /\ ExpiredRangeOK' /\ GroupsOK' /\ ExpiredCursorsAgree'
        BY <1>6
           DEF Expired!Restart, Expired!LoadedPos, Expired!TypeOK, ExpiredRangeOK, GroupsOK,
               ExpiredCursorsAgree, Expired!dbVars
    <2> QED
        BY <1>6, <2>1
           DEF Expired!Restart, Expired!OnlyExpired, Expired!CountedExactly, Expired!FilesUpTo,
               Expired!dbVars
  <1>7. CASE UNCHANGED Expired!vars
    BY <1>7
       DEF Expired!vars, Expired!dbVars, Expired!statVars, Expired!TypeOK, Expired!OnlyExpired,
           Expired!CountedExactly, Expired!FilesUpTo, ExpiredCursorsAgree, ExpiredRangeOK,
           GroupsOK, Expired!InRange
  <1> QED  BY <1>1, <1>2, <1>3, <1>4, <1>5, <1>6, <1>7 DEF Expired!Next, Expired!Round

-----------------------------------------------------------------------------
(* The refinement.                                                          *)

\* Counting is the same in both modules.
LEMMA ExpiredCountCardinality == ASSUME NEW S PROVE Expired!Count!Cardinality(S) = Cardinality(S)
  BY DEF Cardinality, Expired!Count!Cardinality

\* Exact counters are those of the abstract count at the stored position.
LEMMA ExactIsAbstract ==
    Expired!TypeOK /\ Expired!CountedExactly =>
        expiredSubmitId + 1 \in Nat /\ expiredFiles = Expired!Count!CountsBelow(expiredSubmitId + 1)
  <1> SUFFICES ASSUME Expired!TypeOK, Expired!CountedExactly
               PROVE  /\ expiredSubmitId + 1 \in Nat
                      /\ expiredFiles = Expired!Count!CountsBelow(expiredSubmitId + 1)
      OBVIOUS
  <1>1. \A f \in Expired!Files : f \in Int /\ [g \in Expired!Files |-> g][f] = f
      BY DEF Expired!ConstantsOK, Expired!Files
  <1>2. \A s \in Senders :
           Expired!FilesUpTo(expiredSubmitId, s) = Expired!Count!ItemsBelow(expiredSubmitId + 1, s)
    <2> TAKE s \in Senders
    <2>1. \A f \in Expired!Files :
             f <= expiredSubmitId <=> [g \in Expired!Files |-> g][f] < expiredSubmitId + 1
        BY <1>1 DEF Expired!TypeOK
    <2> QED  BY <2>1 DEF Expired!FilesUpTo, Expired!Count!ItemsBelow
  <1>3. \A s \in Senders : Cardinality(Expired!FilesUpTo(expiredSubmitId, s)) =
                            Cardinality(Expired!Count!ItemsBelow(expiredSubmitId + 1, s))
      BY <1>2
  <1>4. expiredFiles = Expired!Count!CountsBelow(expiredSubmitId + 1)
    <2>1. [s \in Senders |-> Cardinality(Expired!FilesUpTo(expiredSubmitId, s))] =
          [s \in Senders |-> Cardinality(Expired!Count!ItemsBelow(expiredSubmitId + 1, s))]
        BY <1>3
    <2> QED
        BY <2>1, ExpiredCountCardinality, ExpiredCardinality
           DEF Expired!CountedExactly, Expired!Count!CountsBelow
  <1> QED  BY <1>4 DEF Expired!TypeOK

\* The initial states are abstract ones.
LEMMA InitExpiredRefines == ASSUME Expired!ConstantsOK PROVE Expired!Init => Expired!Count!CountInit
  BY InitExpiredInv, ExactIsAbstract DEF ExpiredInv, Expired!Count!CountInit

\* Every step counts a range, or leaves the counters and the cursor alone.
LEMMA StepExpiredRefines ==
    ASSUME Expired!ConstantsOK
    PROVE  ExpiredInv /\ ExpiredInv' /\ [Expired!Next]_(Expired!vars) =>
              [Expired!Count!CountRange]_<<expiredSubmitId + 1, expiredFiles>>
  <1> SUFFICES ASSUME ExpiredInv, ExpiredInv', [Expired!Next]_(Expired!vars)
               PROVE  [Expired!Count!CountRange]_<<expiredSubmitId + 1, expiredFiles>>
      OBVIOUS
  <1>1. CASE Expired!CalculateStat
    <2>1. expiredSubmitId' = maxFile /\ expiredSubmitId < maxFile /\ maxFile \in Nat
        BY <1>1, CommitCounts
           DEF Expired!CalculateStat, Expired!WriteStat, Expired!BatchDeltaUpsertExpiredFiles
    <2>2. (/\ expiredSubmitId + 1 \in Nat
           /\ expiredFiles = Expired!Count!CountsBelow(expiredSubmitId + 1))'
      <3>1. (Expired!TypeOK /\ Expired!CountedExactly)'  BY DEF ExpiredInv
      <3> QED  BY <3>1, ExactIsAbstract, PTL
    <2>3. expiredSubmitId + 1 < (expiredSubmitId + 1)'
        BY <2>1 DEF ExpiredInv, Expired!TypeOK
    <2> QED  BY <2>2, <2>3 DEF Expired!Count!CountRange
  <1>2. CASE ~Expired!CalculateStat
    <2>1. UNCHANGED <<expiredSubmitId, expiredFiles>>
        BY <1>2
           DEF Expired!Next, Expired!Round, Expired!vars, Expired!dbVars, Expired!BlockExpires,
               Expired!NextStatRange, Expired!GroupBySender, Expired!CalculateFails,
               Expired!Restart
    <2> QED  BY <2>1
  <1> QED  BY <1>1, <1>2

-----------------------------------------------------------------------------
(* The count of expired files in its process.                               *)

\* A step of the process is one of the worker, or leaves its data alone.
LEMMA StepOfExpired == [Next]_vars => Expired!Next \/ UNCHANGED expiredVars
  <1> SUFFICES ASSUME [Next]_vars PROVE Expired!Next \/ UNCHANGED expiredVars  OBVIOUS
  <1>1. CASE ExpiredRun(Expired!Next)  BY <1>1 DEF ExpiredRun
  <1>2. CASE StatRun(Stat!Next)  BY <1>2 DEF StatRun
  <1>3. CASE SubmitsRun(Submits!Next)  BY <1>3 DEF SubmitsRun
  <1>4. CASE RewardsRun(Rewards!Next)  BY <1>4 DEF RewardsRun
  <1>5. CASE RangeRun(Period!Next)  BY <1>5 DEF RangeRun
  <1>6. CASE UNCHANGED vars  BY <1>6 DEF vars
  <1> QED  BY <1>1, <1>2, <1>3, <1>4, <1>5, <1>6 DEF Next

\* No step that leaves the worker's data alone touches the invariant.
LEMMA OthersKeepExpired == ExpiredInv /\ UNCHANGED expiredVars => ExpiredInv'
  BY DEF expiredVars, ExpiredInv, Expired!TypeOK, Expired!OnlyExpired, Expired!CountedExactly,
         Expired!FilesUpTo, ExpiredCursorsAgree, ExpiredRangeOK, GroupsOK, Expired!InRange

\* Counters, cursors and the range under way fit together in every state of the
\* process, whatever transactions fail, wherever it restarts and whatever runs beside.
THEOREM Invariance == Spec => []ExpiredInv
  <1>1. Init => ExpiredInv
      BY Constants, InitExpiredInv DEF Init
  <1>2. ExpiredInv /\ [Next]_vars => ExpiredInv'
      BY Constants, StepOfExpired, OthersKeepExpired, StepExpiredInv
  <1> QED  BY <1>1, <1>2, PTL DEF Spec

\* calculateStat never counts a file that has not expired, whatever runs beside it.
THEOREM OnlyExpiredCounted == Spec => []OnlyExpired
  <1>1. ExpiredInv => OnlyExpired  BY DEF ExpiredInv, OnlyExpired
  <1> QED  BY <1>1, Invariance, PTL

\* The statistic of expired files, with its ranges, its two cursors, failures and
\* restarts, implements the count of each file, exactly once, in order.
THEOREM Refinement == Spec => ImplementsCountOnce
  <1>1. Init => Expired!Count!CountInit
      BY Constants, InitExpiredRefines DEF Init
  <1>2. ExpiredInv /\ ExpiredInv' /\ [Next]_vars =>
            [Expired!Count!CountRange]_<<expiredSubmitId + 1, expiredFiles>>
    <2>1. UNCHANGED expiredVars => UNCHANGED <<expiredSubmitId + 1, expiredFiles>>
        BY DEF expiredVars
    <2> QED  BY <2>1, StepOfExpired, Constants, StepExpiredRefines
  <1> QED
      BY <1>1, <1>2, Invariance, PTL
         DEF Spec, ImplementsCountOnce, Expired!ImplementsCountOnce, Expired!Count!CountSpec

-----------------------------------------------------------------------------
(* The rankings (TopnProofs): of submissions, and of rewards.               *)

SubmitsAlone == INSTANCE TopnProofs
                   WITH Pos <- IndexOf, Keys <- Senders, N <- TopnSize, Batch <- TopnBatch,
                        FirstPos <- 0, phase <- topnPhase, currentPos <- topnCurrentPos
RewardsAlone == INSTANCE TopnProofs
                   WITH Pos <- BlockOf, Keys <- Senders, N <- TopnSize, Batch <- TopnBatch,
                        FirstPos <- RewardBegin, phase <- topnPhase, currentPos <- topnCurrentPos

LEMMA SubmitsConstants == SubmitsAlone!ConstantsOK
  BY StatWorkersAssumption
     DEF StatWorkersAssumption, Submits!ConstantsOK, SubmitsAlone!ConstantsOK,
         Submits!IsFiniteSet, SubmitsAlone!IsFiniteSet

LEMMA SubmitsCardinality == ASSUME NEW S PROVE Submits!Cardinality(S) = SubmitsAlone!Cardinality(S)
  BY DEF Submits!Cardinality, SubmitsAlone!Cardinality

LEMMA SubmitsMinMax ==
    ASSUME NEW S
    PROVE  Submits!Min(S) = SubmitsAlone!Min(S) /\ Submits!Max(S) = SubmitsAlone!Max(S)
  BY DEF Submits!Min, SubmitsAlone!Min, Submits!Max, SubmitsAlone!Max

\* The two sort alike.
LEMMA SubmitsSort ==
    ASSUME NEW all, NEW n
    PROVE  Submits!SortedFrom(all, n) = SubmitsAlone!SortedFrom(all, n)
  BY DEF Submits!SortedFrom, SubmitsAlone!SortedFrom,
         Submits!Push, SubmitsAlone!Push, Submits!Roots, SubmitsAlone!Roots,
         Submits!NoKeys, SubmitsAlone!NoKeys,
         Submits!Cardinality, SubmitsAlone!Cardinality

LEMMA SubmitsInit == Submits!Init => SubmitsAlone!Init
  BY SubmitsCardinality
     DEF Submits!Init, SubmitsAlone!Init, Submits!Zero, SubmitsAlone!Zero, Submits!NoKeys,
         SubmitsAlone!NoKeys

LEMMA SubmitsNext == Submits!Next => SubmitsAlone!Next
  <1> USE DEF Submits!dbVars, SubmitsAlone!dbVars,
              Submits!roundVars, SubmitsAlone!roundVars,
              Submits!NoKeys, SubmitsAlone!NoKeys
  <1>1. Submits!BlockFinalized => SubmitsAlone!BlockFinalized
      BY DEF Submits!BlockFinalized, SubmitsAlone!BlockFinalized
  <1>2. Submits!NextStatRange => SubmitsAlone!NextStatRange
      BY SubmitsMinMax
         DEF Submits!NextStatRange, SubmitsAlone!NextStatRange,
             Submits!FinalPos, SubmitsAlone!FinalPos,
             Submits!Reached, SubmitsAlone!Reached, Submits!RangeEnd, SubmitsAlone!RangeEnd
  <1>3. \A k : Submits!ItemsOf(k) = SubmitsAlone!ItemsOf(k)
      BY DEF Submits!ItemsOf, SubmitsAlone!ItemsOf
  <1>4. Submits!ReadCounters => SubmitsAlone!ReadCounters
      BY <1>3, SubmitsCardinality
         DEF Submits!ReadCounters, SubmitsAlone!ReadCounters,
             Submits!Grouped, SubmitsAlone!Grouped
  <1>5. Submits!Sort => SubmitsAlone!Sort
      BY SubmitsMinMax, SubmitsSort
         DEF Submits!Sort, SubmitsAlone!Sort,
             Submits!Deduplicate, SubmitsAlone!Deduplicate
  <1>6. Submits!BatchUpsert => SubmitsAlone!BatchUpsert
      BY <1>3, SubmitsCardinality
         DEF Submits!BatchUpsert, SubmitsAlone!BatchUpsert,
             Submits!Distinct, SubmitsAlone!Distinct
  <1>7. Submits!CalculateStat => SubmitsAlone!CalculateStat
      BY <1>5, <1>6
         DEF Submits!CalculateStat, SubmitsAlone!CalculateStat,
             Submits!StoreHeap, SubmitsAlone!StoreHeap,
             Submits!Snapshot, SubmitsAlone!Snapshot
  <1>8. Submits!CalculateFails => SubmitsAlone!CalculateFails
      BY <1>5
         DEF Submits!CalculateFails, SubmitsAlone!CalculateFails
  <1>9. Submits!Restart => SubmitsAlone!Restart
      BY DEF Submits!Restart, SubmitsAlone!Restart,
             Submits!LoadedPos, SubmitsAlone!LoadedPos,
             Submits!LoadHeap, SubmitsAlone!LoadHeap,
             Submits!LoadFromDB, SubmitsAlone!LoadFromDB
  <1> QED
      BY <1>1, <1>2, <1>4, <1>7, <1>8, <1>9
         DEF Submits!Next, SubmitsAlone!Next,
             Submits!Round, SubmitsAlone!Round

LEMMA SubmitsCount == SubmitsAlone!Count!CountRange => Submits!Count!CountRange
  <1>1. \A S : SubmitsAlone!Count!Cardinality(S) = Submits!Count!Cardinality(S)
      BY DEF SubmitsAlone!Count!Cardinality, Submits!Count!Cardinality
  <1>2. \A n : SubmitsAlone!Count!CountsBelow(n) = Submits!Count!CountsBelow(n)
      BY <1>1 DEF SubmitsAlone!Count!CountsBelow, Submits!Count!CountsBelow,
                  SubmitsAlone!Count!ItemsBelow, Submits!Count!ItemsBelow
  <1> QED
      BY <1>2 DEF SubmitsAlone!Count!CountRange, Submits!Count!CountRange

LEMMA RewardsConstants == RewardsAlone!ConstantsOK
  BY StatWorkersAssumption
     DEF StatWorkersAssumption, Rewards!ConstantsOK, RewardsAlone!ConstantsOK,
         Rewards!IsFiniteSet, RewardsAlone!IsFiniteSet

LEMMA RewardsCardinality == ASSUME NEW S PROVE Rewards!Cardinality(S) = RewardsAlone!Cardinality(S)
  BY DEF Rewards!Cardinality, RewardsAlone!Cardinality

LEMMA RewardsMinMax ==
    ASSUME NEW S
    PROVE  Rewards!Min(S) = RewardsAlone!Min(S) /\ Rewards!Max(S) = RewardsAlone!Max(S)
  BY DEF Rewards!Min, RewardsAlone!Min, Rewards!Max, RewardsAlone!Max

\* The two sort alike.
LEMMA RewardsSort ==
    ASSUME NEW all, NEW n
    PROVE  Rewards!SortedFrom(all, n) = RewardsAlone!SortedFrom(all, n)
  BY DEF Rewards!SortedFrom, RewardsAlone!SortedFrom,
         Rewards!Push, RewardsAlone!Push, Rewards!Roots, RewardsAlone!Roots,
         Rewards!NoKeys, RewardsAlone!NoKeys,
         Rewards!Cardinality, RewardsAlone!Cardinality

LEMMA RewardsInit == Rewards!Init => RewardsAlone!Init
  BY RewardsCardinality
     DEF Rewards!Init, RewardsAlone!Init, Rewards!Zero, RewardsAlone!Zero, Rewards!NoKeys,
         RewardsAlone!NoKeys

LEMMA RewardsNext == Rewards!Next => RewardsAlone!Next
  <1> USE DEF Rewards!dbVars, RewardsAlone!dbVars,
              Rewards!roundVars, RewardsAlone!roundVars,
              Rewards!NoKeys, RewardsAlone!NoKeys
  <1>1. Rewards!BlockFinalized => RewardsAlone!BlockFinalized
      BY DEF Rewards!BlockFinalized, RewardsAlone!BlockFinalized
  <1>2. Rewards!NextStatRange => RewardsAlone!NextStatRange
      BY RewardsMinMax
         DEF Rewards!NextStatRange, RewardsAlone!NextStatRange,
             Rewards!FinalPos, RewardsAlone!FinalPos,
             Rewards!Reached, RewardsAlone!Reached, Rewards!RangeEnd, RewardsAlone!RangeEnd
  <1>3. \A k : Rewards!ItemsOf(k) = RewardsAlone!ItemsOf(k)
      BY DEF Rewards!ItemsOf, RewardsAlone!ItemsOf
  <1>4. Rewards!ReadCounters => RewardsAlone!ReadCounters
      BY <1>3, RewardsCardinality
         DEF Rewards!ReadCounters, RewardsAlone!ReadCounters,
             Rewards!Grouped, RewardsAlone!Grouped
  <1>5. Rewards!Sort => RewardsAlone!Sort
      BY RewardsMinMax, RewardsSort
         DEF Rewards!Sort, RewardsAlone!Sort,
             Rewards!Deduplicate, RewardsAlone!Deduplicate
  <1>6. Rewards!BatchUpsert => RewardsAlone!BatchUpsert
      BY <1>3, RewardsCardinality
         DEF Rewards!BatchUpsert, RewardsAlone!BatchUpsert,
             Rewards!Distinct, RewardsAlone!Distinct
  <1>7. Rewards!CalculateStat => RewardsAlone!CalculateStat
      BY <1>5, <1>6
         DEF Rewards!CalculateStat, RewardsAlone!CalculateStat,
             Rewards!StoreHeap, RewardsAlone!StoreHeap,
             Rewards!Snapshot, RewardsAlone!Snapshot
  <1>8. Rewards!CalculateFails => RewardsAlone!CalculateFails
      BY <1>5
         DEF Rewards!CalculateFails, RewardsAlone!CalculateFails
  <1>9. Rewards!Restart => RewardsAlone!Restart
      BY DEF Rewards!Restart, RewardsAlone!Restart,
             Rewards!LoadedPos, RewardsAlone!LoadedPos,
             Rewards!LoadHeap, RewardsAlone!LoadHeap,
             Rewards!LoadFromDB, RewardsAlone!LoadFromDB
  <1> QED
      BY <1>1, <1>2, <1>4, <1>7, <1>8, <1>9
         DEF Rewards!Next, RewardsAlone!Next,
             Rewards!Round, RewardsAlone!Round

LEMMA RewardsCount == RewardsAlone!Count!CountRange => Rewards!Count!CountRange
  <1>1. \A S : RewardsAlone!Count!Cardinality(S) = Rewards!Count!Cardinality(S)
      BY DEF RewardsAlone!Count!Cardinality, Rewards!Count!Cardinality
  <1>2. \A n : RewardsAlone!Count!CountsBelow(n) = Rewards!Count!CountsBelow(n)
      BY <1>1 DEF RewardsAlone!Count!CountsBelow, Rewards!Count!CountsBelow,
                  RewardsAlone!Count!ItemsBelow, Rewards!Count!ItemsBelow
  <1> QED
      BY <1>2 DEF RewardsAlone!Count!CountRange, Rewards!Count!CountRange

\* One of the two rankings runs, or neither, and then both are as they started.
RankInv == IF worker = "rewards" THEN RewardsAlone!IInv ELSE SubmitsAlone!IInv

LEMMA RankInit == Init => RankInv
  BY SubmitsConstants, RewardsConstants, SubmitsInit, RewardsInit, SubmitsAlone!InitInv,
     RewardsAlone!InitInv DEF Init, RankInv

\* A step of the process is one of a ranking, or leaves the data of both alone.
LEMMA StepOfRanking ==
    [Next]_vars =>
        /\ worker' = worker
        /\ IF worker = "rewards" THEN RewardsAlone!Next \/ UNCHANGED topnVars
                                 ELSE SubmitsAlone!Next \/ UNCHANGED topnVars
  <1> SUFFICES ASSUME [Next]_vars
               PROVE  /\ worker' = worker
                      /\ IF worker = "rewards" THEN RewardsAlone!Next \/ UNCHANGED topnVars
                                               ELSE SubmitsAlone!Next \/ UNCHANGED topnVars
      OBVIOUS
  <1>1. CASE ExpiredRun(Expired!Next)  BY <1>1 DEF ExpiredRun
  <1>2. CASE StatRun(Stat!Next)  BY <1>2 DEF StatRun
  <1>3. CASE SubmitsRun(Submits!Next)  BY <1>3, SubmitsNext DEF SubmitsRun
  <1>4. CASE RewardsRun(Rewards!Next)  BY <1>4, RewardsNext DEF RewardsRun
  <1>5. CASE RangeRun(Period!Next)  BY <1>5 DEF RangeRun
  <1>6. CASE UNCHANGED vars  BY <1>6 DEF vars
  <1> QED  BY <1>1, <1>2, <1>3, <1>4, <1>5, <1>6 DEF Next

LEMMA RankNext == RankInv /\ [Next]_vars => RankInv'
  <1> SUFFICES ASSUME RankInv, [Next]_vars PROVE RankInv'  OBVIOUS
  <1>1. worker' = worker  BY StepOfRanking
  <1>2. CASE worker = "rewards"
    <2>1. RewardsAlone!IInv  BY <1>2 DEF RankInv
    <2>2. [RewardsAlone!Next]_(RewardsAlone!vars) => RewardsAlone!IInv'
        BY <2>1, RewardsConstants, RewardsAlone!NextInv
    <2>3. UNCHANGED topnVars => RewardsAlone!IInv'
        BY <2>1 DEF topnVars, RewardsAlone!IInv, RewardsAlone!PositionsOK,
                    RewardsAlone!CursorsAgree, RewardsAlone!LoadedPos, RewardsAlone!RangeOK,
                    RewardsAlone!Counted, RewardsAlone!UpdatesOK, RewardsAlone!Grouped,
                    RewardsAlone!ItemsOf, RewardsAlone!RankingsFollow
    <2> QED  BY <1>1, <1>2, <2>2, <2>3, StepOfRanking DEF RankInv
  <1>3. CASE worker # "rewards"
    <2>1. SubmitsAlone!IInv  BY <1>3 DEF RankInv
    <2>2. [SubmitsAlone!Next]_(SubmitsAlone!vars) => SubmitsAlone!IInv'
        BY <2>1, SubmitsConstants, SubmitsAlone!NextInv
    <2>3. UNCHANGED topnVars => SubmitsAlone!IInv'
        BY <2>1 DEF topnVars, SubmitsAlone!IInv, SubmitsAlone!PositionsOK,
                    SubmitsAlone!CursorsAgree, SubmitsAlone!LoadedPos, SubmitsAlone!RangeOK,
                    SubmitsAlone!Counted, SubmitsAlone!UpdatesOK, SubmitsAlone!Grouped,
                    SubmitsAlone!ItemsOf, SubmitsAlone!RankingsFollow
    <2> QED  BY <1>1, <1>3, <2>2, <2>3, StepOfRanking DEF RankInv
  <1> QED  BY <1>2, <1>3

\* The rankings of the process follow their counters, whatever rounds fail and whatever
\* runs beside them.
THEOREM RankingsFollow == Spec => []RankInv
  BY RankInit, RankNext, PTL DEF Spec

\* The stored ranking is that of the stored counters from the moment the cursor has passed
\* the rounds that were rolled back behind their sort.
THEOREM RankingIsRight == Spec => []RankingFollows
  <1>1. RankInv => RankingFollows
    <2>1. RewardsAlone!IInv => RewardsAlone!RankingFollows
        BY RewardsConstants, RewardsAlone!InvRanks
    <2>2. SubmitsAlone!IInv => SubmitsAlone!RankingFollows
        BY SubmitsConstants, SubmitsAlone!InvRanks
    <2>3. RewardsAlone!RankingFollows => RankingFollows
        BY RewardsCardinality, SubmitsCardinality
           DEF RewardsAlone!RankingFollows, RewardsAlone!Ranks, RankingFollows,
               Submits!RankingFollows, Submits!Ranks,
               RewardsAlone!Cardinality, Submits!Cardinality
    <2>4. SubmitsAlone!RankingFollows => RankingFollows
        BY SubmitsCardinality
           DEF SubmitsAlone!RankingFollows, SubmitsAlone!Ranks, RankingFollows,
               Submits!RankingFollows, Submits!Ranks
    <2> QED  BY <2>1, <2>2, <2>3, <2>4 DEF RankInv
  <1> QED  BY <1>1, RankingsFollow, PTL

\* Every step of the counters of a ranking counts a range of submissions or rewards, each
\* item exactly once, whatever rounds fail and however often the process restarts.
THEOREM RankingCountsOnce == Spec => RankedOnce
  <1> DEFINE Ranked == IF worker = "rewards" THEN Rewards!Count!CountRange
                                             ELSE Submits!Count!CountRange
  <1>1. RankInv /\ [Next]_vars => [Ranked]_<<topnPos, counter>>
    <2> SUFFICES ASSUME RankInv, [Next]_vars PROVE Ranked \/ UNCHANGED <<topnPos, counter>>
        OBVIOUS
    <2>1. UNCHANGED topnVars => UNCHANGED <<topnPos, counter>>
        BY DEF topnVars
    <2>2. CASE worker = "rewards"
      <3>1. RewardsAlone!IInv  BY <2>2 DEF RankInv
      <3>2. RewardsAlone!Next => RewardsAlone!Count!CountRange \/ UNCHANGED <<topnPos, counter>>
          BY <3>1, RewardsConstants, RewardsAlone!StepCounts
      <3> QED  BY <2>1, <2>2, <3>2, StepOfRanking, RewardsCount
    <2>3. CASE worker # "rewards"
      <3>1. SubmitsAlone!IInv  BY <2>3 DEF RankInv
      <3>2. SubmitsAlone!Next => SubmitsAlone!Count!CountRange \/ UNCHANGED <<topnPos, counter>>
          BY <3>1, SubmitsConstants, SubmitsAlone!StepCounts
      <3> QED  BY <2>1, <2>3, <3>2, StepOfRanking, SubmitsCount
    <2> QED  BY <2>2, <2>3
  <1> QED
      BY <1>1, RankingsFollow, PTL DEF Spec, RankedOnce

-----------------------------------------------------------------------------
(* Numbers and intervals.                                                  *)

LEMMA Division ==
    ASSUME NEW d \in Nat \ {0}, NEW x \in Nat
    PROVE  /\ x \div d \in Nat /\ x % d \in 0..(d - 1)
           /\ x = (x \div d) * d + (x % d)
  OBVIOUS

\* The same of any integer.
LEMMA IntDivision ==
    ASSUME NEW d \in Nat \ {0}, NEW x \in Int
    PROVE  /\ x \div d \in Int /\ x % d \in 0..(d - 1)
           /\ x = (x \div d) * d + (x % d)
  OBVIOUS

LEMMA Multiple ==
    ASSUME NEW d \in Nat \ {0}, NEW q \in Nat
    PROVE  (q * d) % d = 0 /\ (q * d) \in Nat
  OBVIOUS

LEMMA Apart ==
    ASSUME NEW d \in Nat \ {0}, NEW p \in Nat, NEW q \in Nat, p < q
    PROVE  p * d + d <= q * d
  OBVIOUS

LEMMA Times1 == ASSUME NEW d \in Nat \ {0}, NEW q \in Nat PROVE (q - 1) * d = q * d - d
  OBVIOUS

\* Two intervals of one length do not overlap.
LEMMA IntervalsApart ==
    ASSUME NEW d \in Nat \ {0}, NEW s \in Nat, NEW t \in Nat, s % d = 0, t % d = 0, s < t
    PROVE  s + d <= t
<1> DEFINE p == s \div d
           q == t \div d
<1>1. p \in Nat /\ q \in Nat /\ s = p * d /\ t = q * d
  <2>1. s = p * d + (s % d) /\ p \in Nat /\ p * d \in Nat
    BY Division, Multiple
  <2>2. t = q * d + (t % d) /\ q \in Nat /\ q * d \in Nat
    BY Division, Multiple
  <2> HIDE DEF p, q
  <2> QED
    BY <2>1, <2>2
<1> HIDE DEF p, q
<1>2. p < q
  <2> SUFFICES ASSUME q <= p PROVE FALSE
    BY <1>1
  <2>1. CASE q = p
    BY <2>1, <1>1
  <2>2. CASE q < p
    <3>1. q * d + d <= p * d
      BY <2>2, <1>1, Apart
    <3> QED
      BY <3>1, <1>1
  <2> QED
    BY <2>1, <2>2, <1>1
<1>3. p * d + d <= q * d
  BY <1>1, <1>2, Apart
<1> QED
  BY <1>1, <1>3

LEMMA MinOfTwo ==
    ASSUME NEW a \in Int, NEW b \in Int
    PROVE  Min({a, b}) = IF a <= b THEN a ELSE b
<1> DEFINE m == IF a <= b THEN a ELSE b
<1>1. m \in {a, b} /\ \A y \in {a, b} : m <= y
  OBVIOUS
<1>2. Min({a, b}) \in {a, b} /\ \A y \in {a, b} : Min({a, b}) <= y
  BY <1>1 DEF Min
<1> QED
  BY <1>1, <1>2

\* What lies in two intervals that meet adds up.
LEMMA SplitSet ==
    ASSUME NEW A, NEW B, NEW C, IsFiniteSet(A), IsFiniteSet(B), C = A \cup B, A \cap B = {}
    PROVE  Cardinality(C) = Cardinality(A) + Cardinality(B)
<1>1. Cardinality(A \cup B) = Cardinality(A) + Cardinality(B) - Cardinality(A \cap B)
  BY FS_Union
<1>2. Cardinality({}) = 0
  BY FS_EmptySet
<1>3. Cardinality(A) \in Nat /\ Cardinality(B) \in Nat
  BY FS_CardinalityType
<1>4. Cardinality(C) = Cardinality(A \cup B) /\ Cardinality(A \cap B) = 0
  BY <1>2, Zenon
<1> QED
  BY <1>1, <1>3, <1>4


\* The multiple of d at or below x.
Below(x, d) == (x \div d) * d

LEMMA BelowIs ==
    ASSUME NEW d \in Nat \ {0}, NEW x \in Nat
    PROVE  /\ Below(x, d) \in Nat /\ Below(x, d) % d = 0
           /\ Below(x, d) <= x /\ x < Below(x, d) + d
<1> DEFINE q == x \div d
<1>1. q \in Nat /\ x % d \in 0..(d - 1) /\ x = q * d + (x % d)
  BY Division
<1>2. (q * d) \in Nat /\ (q * d) % d = 0
  BY <1>1, Multiple
<1>3. Below(x, d) = q * d
  BY DEF Below
<1> HIDE DEF q
<1> QED
  BY <1>1, <1>2, <1>3

\* There is no other.
LEMMA BelowOnly ==
    ASSUME NEW d \in Nat \ {0}, NEW x \in Nat, NEW m \in Nat, m % d = 0, m <= x, x < m + d
    PROVE  Below(x, d) = m
<1> DEFINE b == Below(x, d)
<1>1. b \in Nat /\ b % d = 0 /\ b <= x /\ x < b + d
  BY BelowIs
<1> HIDE DEF b
<1>2. ~ (b < m)
  <2> SUFFICES ASSUME b < m PROVE FALSE
    OBVIOUS
  <2>1. b + d <= m
    BY <1>1, IntervalsApart
  <2> QED
    BY <1>1, <2>1
<1>3. ~ (m < b)
  <2> SUFFICES ASSUME m < b PROVE FALSE
    OBVIOUS
  <2>1. m + d <= b
    BY <1>1, IntervalsApart
  <2> QED
    BY <1>1, <2>1
<1> QED
  BY <1>1, <1>2, <1>3 DEF b

\* A multiple of d is the multiple of d at or below it.
LEMMA IsMultiple ==
    ASSUME NEW d \in Nat \ {0}, NEW x \in Nat, x % d = 0
    PROVE  \E q \in Nat : x = q * d
<1> DEFINE q == x \div d
<1>1. q \in Nat /\ x = q * d + (x % d) /\ (q * d) \in Nat
  BY Division, Multiple
<1> HIDE DEF q
<1>2. x = q * d
  BY <1>1
<1> QED
  BY <1>1, <1>2

LEMMA MultiplesAdd ==
    ASSUME NEW d \in Nat \ {0}, NEW x \in Nat, NEW y \in Nat, x % d = 0, y % d = 0
    PROVE  (x + y) % d = 0
<1>1. PICK p \in Nat : x = p * d
  BY IsMultiple
<1>2. PICK q \in Nat : y = q * d
  BY IsMultiple
<1>3. x + y = (p + q) * d
  BY <1>1, <1>2
<1>4. ((p + q) * d) % d = 0
  <2>1. p + q \in Nat
    OBVIOUS
  <2> QED
    BY <2>1, Multiple
<1> QED
  BY <1>3, <1>4

LEMMA MultipleOfMultiple ==
    ASSUME NEW d \in Nat \ {0}, NEW e \in Nat \ {0}, NEW x \in Nat, e % d = 0, x % e = 0
    PROVE  x % d = 0
<1>1. PICK p \in Nat : x = p * e
  BY IsMultiple
<1>2. PICK q \in Nat : e = q * d
  BY IsMultiple
<1>3. x = (p * q) * d /\ p * q \in Nat
  BY <1>1, <1>2
<1> QED
  BY <1>3, Multiple

-----------------------------------------------------------------------------
(* The statistics per interval.                                             *)

LEMMA StatConstants == Stat!ConstantsOK
  BY StatWorkersAssumption DEF StatWorkersAssumption

\* They count as everybody does.
LEMMA StatLibrary ==
    /\ \A S : Stat!Cardinality(S) = Cardinality(S) /\ Stat!IsFiniteSet(S) = IsFiniteSet(S)
    /\ \A S : Stat!Min(S) = Min(S) /\ Stat!Max(S) = Max(S)
  BY DEF Stat!Cardinality, Cardinality, Stat!IsFiniteSet, IsFiniteSet, Stat!Min, Min, Stat!Max, Max

\* No reorganisation has come between a stored block and the comparison of its number.
Steady == ~PopInGate \/ pops = 0

\* What the sync process stores.
StatBlocksOK ==
    /\ stat \in Stat!Statistics /\ blocks \in Seq(Times) /\ finalizedNum \in Nat
    /\ converted \in Times \cup {Stat!NoTime} /\ since \in [Senders -> Times \cup {Stat!NoTime}]
    /\ \A m, n \in DOMAIN blocks : m <= n => blocks[m] <= blocks[n]
    /\ converted # Stat!NoTime => \A n \in DOMAIN blocks : blocks[n] <= converted
    /\ pops \in Nat

\* The base intervals have no gap, and longer ones start below their end.
RowsShape ==
    /\ DOMAIN stats = Stat!Types
    /\ Stat!Covered \in Nat /\ StartTime <= Stat!Covered
    /\ DOMAIN stats[Stat!Base] = StartTime..(Stat!Covered - 1)
    /\ \A type \in Stat!Types : \A t \in DOMAIN stats[type] :
          t \in Nat /\ t % type = 0 /\ t < Stat!Covered /\ StartTime < Stat!Covered

\* A round works on the interval behind the last one.
StatRoundOK ==
    /\ statPhase \in {"range", "gate", "stat"} /\ blockNum \in Nat
    /\ statPhase # "range" => rangeStart = Stat!Covered

\* A final block lies behind all that is stored, and behind the interval of the round.
FinalBehind(t) == \E n \in DOMAIN blocks : n <= finalizedNum /\ blocks[n] >= t
Behind ==
    /\ StartTime < Stat!Covered => FinalBehind(Stat!Covered)
    /\ statPhase # "range" => blockNum \in DOMAIN blocks /\ blocks[blockNum] >= rangeStart + Stat!Base
    /\ statPhase = "stat" => blockNum <= finalizedNum

\* Who is in a block is known since then.
KnownAt(t) == since[SenderAt[t]] # Stat!NoTime /\ since[SenderAt[t]] <= t
KnownFirst ==
    /\ \A n \in DOMAIN blocks : KnownAt(blocks[n])
    /\ converted # Stat!NoTime => KnownAt(converted)
    /\ \A s \in Senders : since[s] # Stat!NoTime =>
          since[s] = converted \/ \E n \in DOMAIN blocks : since[s] = blocks[n]

StatInv ==
    /\ StatBlocksOK /\ RowsShape /\ StatRoundOK
    /\ Steady => Behind /\ Stat!RowsExact
    /\ pops = 0 => KnownFirst

-----------------------------------------------------------------------------
(* Intervals.                                                               *)

\* The interval of a longer type that a base interval ends in.
LEMMA RangeStartIs ==
    ASSUME NEW d \in Nat \ {0}, NEW end \in Nat \ {0}
    PROVE  LET s == Stat!CalStatRangeStart(end, d)
           IN s \in Nat /\ s % d = 0 /\ s < end /\ end <= s + d
<1> DEFINE q == end \div d
           r == end % d
<1>1. q \in Nat /\ r \in 0..(d - 1) /\ end = q * d + r
  BY Division
<1>2. (q * d) \in Nat /\ (q * d) % d = 0
  BY <1>1, Multiple
<1>3. Stat!CalStatRangeStart(end, d) = IF r = 0 THEN end - d ELSE q * d
  BY DEF Stat!CalStatRangeStart
<1> HIDE DEF q, r
<1>4. CASE r = 0
  <2>1. q # 0
    BY <1>1, <1>4
  <2>2. end - d = (q - 1) * d
    BY <1>1, <1>4, Times1
  <2>3. ((q - 1) * d) % d = 0 /\ ((q - 1) * d) \in Nat
    BY <2>1, <1>1, Multiple
  <2> QED
    BY <2>2, <2>3, <1>3, <1>4
<1>5. CASE r # 0
  BY <1>1, <1>2, <1>3, <1>5
<1> QED
  BY <1>4, <1>5

LEMMA StatisticsAre ==
    ASSUME NEW st \in Stat!Statistics
    PROVE  /\ st.rollups \subseteq {Hour, Day}
           /\ st.active => st.new = "senders" /\ st.before = "senders"
           /\ st.new \in {"rows", "senders"} /\ st.active \in BOOLEAN
<1>1. CASE st = Stat!Submits
  BY <1>1 DEF Stat!Submits
<1>2. CASE st = Stat!Rewards
  BY <1>2 DEF Stat!Rewards
<1>3. CASE st = Stat!DASubmits
  BY <1>3 DEF Stat!DASubmits
<1>4. CASE st = Stat!Addresses
  BY <1>4 DEF Stat!Addresses
<1>5. CASE st = Stat!Miners
  BY <1>5 DEF Stat!Miners
<1>6. CASE st = Stat!DAClients
  BY <1>6 DEF Stat!DAClients
<1>7. CASE st = Stat!DASigners
  BY <1>7 DEF Stat!DASigners
<1> QED
  BY <1>1, <1>2, <1>3, <1>4, <1>5, <1>6, <1>7 DEF Stat!Statistics

LEMMA TypesAre ==
    ASSUME stat \in Stat!Statistics
    PROVE  Stat!Base \in Stat!Types /\ Stat!Types \subseteq Nat \ {0} /\ Stat!Types \subseteq {Stat!Base, Hour, Day}
<1>1. {Hour, Day} \subseteq Nat \ {0, 1}
  BY StatConstants DEF Stat!ConstantsOK
<1>2. stat.rollups \subseteq {Hour, Day}
  BY StatisticsAre
<1> QED
  BY <1>1, <1>2 DEF Stat!Types, Stat!Base

-----------------------------------------------------------------------------
(* Numbers.                                                                 *)

LEMMA BlocksFinite ==
    ASSUME blocks \in Seq(Times), NEW start, NEW end
    PROVE  /\ IsFiniteSet(Stat!RowsIn(start, end)) /\ IsFiniteSet(Stat!SendersSince(start, end))
           /\ IsFiniteSet({SenderAt[blocks[n]] : n \in Stat!RowsIn(start, end)})
<1>1. Len(blocks) \in Nat /\ DOMAIN blocks = 1..Len(blocks)
  OBVIOUS
<1>2. IsFiniteSet(1..Len(blocks))
  BY <1>1, FS_Interval
<1>3. IsFiniteSet(Stat!RowsIn(start, end))
  BY <1>1, <1>2, FS_Subset DEF Stat!RowsIn
<1>4. IsFiniteSet(Stat!SendersSince(start, end))
  BY StatConstants, StatLibrary, FS_Subset DEF Stat!SendersSince, Stat!ConstantsOK
<1>5. IsFiniteSet({SenderAt[blocks[n]] : n \in Stat!RowsIn(start, end)})
  <2> DEFINE S == Stat!RowsIn(start, end)
             T == {SenderAt[blocks[n]] : n \in S}
             f == [n \in S |-> SenderAt[blocks[n]]]
  <2> HIDE DEF S
  <2>1. f \in Surjection(S, T)
    BY DEF Surjection
  <2> HIDE DEF f, T
  <2>2. IsFiniteSet(T)
    BY <1>3, <2>1, FS_Surjection DEF S
  <2> QED
    BY <2>2 DEF S, T
<1> QED
  BY <1>3, <1>4, <1>5

LEMMA BlockTimes ==
    ASSUME NEW bs \in Seq(Times)
    PROVE  /\ Len(bs) \in Nat /\ DOMAIN bs = 1..Len(bs)
           /\ \A n \in DOMAIN bs : bs[n] \in Times /\ bs[n] \in Nat
<1>1. Len(bs) \in Nat /\ DOMAIN bs = 1..Len(bs)
  OBVIOUS
<1>2. \A n \in 1..Len(bs) : bs[n] \in Times
  BY ElementOfSeq
<1>3. Times \subseteq Nat
  BY StatConstants DEF Stat!ConstantsOK
<1> QED
  BY <1>1, <1>2, <1>3

LEMMA CountAdds ==
    ASSUME StatBlocksOK, NEW table \in {"rows", "senders"},
           NEW start \in Nat, NEW end \in Nat, start <= end
    PROVE  /\ Stat!Count(table, 0, end) = Stat!Count(table, 0, start) + Stat!Count(table, start, end)
           /\ Stat!Count(table, start, end) \in Nat
<1>1. /\ blocks \in Seq(Times) /\ Times \subseteq Nat
      /\ since \in [Senders -> Times \cup {Stat!NoTime}]
  BY StatConstants DEF StatBlocksOK, Stat!ConstantsOK
<1>2. /\ Stat!RowsIn(0, end) = Stat!RowsIn(0, start) \cup Stat!RowsIn(start, end)
      /\ Stat!RowsIn(0, start) \cap Stat!RowsIn(start, end) = {}
  <2>1. \A n \in DOMAIN blocks : blocks[n] \in Nat
    BY BlockTimes DEF StatBlocksOK
  <2> QED
    BY <2>1 DEF Stat!RowsIn, Stat!Within
<1>3. /\ Stat!SendersSince(0, end) = Stat!SendersSince(0, start) \cup Stat!SendersSince(start, end)
      /\ Stat!SendersSince(0, start) \cap Stat!SendersSince(start, end) = {}
  <2>1. \A s \in Senders : since[s] # Stat!NoTime => since[s] \in Nat
    BY <1>1
  <2> QED
    BY <2>1 DEF Stat!SendersSince, Stat!Within
<1>4. CASE table = "rows"
  <2>1. /\ IsFiniteSet(Stat!RowsIn(0, start)) /\ IsFiniteSet(Stat!RowsIn(start, end))
    BY <1>1, BlocksFinite
  <2>2. Cardinality(Stat!RowsIn(0, end)) =
            Cardinality(Stat!RowsIn(0, start)) + Cardinality(Stat!RowsIn(start, end))
    BY <1>2, <2>1, SplitSet
  <2>3. Cardinality(Stat!RowsIn(start, end)) \in Nat
    BY <2>1, FS_CardinalityType
  <2> QED
    BY <1>4, <2>2, <2>3, StatLibrary DEF Stat!Count
<1>5. CASE table # "rows"
  <2>1. /\ IsFiniteSet(Stat!SendersSince(0, start)) /\ IsFiniteSet(Stat!SendersSince(start, end))
    BY <1>1, BlocksFinite
  <2>2. Cardinality(Stat!SendersSince(0, end)) =
            Cardinality(Stat!SendersSince(0, start)) + Cardinality(Stat!SendersSince(start, end))
    BY <1>3, <2>1, SplitSet
  <2>3. Cardinality(Stat!SendersSince(start, end)) \in Nat
    BY <2>1, FS_CardinalityType
  <2> QED
    BY <1>5, <2>2, <2>3, StatLibrary DEF Stat!Count
<1> QED
  BY <1>4, <1>5

-----------------------------------------------------------------------------
(* The steps of the sync process.                                           *)

\* Nothing comes or goes below the end of what is stored.
SameBelow(t) ==
    \A start : \A end \in Nat : end <= t =>
        /\ Stat!RowsIn(start, end)' = Stat!RowsIn(start, end)
        /\ Stat!SendersSince(start, end)' = Stat!SendersSince(start, end)

LEMMA SameCounts ==
    ASSUME NEW t \in Nat, SameBelow(t), NEW start, NEW end \in Nat, end <= t,
           \A n \in DOMAIN blocks \cap DOMAIN blocks' : blocks'[n] = blocks[n]
    PROVE  /\ \A table : Stat!Count(table, start, end)' = Stat!Count(table, start, end)
           /\ Stat!CountActive(start, end)' = Stat!CountActive(start, end)
<1>1. /\ Stat!RowsIn(start, end)' = Stat!RowsIn(start, end)
      /\ Stat!SendersSince(start, end)' = Stat!SendersSince(start, end)
  BY DEF SameBelow
<1>2. \A table : Stat!Count(table, start, end)' = Stat!Count(table, start, end)
  BY <1>1 DEF Stat!Count
<1>3. \A n \in Stat!RowsIn(start, end) : blocks'[n] = blocks[n]
  <2>1. /\ Stat!RowsIn(start, end) \subseteq DOMAIN blocks
        /\ Stat!RowsIn(start, end)' \subseteq DOMAIN blocks'
    BY DEF Stat!RowsIn
  <2> QED
    BY <1>1, <2>1
<1>4. {SenderAt[blocks[n]] : n \in Stat!RowsIn(start, end)}' = {SenderAt[blocks[n]] : n \in Stat!RowsIn(start, end)}
  BY <1>1, <1>3
<1>5. Stat!CountActive(start, end)' = Stat!CountActive(start, end)
  BY <1>4 DEF Stat!CountActive
<1> QED
  BY <1>2, <1>5

\* The row of an interval is exact for what is stored up to c.
ExactTo(type, t, row, c) ==
    LET end == Min({t + type, c})
    IN /\ row.count = Stat!Count(stat.new, t, end)
       /\ stat.new = stat.before => row.total = Stat!Count(stat.new, 0, end)
       /\ stat.active => row.active = Stat!CountActive(t, end)

LEMMA RowsExactIs ==
    Stat!RowsExact <=> \A type \in Stat!Types : \A t \in DOMAIN stats[type] :
                      ExactTo(type, t, stats[type][t], Stat!Covered)
  BY StatLibrary DEF Stat!RowsExact, ExactTo

\* Then a row stays exact.
LEMMA StaysExact ==
    ASSUME NEW c \in Nat, SameBelow(c), stat' = stat,
           \A n \in DOMAIN blocks \cap DOMAIN blocks' : blocks'[n] = blocks[n],
           NEW type \in Nat, NEW t \in Nat, NEW row, ExactTo(type, t, row, c)
    PROVE  ExactTo(type, t, row, c)'
<1> DEFINE end == Min({t + type, c})
<1>1. end \in Nat /\ end <= c
  BY MinOfTwo
<1>2. /\ row.count = Stat!Count(stat.new, t, end)
      /\ stat.new = stat.before => row.total = Stat!Count(stat.new, 0, end)
      /\ stat.active => row.active = Stat!CountActive(t, end)
  BY DEF ExactTo
<1> SUFFICES /\ row.count = Stat!Count(stat.new, t, end)'
             /\ stat.new = stat.before => row.total = Stat!Count(stat.new, 0, end)'
             /\ stat.active => row.active = Stat!CountActive(t, end)'
  BY DEF ExactTo
<1> HIDE DEF end
<1>3. /\ \A table : Stat!Count(table, t, end)' = Stat!Count(table, t, end)
      /\ Stat!CountActive(t, end)' = Stat!CountActive(t, end)
  BY <1>1, SameCounts
<1>4. \A table : Stat!Count(table, 0, end)' = Stat!Count(table, 0, end)
  BY <1>1, SameCounts
<1>5. \A table : Stat!Count(stat.new, t, end)' = Stat!Count(stat.new, t, end)
  BY <1>3
<1> QED
  BY <1>2, <1>3, <1>4

LEMMA RowsStayExact ==
    ASSUME StatBlocksOK, RowsShape, Stat!RowsExact, SameBelow(Stat!Covered), UNCHANGED <<stat, stats>>,
           \A n \in DOMAIN blocks \cap DOMAIN blocks' : blocks'[n] = blocks[n]
    PROVE  Stat!RowsExact'
<1>1. Stat!Covered' = Stat!Covered /\ Stat!Types' = Stat!Types /\ Stat!Covered \in Nat
  BY DEF Stat!Covered, Stat!NextRangeStart, Stat!LastByType, Stat!Types, RowsShape
<1>2. PICK c \in Nat : c = Stat!Covered
  BY <1>1
<1>3. SameBelow(c)
  BY <1>2 DEF SameBelow
<1>4. ASSUME NEW type \in Stat!Types, NEW t \in DOMAIN stats[type]
      PROVE  ExactTo(type, t, stats[type][t], Stat!Covered)'
  <2>1. t \in Nat /\ type \in Nat
    BY TypesAre DEF RowsShape, StatBlocksOK
  <2>2. PICK row : row = stats[type][t]
    OBVIOUS
  <2>3. ExactTo(type, t, row, c)
    BY <1>2, <2>2, RowsExactIs
  <2>4. ExactTo(type, t, row, c)'
    BY <1>3, <2>1, <2>3, StaysExact
  <2> QED
    BY <1>1, <1>2, <2>2, <2>4
<1>5. Stat!RowsExact' <=> \A type \in Stat!Types' : \A t \in DOMAIN stats'[type] :
                      ExactTo(type, t, stats[type][t], Stat!Covered)'
  BY StatLibrary DEF Stat!RowsExact, ExactTo
<1> QED
  BY <1>1, <1>4, <1>5

LEMMA InitStatInv == Stat!Init => StatInv
<1> SUFFICES ASSUME Stat!Init PROVE StatInv
  OBVIOUS
<1>0. \A type \in Stat!Types : stats[type] = [t \in {} |-> [count |-> 0, total |-> 0, active |-> 0]]
  BY DEF Stat!Init
<1>1. StatBlocksOK
  <2>1. Len(blocks) = 0 /\ DOMAIN blocks = {} /\ blocks \in Seq(Times)
    BY DEF Stat!Init
  <2> QED
    BY <2>1, StatConstants DEF Stat!Init, StatBlocksOK, Stat!ConstantsOK, Stat!NoTime
<1>2. Stat!Base \in Stat!Types /\ \A type \in Stat!Types : DOMAIN stats[type] = {}
  BY <1>0 DEF Stat!Types
<1>3. Stat!Covered = StartTime
  BY <1>2 DEF Stat!Covered, Stat!NextRangeStart, Stat!LastByType
<1>4. RowsShape
  BY <1>2, <1>3, StatConstants DEF RowsShape, Stat!Init, Stat!ConstantsOK, Stat!Types
<1>5. StatRoundOK /\ (Steady => Behind)
  BY <1>3, StatConstants DEF Stat!Init, StatRoundOK, Behind, Stat!ConstantsOK
<1>6. Stat!RowsExact
  BY <1>2 DEF Stat!RowsExact
<1>7. KnownFirst
  BY DEF Stat!Init, KnownFirst
<1> QED
  BY <1>1, <1>4, <1>5, <1>6, <1>7 DEF StatInv

LEMMA ConvertInv == StatInv /\ Stat!Convert => StatInv'
<1> SUFFICES ASSUME StatInv, Stat!Convert PROVE StatInv'
  OBVIOUS
<1>1. /\ StatBlocksOK /\ RowsShape /\ StatRoundOK /\ (Steady => Behind /\ Stat!RowsExact)
      /\ (pops = 0 => KnownFirst)
  BY DEF StatInv
<1>2. PICK time \in Times :
          /\ \A n \in DOMAIN blocks : blocks[n] <= time
          /\ converted' = time /\ since' = Stat!WithSender(time)
  BY DEF Stat!Convert
<1>3. UNCHANGED <<blocks, Stat!Unfinished>> /\ converted = Stat!NoTime
  BY DEF Stat!Convert
<1>4. Times \subseteq Nat /\ SenderAt[time] \in Senders
  BY StatConstants DEF Stat!ConstantsOK
<1>5. since \in [Senders -> Times \cup {Stat!NoTime}] /\ blocks \in Seq(Times)
  BY <1>1 DEF StatBlocksOK
<1>6. /\ since' \in [Senders -> Times \cup {Stat!NoTime}]
      /\ \A s \in Senders : since[s] # Stat!NoTime => since'[s] = since[s]
      /\ \A s \in Senders : since[s] = Stat!NoTime => since'[s] \in {Stat!NoTime, time}
      /\ since'[SenderAt[time]] # Stat!NoTime
  BY <1>2, <1>4, <1>5 DEF Stat!WithSender, Stat!NoTime
<1>7. StatBlocksOK'
  BY <1>1, <1>2, <1>3, <1>6 DEF StatBlocksOK, Stat!Unfinished
<1>8. Stat!Covered' = Stat!Covered /\ Stat!Types' = Stat!Types
  BY <1>3 DEF Stat!Covered, Stat!NextRangeStart, Stat!LastByType, Stat!Types, Stat!Unfinished
<1>9. RowsShape' /\ StatRoundOK'
  BY <1>1, <1>3, <1>8 DEF RowsShape, StatRoundOK, Stat!Unfinished
<1>10. ASSUME Steady' PROVE Behind' /\ Stat!RowsExact'
  <2>1. Behind /\ Stat!RowsExact
    BY <1>1, <1>3, <1>10 DEF Steady, Stat!Unfinished
  <2>2. Behind'
    BY <2>1, <1>3, <1>8 DEF Behind, FinalBehind, Stat!Unfinished
  <2>3. CASE StartTime < Stat!Covered
    <3>1. Stat!Covered <= time
      <4>1. PICK n \in DOMAIN blocks : blocks[n] >= Stat!Covered
        BY <2>1, <2>3 DEF Behind, FinalBehind
      <4>2. blocks[n] \in Nat /\ Stat!Covered \in Nat /\ time \in Nat /\ blocks[n] <= time
        BY <1>1, <1>2, <1>4, <1>5, BlockTimes DEF RowsShape
      <4> QED
        BY <4>1, <4>2
    <3>2. SameBelow(Stat!Covered)
      <4> SUFFICES ASSUME NEW start, NEW end \in Nat, end <= Stat!Covered
                   PROVE  /\ Stat!RowsIn(start, end)' = Stat!RowsIn(start, end)
                          /\ Stat!SendersSince(start, end)' = Stat!SendersSince(start, end)
        BY DEF SameBelow
      <4>1. Stat!RowsIn(start, end)' = Stat!RowsIn(start, end)
        BY <1>3 DEF Stat!RowsIn
      <4>2. ~ (time < end) /\ Stat!NoTime # time
        <5>1. Stat!Covered \in Nat /\ time \in Nat
          BY <1>1, <1>4 DEF RowsShape
        <5> QED
          BY <5>1, <3>1 DEF Stat!NoTime
      <4>3. Stat!SendersSince(start, end)' = Stat!SendersSince(start, end)
        BY <4>2, <1>6 DEF Stat!SendersSince, Stat!Within
      <4> QED
        BY <4>1, <4>3
    <3> QED
      BY <1>1, <1>3, <2>1, <2>2, <3>2, RowsStayExact DEF Stat!Unfinished
  <2>4. CASE ~ (StartTime < Stat!Covered)
    <3>1. \A type \in Stat!Types : DOMAIN stats[type] = {}
      BY <2>4, <1>1 DEF RowsShape
    <3>2. Stat!RowsExact'
      BY <3>1, <1>3, <1>8 DEF Stat!RowsExact, Stat!Unfinished
    <3> QED
      BY <3>2, <2>2
  <2> QED
    BY <2>3, <2>4
<1>11. ASSUME pops' = 0 PROVE KnownFirst'
  <2>1. KnownFirst
    BY <1>1, <1>3, <1>11 DEF Stat!Unfinished
  <2>2. \A n \in DOMAIN blocks : SenderAt[blocks[n]] \in Senders
    <3>1. SenderAt \in [Times -> Senders]
      BY StatConstants DEF Stat!ConstantsOK
    <3> QED
      BY <3>1, <1>5, BlockTimes
  <2>3. \A n \in DOMAIN blocks : KnownAt(blocks[n])'
    BY <2>1, <2>2, <1>3, <1>6 DEF KnownFirst, KnownAt
  <2>4. since'[SenderAt[time]] <= time
    <3>1. CASE since[SenderAt[time]] = Stat!NoTime
      BY <3>1, <1>4, <1>6
    <3>2. CASE since[SenderAt[time]] # Stat!NoTime
      <4>1. \E n \in DOMAIN blocks : since[SenderAt[time]] = blocks[n]
        BY <3>2, <2>1, <1>3, <1>4 DEF KnownFirst
      <4> QED
        BY <4>1, <3>2, <1>2, <1>4, <1>6
    <3> QED
      BY <3>1, <3>2
  <2>5. (converted # Stat!NoTime)' => KnownAt(converted)'
    BY <2>4, <1>2, <1>6 DEF KnownAt
  <2>6. \A s \in Senders : since'[s] # Stat!NoTime =>
            since'[s] = converted' \/ \E n \in DOMAIN blocks' : since'[s] = blocks'[n]
    <3> SUFFICES ASSUME NEW s \in Senders, since'[s] # Stat!NoTime
                 PROVE  since'[s] = converted' \/ \E n \in DOMAIN blocks' : since'[s] = blocks'[n]
      OBVIOUS
    <3>1. CASE since[s] = Stat!NoTime
      BY <3>1, <1>2, <1>6
    <3>2. CASE since[s] # Stat!NoTime
      BY <3>2, <2>1, <1>3, <1>6 DEF KnownFirst
    <3> QED
      BY <3>1, <3>2
  <2> QED
    BY <2>3, <2>5, <2>6, <1>3 DEF KnownFirst
<1> QED
  BY <1>7, <1>9, <1>10, <1>11 DEF StatInv

LEMMA PushInv == StatInv /\ Stat!Push => StatInv'
<1> SUFFICES ASSUME StatInv, Stat!Push PROVE StatInv'
  OBVIOUS
<1> DEFINE m == Len(blocks)
<1>1. /\ StatBlocksOK /\ RowsShape /\ StatRoundOK /\ (Steady => Behind /\ Stat!RowsExact)
      /\ (pops = 0 => KnownFirst)
  BY DEF StatInv
<1>2. /\ converted # Stat!NoTime /\ blocks' = Append(blocks, converted) /\ converted' = Stat!NoTime
      /\ UNCHANGED <<since, Stat!Unfinished>>
  BY DEF Stat!Push
<1>3. blocks \in Seq(Times) /\ converted \in Times
  BY <1>1, <1>2 DEF StatBlocksOK
<1>4. /\ blocks' \in Seq(Times) /\ m \in Nat
      /\ DOMAIN blocks = 1..m /\ DOMAIN blocks' = 1..(m + 1)
      /\ blocks'[m + 1] = converted
      /\ \A n \in 1..m : blocks'[n] = blocks[n]
  BY <1>2, <1>3
<1>5. converted \in Nat /\ \A n \in 1..m : blocks[n] \in Nat /\ blocks[n] <= converted
  <2>1. \A n \in DOMAIN blocks : blocks[n] <= converted
    BY <1>1, <1>2 DEF StatBlocksOK
  <2>2. Times \subseteq Nat
    BY StatConstants DEF Stat!ConstantsOK
  <2> QED
    BY <2>1, <2>2, <1>3, <1>4, BlockTimes
<1> HIDE DEF m
<1>6. StatBlocksOK'
  <2>1. \A a, b \in 1..(m + 1) : a <= b => blocks'[a] <= blocks'[b]
    <3> SUFFICES ASSUME NEW a \in 1..(m + 1), NEW b \in 1..(m + 1), a <= b
                 PROVE  blocks'[a] <= blocks'[b]
      OBVIOUS
    <3>1. CASE b \in 1..m
      <4>1. a \in 1..m
        BY <3>1, <1>4
      <4> QED
        BY <4>1, <3>1, <1>1, <1>4 DEF StatBlocksOK
    <3>2. CASE b = m + 1
      <4>1. CASE a = m + 1
        BY <4>1, <3>2, <1>4, <1>5
      <4>2. CASE a # m + 1
        <5>1. a \in 1..m
          BY <4>2, <1>4
        <5> QED
          BY <5>1, <3>2, <1>4, <1>5
      <4> QED
        BY <4>1, <4>2
    <3> QED
      BY <3>1, <3>2, <1>4
  <2> QED
    BY <2>1, <1>1, <1>2, <1>4 DEF StatBlocksOK, Stat!Unfinished
<1>7. Stat!Covered' = Stat!Covered /\ Stat!Types' = Stat!Types
  BY <1>2 DEF Stat!Covered, Stat!NextRangeStart, Stat!LastByType, Stat!Types, Stat!Unfinished
<1>8. RowsShape' /\ StatRoundOK'
  BY <1>1, <1>2, <1>7 DEF RowsShape, StatRoundOK, Stat!Unfinished
<1>9. ASSUME Steady' PROVE Behind' /\ Stat!RowsExact'
  <2>1. Behind /\ Stat!RowsExact
    BY <1>1, <1>2, <1>9 DEF Steady, Stat!Unfinished
  <2>2. \A n \in DOMAIN blocks : n \in DOMAIN blocks' /\ blocks'[n] = blocks[n]
    BY <1>4
  <2>3. Behind'
    <3>1. \A t : FinalBehind(t) => FinalBehind(t)'
      BY <2>2, <1>2 DEF FinalBehind, Stat!Unfinished
    <3> QED
      BY <3>1, <2>1, <2>2, <1>2, <1>7 DEF Behind, Stat!Unfinished
  <2>4. CASE StartTime < Stat!Covered
    <3>1. Stat!Covered \in Nat /\ Stat!Covered <= converted
      <4>1. PICK n \in DOMAIN blocks : blocks[n] >= Stat!Covered
        BY <2>1, <2>4 DEF Behind, FinalBehind
      <4>2. Stat!Covered \in Nat
        BY <1>1 DEF RowsShape
      <4> QED
        BY <4>1, <4>2, <1>4, <1>5
    <3>2. SameBelow(Stat!Covered)
      <4> SUFFICES ASSUME NEW start, NEW end \in Nat, end <= Stat!Covered
                   PROVE  /\ Stat!RowsIn(start, end)' = Stat!RowsIn(start, end)
                          /\ Stat!SendersSince(start, end)' = Stat!SendersSince(start, end)
        BY DEF SameBelow
      <4>1. ~ (converted < end)
        BY <3>1, <1>5
      <4>2. Stat!RowsIn(start, end)' = {n \in 1..(m + 1) : start <= blocks'[n] /\ blocks'[n] < end}
        BY <1>4 DEF Stat!RowsIn, Stat!Within
      <4>3. Stat!RowsIn(start, end) = {n \in 1..m : start <= blocks[n] /\ blocks[n] < end}
        BY <1>4 DEF Stat!RowsIn, Stat!Within
      <4>4. Stat!RowsIn(start, end)' = Stat!RowsIn(start, end)
        <5>1. \A n \in 1..(m + 1) : n \in 1..m \/ n = m + 1
          BY <1>4
        <5>2. \A n \in 1..m : n \in 1..(m + 1)
          BY <1>4
        <5> QED
          BY <4>1, <4>2, <4>3, <5>1, <5>2, <1>4
      <4>5. Stat!SendersSince(start, end)' = Stat!SendersSince(start, end)
        BY <1>2 DEF Stat!SendersSince
      <4> QED
        BY <4>4, <4>5
    <3> QED
      BY <1>1, <1>2, <2>1, <2>2, <2>3, <3>2, RowsStayExact DEF Stat!Unfinished
  <2>5. CASE ~ (StartTime < Stat!Covered)
    <3>1. \A type \in Stat!Types : DOMAIN stats[type] = {}
      BY <2>5, <1>1 DEF RowsShape
    <3>2. Stat!RowsExact'
      BY <3>1, <1>2, <1>7 DEF Stat!RowsExact, Stat!Unfinished
    <3> QED
      BY <3>2, <2>3
  <2> QED
    BY <2>4, <2>5
<1>10. ASSUME pops' = 0 PROVE KnownFirst'
  <2>1. KnownFirst
    BY <1>1, <1>2, <1>10 DEF Stat!Unfinished
  <2>2. \A n \in DOMAIN blocks' : KnownAt(blocks[n])'
    <3> SUFFICES ASSUME NEW n \in DOMAIN blocks' PROVE KnownAt(blocks[n])'
      OBVIOUS
    <3>1. CASE n \in 1..m
      BY <3>1, <2>1, <1>2, <1>4 DEF KnownFirst, KnownAt
    <3>2. CASE n = m + 1
      BY <3>2, <2>1, <1>2, <1>4 DEF KnownFirst, KnownAt
    <3> QED
      BY <3>1, <3>2, <1>4
  <2>3. \A s \in Senders : since'[s] # Stat!NoTime => \E n \in DOMAIN blocks' : since'[s] = blocks'[n]
    <3> SUFFICES ASSUME NEW s \in Senders, since'[s] # Stat!NoTime
                 PROVE  \E n \in DOMAIN blocks' : since'[s] = blocks'[n]
      OBVIOUS
    <3>1. m + 1 \in DOMAIN blocks' /\ \A n \in DOMAIN blocks : n \in DOMAIN blocks'
      BY <1>4
    <3>2. since[s] = converted \/ \E n \in DOMAIN blocks : since[s] = blocks[n]
      BY <2>1, <1>2 DEF KnownFirst
    <3> QED
      BY <3>1, <3>2, <1>2, <1>4
  <2> QED
    BY <2>2, <2>3, <1>2 DEF KnownFirst
<1> QED
  BY <1>6, <1>8, <1>9, <1>10 DEF StatInv

LEMMA PopInv == ASSUME NEW n \in 1..(Len(blocks) + 1) PROVE StatInv /\ Stat!Pop(n) => StatInv'
<1> SUFFICES ASSUME StatInv, Stat!Pop(n) PROVE StatInv'
  OBVIOUS
<1>1. StatBlocksOK /\ RowsShape /\ StatRoundOK /\ (Steady => Behind /\ Stat!RowsExact)
  BY DEF StatInv
<1>2. /\ pops' = pops + 1 /\ finalizedNum < n /\ (statPhase = "gate" => PopInGate)
      /\ converted' = Stat!NoTime /\ blocks' = SubSeq(blocks, 1, n - 1)
      /\ UNCHANGED <<since, finalizedNum, stat, stats, statPhase, rangeStart, blockNum, faults>>
  BY DEF Stat!Pop
<1>3. blocks \in Seq(Times) /\ Len(blocks) \in Nat /\ DOMAIN blocks = 1..Len(blocks)
  BY <1>1, BlockTimes DEF StatBlocksOK
<1>4. /\ blocks' \in Seq(Times) /\ DOMAIN blocks' = 1..(n - 1) /\ n - 1 <= Len(blocks)
      /\ \A k \in 1..(n - 1) : blocks'[k] = blocks[k]
  BY <1>2, <1>3
<1>5. \A k \in DOMAIN blocks' : k \in DOMAIN blocks /\ blocks'[k] = blocks[k]
  BY <1>3, <1>4
<1>6. StatBlocksOK'
  BY <1>1, <1>2, <1>4, <1>5 DEF StatBlocksOK
<1>7. Stat!Covered' = Stat!Covered /\ Stat!Types' = Stat!Types
  BY <1>2 DEF Stat!Covered, Stat!NextRangeStart, Stat!LastByType, Stat!Types
<1>8. RowsShape' /\ StatRoundOK'
  BY <1>1, <1>2, <1>7 DEF RowsShape, StatRoundOK
<1>9. pops' # 0
  BY <1>1, <1>2 DEF StatBlocksOK
<1>10. ASSUME Steady' PROVE Behind' /\ Stat!RowsExact'
  <2>1. ~PopInGate /\ Behind /\ Stat!RowsExact /\ statPhase # "gate"
    BY <1>1, <1>2, <1>9, <1>10 DEF Steady
  <2>2. \A k \in DOMAIN blocks : k <= finalizedNum => k \in DOMAIN blocks'
    <3>1. finalizedNum \in Nat
      BY <1>1 DEF StatBlocksOK
    <3> QED
      BY <3>1, <1>2, <1>3, <1>4
  <2>3. Behind'
    <3>1. \A t : FinalBehind(t) => FinalBehind(t)'
      BY <2>2, <1>2, <1>5 DEF FinalBehind
    <3>2. statPhase # "range" => statPhase = "stat"
      BY <1>1, <2>1 DEF StatRoundOK
    <3> QED
      BY <3>1, <3>2, <2>1, <2>2, <1>2, <1>5, <1>7 DEF Behind
  <2>4. CASE StartTime < Stat!Covered
    <3>1. PICK f \in DOMAIN blocks : f <= finalizedNum /\ blocks[f] >= Stat!Covered
      BY <2>1, <2>4 DEF Behind, FinalBehind
    <3>2. \A k \in DOMAIN blocks : k \notin DOMAIN blocks' => blocks[k] >= Stat!Covered
      <4> SUFFICES ASSUME NEW k \in DOMAIN blocks, k \notin DOMAIN blocks'
                   PROVE  blocks[k] >= Stat!Covered
        OBVIOUS
      <4>1. f <= k
        <5>1. finalizedNum \in Nat
          BY <1>1 DEF StatBlocksOK
        <5> QED
          BY <5>1, <3>1, <1>2, <1>3, <1>4
      <4>2. blocks[f] <= blocks[k]
        BY <4>1, <1>1 DEF StatBlocksOK
      <4>3. blocks[f] \in Nat /\ blocks[k] \in Nat /\ Stat!Covered \in Nat
        BY <1>1, <1>3, BlockTimes DEF RowsShape
      <4> QED
        BY <4>2, <4>3, <3>1
    <3>3. SameBelow(Stat!Covered)
      <4> SUFFICES ASSUME NEW start, NEW end \in Nat, end <= Stat!Covered
                   PROVE  /\ Stat!RowsIn(start, end)' = Stat!RowsIn(start, end)
                          /\ Stat!SendersSince(start, end)' = Stat!SendersSince(start, end)
        BY DEF SameBelow
      <4>1. \A k \in DOMAIN blocks : k \notin DOMAIN blocks' => ~ (blocks[k] < end)
        <5>1. Stat!Covered \in Nat /\ \A k \in DOMAIN blocks : blocks[k] \in Nat
          BY <1>1, <1>3, BlockTimes DEF RowsShape
        <5> QED
          BY <5>1, <3>2
      <4>2. Stat!RowsIn(start, end)' = Stat!RowsIn(start, end)
        BY <4>1, <1>5 DEF Stat!RowsIn, Stat!Within
      <4>3. Stat!SendersSince(start, end)' = Stat!SendersSince(start, end)
        BY <1>2 DEF Stat!SendersSince
      <4> QED
        BY <4>2, <4>3
    <3> QED
      BY <1>1, <1>2, <1>5, <2>1, <2>3, <3>3, RowsStayExact
  <2>5. CASE ~ (StartTime < Stat!Covered)
    <3>1. \A type \in Stat!Types : DOMAIN stats[type] = {}
      BY <2>5, <1>1 DEF RowsShape
    <3>2. Stat!RowsExact'
      BY <3>1, <1>2, <1>7 DEF Stat!RowsExact
    <3> QED
      BY <3>2, <2>3
  <2> QED
    BY <2>4, <2>5
<1> QED
  BY <1>6, <1>8, <1>9, <1>10 DEF StatInv

\* Nothing that the rows are made of changes.
LEMMA SameRows ==
    ASSUME UNCHANGED <<stat, blocks, since, stats>>
    PROVE  Stat!RowsExact' <=> Stat!RowsExact
  BY DEF Stat!RowsExact, Stat!Covered, Stat!NextRangeStart, Stat!LastByType, Stat!Types,
         Stat!Count, Stat!CountActive, Stat!RowsIn, Stat!SendersSince

LEMMA SameShape ==
    ASSUME UNCHANGED <<stat, stats>>
    PROVE  (RowsShape' <=> RowsShape) /\ Stat!Covered' = Stat!Covered
  BY DEF RowsShape, Stat!Covered, Stat!NextRangeStart, Stat!LastByType, Stat!Types

LEMMA SameKnown ==
    ASSUME UNCHANGED <<blocks, since, converted>> PROVE KnownFirst' <=> KnownFirst
  BY DEF KnownFirst, KnownAt

LEMMA FinalizeInv == ASSUME NEW n \in 1..MaxBlocks PROVE StatInv /\ Stat!Finalize(n) => StatInv'
<1> SUFFICES ASSUME StatInv, Stat!Finalize(n) PROVE StatInv'
  OBVIOUS
<1>1. /\ StatBlocksOK /\ RowsShape /\ StatRoundOK /\ (Steady => Behind /\ Stat!RowsExact)
      /\ (pops = 0 => KnownFirst)
  BY DEF StatInv
<1>2. /\ finalizedNum < n /\ finalizedNum' = n
      /\ UNCHANGED <<converted, blocks, since, pops, stat, stats, statPhase, rangeStart, blockNum>>
  BY DEF Stat!Finalize
<1>3. n \in Nat /\ finalizedNum \in Nat
  BY <1>1, StatConstants DEF StatBlocksOK, Stat!ConstantsOK
<1>4. StatBlocksOK'
  BY <1>1, <1>2, <1>3 DEF StatBlocksOK
<1>5. /\ RowsShape' /\ Stat!Covered' = Stat!Covered /\ (Stat!RowsExact' <=> Stat!RowsExact)
      /\ (KnownFirst' <=> KnownFirst)
  BY <1>1, <1>2, SameShape, SameRows, SameKnown
<1>6. StatRoundOK'
  BY <1>1, <1>2, <1>5 DEF StatRoundOK
<1>7. Behind => Behind'
  <2>1. \A k \in Nat : k <= finalizedNum => k <= finalizedNum'
    BY <1>2, <1>3
  <2>2. DOMAIN blocks \subseteq Nat /\ blockNum \in Nat
    BY <1>1, BlockTimes DEF StatBlocksOK, StatRoundOK
  <2>3. \A t : FinalBehind(t) => FinalBehind(t)'
    BY <2>1, <2>2, <1>2 DEF FinalBehind
  <2> QED
    BY <2>1, <2>2, <2>3, <1>2, <1>5 DEF Behind
<1> QED
  BY <1>1, <1>2, <1>4, <1>5, <1>6, <1>7 DEF StatInv, Steady

-----------------------------------------------------------------------------
(* The steps of a round.                                                    *)

LEMMA StatRangeInv == StatInv /\ Stat!NextTimeRange => StatInv'
<1> SUFFICES ASSUME StatInv, Stat!NextTimeRange PROVE StatInv'
  OBVIOUS
<1>1. /\ StatBlocksOK /\ RowsShape /\ StatRoundOK /\ (Steady => Behind /\ Stat!RowsExact)
      /\ (pops = 0 => KnownFirst)
  BY DEF StatInv
<1>2. PICK n \in DOMAIN blocks :
          Stat!FirstBlockAfterTime(Stat!NextRangeStart + Stat!Base, n) /\ blockNum' = n
  BY DEF Stat!NextTimeRange
<1>3. /\ rangeStart' = Stat!NextRangeStart /\ statPhase' = "gate"
      /\ UNCHANGED <<Stat!chainVars, stats>>
  BY DEF Stat!NextTimeRange
<1>4. /\ RowsShape' /\ Stat!Covered' = Stat!Covered /\ (Stat!RowsExact' <=> Stat!RowsExact)
      /\ (KnownFirst' <=> KnownFirst) /\ StatBlocksOK'
  BY <1>1, <1>3, SameShape, SameRows, SameKnown DEF Stat!chainVars, StatBlocksOK
<1>5. n \in Nat
  BY <1>1, BlockTimes DEF StatBlocksOK
<1>6. StatRoundOK'
  BY <1>2, <1>3, <1>4, <1>5 DEF StatRoundOK, Stat!Covered
<1>7. Behind => Behind'
  BY <1>2, <1>3, <1>4 DEF Behind, FinalBehind, Stat!FirstBlockAfterTime, Stat!chainVars
<1> QED
  BY <1>1, <1>3, <1>4, <1>6, <1>7 DEF StatInv, Steady, Stat!chainVars

LEMMA CheckFinalizedInv == StatInv /\ Stat!CheckFinalized => StatInv'
<1> SUFFICES ASSUME StatInv, Stat!CheckFinalized PROVE StatInv'
  OBVIOUS
<1>1. /\ StatBlocksOK /\ RowsShape /\ StatRoundOK /\ (Steady => Behind /\ Stat!RowsExact)
      /\ (pops = 0 => KnownFirst)
  BY DEF StatInv
<1>2. /\ statPhase = "gate" /\ statPhase' = (IF Stat!Final(blockNum) THEN "stat" ELSE "range")
      /\ UNCHANGED <<Stat!chainVars, stats, rangeStart, blockNum>>
  BY DEF Stat!CheckFinalized
<1>3. /\ RowsShape' /\ Stat!Covered' = Stat!Covered /\ (Stat!RowsExact' <=> Stat!RowsExact)
      /\ (KnownFirst' <=> KnownFirst) /\ StatBlocksOK'
  BY <1>1, <1>2, SameShape, SameRows, SameKnown DEF Stat!chainVars, StatBlocksOK
<1>4. StatRoundOK'
  BY <1>1, <1>2, <1>3 DEF StatRoundOK
<1>5. Behind => Behind'
  BY <1>2, <1>3 DEF Behind, FinalBehind, Stat!Final, Stat!chainVars
<1> QED
  BY <1>1, <1>2, <1>3, <1>4, <1>5 DEF StatInv, Steady, Stat!chainVars

LEMMA StatRoundFailsInv == StatInv /\ Stat!RoundFails => StatInv'
<1> SUFFICES ASSUME StatInv, Stat!RoundFails PROVE StatInv'
  OBVIOUS
<1>1. /\ StatBlocksOK /\ RowsShape /\ StatRoundOK /\ (Steady => Behind /\ Stat!RowsExact)
      /\ (pops = 0 => KnownFirst)
  BY DEF StatInv
<1>2. statPhase' = "range" /\ UNCHANGED <<Stat!chainVars, stats, rangeStart, blockNum>>
  BY DEF Stat!RoundFails
<1>3. /\ RowsShape' /\ Stat!Covered' = Stat!Covered /\ (Stat!RowsExact' <=> Stat!RowsExact)
      /\ (KnownFirst' <=> KnownFirst) /\ StatBlocksOK'
  BY <1>1, <1>2, SameShape, SameRows, SameKnown DEF Stat!chainVars, StatBlocksOK
<1>4. StatRoundOK' /\ (Behind => Behind')
  BY <1>1, <1>2, <1>3 DEF StatRoundOK, Behind, FinalBehind, Stat!chainVars
<1> QED
  BY <1>1, <1>2, <1>3, <1>4 DEF StatInv, Steady, Stat!chainVars

\* The start of the row that a round writes.
StartOf(type) == IF type = Stat!Base THEN rangeStart ELSE Stat!CalStatRangeStart(rangeStart + Stat!Base, type)

LEMMA StartsAre ==
    ASSUME StatBlocksOK, RowsShape, rangeStart = Stat!Covered, NEW type \in Stat!Types
    PROVE  /\ StartOf(type) \in Nat /\ StartOf(type) % type = 0
           /\ StartOf(type) <= Stat!Covered /\ Stat!Covered + 1 <= StartOf(type) + type
           /\ type \in Nat \ {0} /\ Stat!Covered \in Nat
<1>1. type \in Nat \ {0} /\ Stat!Covered \in Nat
  BY TypesAre DEF StatBlocksOK, RowsShape
<1>2. CASE type = Stat!Base
  <2>1. Stat!Covered % 1 = 0
    BY <1>1
  <2> QED
    BY <2>1, <1>1, <1>2 DEF StartOf, Stat!Base
<1>3. CASE type # Stat!Base
  <2> DEFINE end == Stat!Covered + 1
             s == Stat!CalStatRangeStart(end, type)
  <2>1. end \in Nat \ {0}
    BY <1>1
  <2>2. StartOf(type) = s
    BY <1>3 DEF StartOf, Stat!Base
  <2>3. s \in Nat /\ s % type = 0 /\ s < end /\ end <= s + type
    BY <1>1, <2>1, RangeStartIs
  <2> HIDE DEF s
  <2> QED
    BY <1>1, <2>2, <2>3
<1> QED
  BY <1>2, <1>3

\* The row that a round writes is exact up to the end of its interval.
LEMMA NewRowExact ==
    ASSUME StatBlocksOK, RowsShape, Stat!RowsExact, rangeStart = Stat!Covered, NEW type \in Stat!Types
    PROVE  ExactTo(type, StartOf(type), Stat!StatByTimeRange(StartOf(type), Stat!Covered + 1, type), Stat!Covered + 1)
<1> DEFINE start == StartOf(type)
           end == Stat!Covered + 1
           row == Stat!StatByTimeRange(start, end, type)
           before == start - type
<1>1. /\ start \in Nat /\ start <= Stat!Covered /\ end <= start + type
      /\ type \in Nat \ {0} /\ Stat!Covered \in Nat
  BY StartsAre
<1>2. stat.new \in {"rows", "senders"}
  BY StatisticsAre DEF StatBlocksOK
<1>3. Stat!CalStatRange(start, -type).start = before
  <2>1. -type < 0 /\ start + (-type) = before
    BY <1>1
  <2> HIDE DEF start, before
  <2> QED
    BY <2>1 DEF Stat!CalStatRange
<1>4. /\ row.count = Stat!Count(stat.new, start, end)
      /\ row.total = (IF before \in DOMAIN stats[type] THEN stats[type][before].total
                      ELSE Stat!Count(stat.before, 0, start)) + Stat!Count(stat.new, start, end)
      /\ stat.active => row.active = Stat!CountActive(start, end)
  BY <1>3 DEF Stat!StatByTimeRange
<1>5. Min({start + type, end}) = end
  BY <1>1, MinOfTwo
<1>6. ASSUME stat.new = stat.before PROVE row.total = Stat!Count(stat.new, 0, end)
  <2>1. before \in DOMAIN stats[type] => stats[type][before].total = Stat!Count(stat.new, 0, start)
    <3> SUFFICES ASSUME before \in DOMAIN stats[type]
                 PROVE  stats[type][before].total = Stat!Count(stat.new, 0, start)
      OBVIOUS
    <3>1. stats[type][before].total = Stat!Count(stat.new, 0, Min({before + type, Stat!Covered}))
      BY <1>6, StatLibrary DEF Stat!RowsExact
    <3>2. Min({before + type, Stat!Covered}) = start
      <4>1. /\ before + type = start /\ start \in Int /\ Stat!Covered \in Int
            /\ start <= Stat!Covered
        BY <1>1
      <4> HIDE DEF start, before
      <4> QED
        BY <4>1, MinOfTwo
    <3> QED
      BY <3>1, <3>2
  <2>2. row.total = Stat!Count(stat.new, 0, start) + Stat!Count(stat.new, start, end)
    BY <2>1, <1>4, <1>6
  <2>3. Stat!Count(stat.new, 0, end) = Stat!Count(stat.new, 0, start) + Stat!Count(stat.new, start, end)
    <3>1. end \in Nat /\ start <= end
      BY <1>1
    <3> HIDE DEF start, end
    <3> QED
      BY <1>1, <1>2, <3>1, CountAdds
  <2> QED
    BY <2>2, <2>3
<1> QED
  BY <1>4, <1>5, <1>6 DEF ExactTo

\* A row of an earlier interval is exact up to the new end as well.
LEMMA OldRowExact ==
    ASSUME StatBlocksOK, RowsShape, Stat!RowsExact, rangeStart = Stat!Covered, NEW type \in Stat!Types,
           NEW t \in DOMAIN stats[type], t # StartOf(type)
    PROVE  ExactTo(type, t, stats[type][t], Stat!Covered + 1)
<1>1. /\ StartOf(type) \in Nat /\ StartOf(type) % type = 0 /\ StartOf(type) <= Stat!Covered
      /\ Stat!Covered + 1 <= StartOf(type) + type /\ type \in Nat \ {0} /\ Stat!Covered \in Nat
  BY StartsAre
<1>2. t \in Nat /\ t % type = 0 /\ t < Stat!Covered
  BY DEF RowsShape
<1>3. t + type <= Stat!Covered
  <2>1. CASE t < StartOf(type)
    <3>1. t + type <= StartOf(type)
      BY <2>1, <1>1, <1>2, IntervalsApart
    <3> QED
      BY <3>1, <1>1, <1>2
  <2>2. CASE StartOf(type) < t
    <3>1. StartOf(type) + type <= t
      BY <2>2, <1>1, <1>2, IntervalsApart
    <3> QED
      BY <3>1, <1>1, <1>2
  <2> QED
    BY <2>1, <2>2, <1>1, <1>2
<1>4. Min({t + type, Stat!Covered}) = t + type /\ Min({t + type, Stat!Covered + 1}) = t + type
  BY <1>1, <1>2, <1>3, MinOfTwo
<1>5. ExactTo(type, t, stats[type][t], Stat!Covered)
  BY RowsExactIs
<1> QED
  BY <1>4, <1>5 DEF ExactTo

LEMMA CalculateStatInv == StatInv /\ Stat!CalculateStat => StatInv'
<1> SUFFICES ASSUME StatInv, Stat!CalculateStat PROVE StatInv'
  OBVIOUS
<1>1. /\ StatBlocksOK /\ RowsShape /\ StatRoundOK /\ (Steady => Behind /\ Stat!RowsExact)
      /\ (pops = 0 => KnownFirst)
  BY DEF StatInv
<1>2. /\ statPhase = "stat" /\ statPhase' = "range"
      /\ UNCHANGED <<Stat!chainVars, rangeStart, blockNum>>
      /\ stats' = [type \in Stat!Types |->
                     [t \in DOMAIN stats[type] \cup {StartOf(type)} |->
                         IF t = StartOf(type)
                         THEN Stat!StatByTimeRange(t, rangeStart + Stat!Base, type)
                         ELSE stats[type][t]]]
  BY DEF Stat!CalculateStat, StartOf
<1>3. /\ rangeStart = Stat!Covered /\ Stat!Covered \in Nat /\ StartTime \in Nat
      /\ StartTime <= Stat!Covered
  BY <1>1, <1>2, StatConstants DEF StatRoundOK, RowsShape, Stat!ConstantsOK
<1>4. Stat!Types' = Stat!Types /\ Stat!Base \in Stat!Types /\ DOMAIN stats' = Stat!Types
  BY <1>2 DEF Stat!Types, Stat!chainVars
<1>5. \A type \in Stat!Types : DOMAIN stats'[type] = DOMAIN stats[type] \cup {StartOf(type)}
  BY <1>2
<1>6. \A type \in Stat!Types : \A t \in DOMAIN stats'[type] :
          stats'[type][t] = IF t = StartOf(type) THEN Stat!StatByTimeRange(t, Stat!Covered + 1, type)
                                                 ELSE stats[type][t]
  BY <1>2, <1>3 DEF Stat!Base
<1>7. DOMAIN stats'[Stat!Base] = StartTime..Stat!Covered
  <2>1. StartOf(Stat!Base) = Stat!Covered
    BY <1>3 DEF StartOf
  <2>2. DOMAIN stats[Stat!Base] = StartTime..(Stat!Covered - 1)
    BY <1>1 DEF RowsShape
  <2>3. \A c \in Nat : StartTime <= c => (StartTime..(c - 1)) \cup {c} = StartTime..c
    BY <1>3
  <2>4. DOMAIN stats'[Stat!Base] = (StartTime..(Stat!Covered - 1)) \cup {Stat!Covered}
    BY <2>1, <2>2, <1>4, <1>5
  <2> QED
    BY <2>3, <2>4, <1>3
<1>8. Stat!Covered' = Stat!Covered + 1
  <2> DEFINE D == StartTime..Stat!Covered
  <2>1. D # {} /\ D \subseteq 0..Stat!Covered /\ Stat!Covered \in D
    BY <1>3
  <2>2. Max(D) \in D /\ \A x \in D : x <= Max(D)
    BY <2>1, <1>3, LargestElement
  <2>3. Max(D) = Stat!Covered
    BY <2>1, <2>2, <1>3
  <2>4. Stat!LastByType(Stat!Base)' = Max(D)
    BY <2>1, <1>7, StatLibrary DEF Stat!LastByType
  <2>5. Max(D) # Stat!NoTime
    BY <2>3, <1>3 DEF Stat!NoTime
  <2> QED
    BY <2>3, <2>4, <2>5 DEF Stat!Covered, Stat!NextRangeStart, Stat!Base
<1>9. RowsShape'
  <2>1. \A type \in Stat!Types : \A t \in DOMAIN stats'[type] :
            t \in Nat /\ t % type = 0 /\ t < Stat!Covered + 1 /\ StartTime < Stat!Covered + 1
    <3> SUFFICES ASSUME NEW type \in Stat!Types, NEW t \in DOMAIN stats'[type]
                 PROVE  t \in Nat /\ t % type = 0 /\ t < Stat!Covered + 1 /\ StartTime < Stat!Covered + 1
      OBVIOUS
    <3>1. CASE t = StartOf(type)
      <4>1. StartOf(type) \in Nat /\ StartOf(type) % type = 0 /\ StartOf(type) <= Stat!Covered
        BY <1>1, <1>3, StartsAre
      <4> QED
        BY <3>1, <4>1, <1>3
    <3>2. CASE t # StartOf(type)
      <4>1. t \in DOMAIN stats[type]
        BY <3>2, <1>5
      <4>2. t \in Nat /\ t % type = 0 /\ t < Stat!Covered
        BY <4>1, <1>1 DEF RowsShape
      <4> QED
        BY <4>2, <1>3
    <3> QED
      BY <3>1, <3>2
  <2>2. /\ (Stat!Covered + 1) - 1 = Stat!Covered /\ Stat!Covered + 1 \in Nat
        /\ StartTime <= Stat!Covered + 1
    BY <1>3
  <2> QED
    BY <2>1, <2>2, <1>4, <1>7, <1>8 DEF RowsShape
<1>10. StatBlocksOK' /\ StatRoundOK' /\ (KnownFirst' <=> KnownFirst)
  BY <1>1, <1>2, SameKnown DEF Stat!chainVars, StatBlocksOK, StatRoundOK
<1>11. ASSUME Steady PROVE Behind' /\ Stat!RowsExact'
  <2>1. Behind /\ Stat!RowsExact
    BY <1>1, <1>11
  <2>2. Behind'
    <3>1. /\ blockNum \in DOMAIN blocks /\ blocks[blockNum] >= Stat!Covered + 1
          /\ blockNum <= finalizedNum
      BY <2>1, <1>2, <1>3 DEF Behind, Stat!Base
    <3>2. FinalBehind(Stat!Covered + 1)
      BY <3>1 DEF FinalBehind
    <3>3. PICK c : c = Stat!Covered + 1
      OBVIOUS
    <3>4. FinalBehind(c)'
      BY <3>2, <3>3, <1>2 DEF FinalBehind, Stat!chainVars
    <3> QED
      BY <3>3, <3>4, <1>2, <1>8 DEF Behind
  <2>3. PICK c : c = Stat!Covered + 1
    OBVIOUS
  <2>4. ASSUME NEW type \in Stat!Types, NEW t \in DOMAIN stats'[type]
        PROVE  ExactTo(type, t, stats'[type][t], c)
    <3>1. CASE t = StartOf(type)
      <4>1. stats'[type][t] = Stat!StatByTimeRange(StartOf(type), Stat!Covered + 1, type)
        BY <3>1, <1>6
      <4>2. ExactTo(type, StartOf(type),
                    Stat!StatByTimeRange(StartOf(type), Stat!Covered + 1, type), Stat!Covered + 1)
        BY <1>1, <1>3, <2>1, NewRowExact
      <4> QED
        BY <3>1, <4>1, <4>2, <2>3
    <3>2. CASE t # StartOf(type)
      <4>1. t \in DOMAIN stats[type] /\ stats'[type][t] = stats[type][t]
        BY <3>2, <1>5, <1>6
      <4>2. ExactTo(type, t, stats[type][t], Stat!Covered + 1)
        BY <3>2, <4>1, <1>1, <1>3, <2>1, OldRowExact
      <4> QED
        BY <4>1, <4>2, <2>3
    <3> QED
      BY <3>1, <3>2
  <2>5. \A type, t, row : ExactTo(type, t, row, c)' <=> ExactTo(type, t, row, c)
    BY <1>2
       DEF Stat!chainVars, ExactTo, Stat!Count, Stat!CountActive, Stat!RowsIn, Stat!SendersSince
  <2>6. ASSUME NEW type \in Stat!Types, NEW t \in DOMAIN stats'[type]
        PROVE  ExactTo(type, t, stats[type][t], Stat!Covered)'
    <3>1. PICK row : row = stats'[type][t]
      OBVIOUS
    <3>2. ExactTo(type, t, row, c)'
      BY <3>1, <2>4, <2>5
    <3> QED
      BY <3>1, <3>2, <2>3, <1>8 DEF ExactTo
  <2>7. Stat!RowsExact' <=> \A type \in Stat!Types' : \A t \in DOMAIN stats'[type] :
                           ExactTo(type, t, stats[type][t], Stat!Covered)'
    BY StatLibrary DEF Stat!RowsExact, ExactTo
  <2>8. Stat!RowsExact'
    BY <2>6, <2>7, <1>4
  <2> QED
    BY <2>2, <2>8
<1> QED
  BY <1>1, <1>2, <1>9, <1>10, <1>11 DEF StatInv, Steady, Stat!chainVars

LEMMA StepStatInv == StatInv /\ Stat!Next => StatInv'
<1> SUFFICES ASSUME StatInv, Stat!Next PROVE StatInv'
  OBVIOUS
<1>1. CASE Stat!Convert
  BY <1>1, ConvertInv
<1>2. CASE Stat!Push
  BY <1>2, PushInv
<1>3. ASSUME NEW n \in 1..(Len(blocks) + 1), Stat!Pop(n) PROVE StatInv'
  BY <1>3, PopInv
<1>4. ASSUME NEW n \in 1..MaxBlocks, Stat!Finalize(n) PROVE StatInv'
  BY <1>4, FinalizeInv
<1>5. CASE Stat!Worker
  BY <1>5, StatRangeInv, CheckFinalizedInv, CalculateStatInv DEF Stat!Worker
<1>6. CASE Stat!RoundFails
  BY <1>6, StatRoundFailsInv
<1> QED
  BY <1>1, <1>2, <1>3, <1>4, <1>5, <1>6 DEF Stat!Next

LEMMA OthersKeepStat == StatInv /\ UNCHANGED statVars => StatInv'
<1> SUFFICES ASSUME StatInv, UNCHANGED statVars PROVE StatInv'
  OBVIOUS
<1>1. UNCHANGED <<stat, converted, blocks, since, finalizedNum, pops, stats, statPhase,
                  rangeStart, blockNum>>
  BY DEF statVars
<1>2. /\ (RowsShape' <=> RowsShape) /\ Stat!Covered' = Stat!Covered
      /\ (Stat!RowsExact' <=> Stat!RowsExact) /\ (KnownFirst' <=> KnownFirst)
  BY <1>1, SameShape, SameRows, SameKnown
<1>3. (StatBlocksOK' <=> StatBlocksOK) /\ (StatRoundOK' <=> StatRoundOK)
  BY <1>1, <1>2 DEF StatBlocksOK, StatRoundOK
<1>4. (Behind' <=> Behind) /\ (Steady' <=> Steady)
  BY <1>1, <1>2 DEF Behind, FinalBehind, Steady
<1> QED
  BY <1>1, <1>2, <1>3, <1>4 DEF StatInv

\* As long as the senders of blocks are known since then, nobody is active who is not.
LEMMA ActiveFollow == StatInv => Stat!ActiveAreKnown
<1> SUFFICES ASSUME StatInv, stat.active, pops = 0, NEW type \in Stat!Types, NEW t \in DOMAIN stats[type]
             PROVE  stats[type][t].active <= stats[type][t].total
  BY DEF Stat!ActiveAreKnown, Stat!MoreKnownThanActive
<1>1. StatBlocksOK /\ RowsShape /\ Stat!RowsExact /\ KnownFirst
  BY DEF StatInv, Steady
<1> DEFINE end == Min({t + type, Stat!Covered})
           A == {SenderAt[blocks[n]] : n \in Stat!RowsIn(t, end)}
           B == Stat!SendersSince(0, end)
<1>2. stat.new = "senders" /\ stat.before = "senders"
  BY <1>1, StatisticsAre DEF StatBlocksOK
<1>3. stats[type][t].total = Cardinality(B) /\ stats[type][t].active = Cardinality(A)
  BY <1>1, <1>2, StatLibrary DEF Stat!RowsExact, Stat!Count, Stat!CountActive
<1>4. end \in Nat /\ t \in Nat
  <2>1. t \in Nat /\ type \in Nat /\ Stat!Covered \in Nat
    BY <1>1, TypesAre DEF RowsShape, StatBlocksOK
  <2>2. t + type \in Int /\ Stat!Covered \in Int
    BY <2>1
  <2>3. end = IF t + type <= Stat!Covered THEN t + type ELSE Stat!Covered
    BY <2>2, MinOfTwo
  <2> QED
    BY <2>1, <2>3
<1> HIDE DEF end
<1>5. A \subseteq B
  <2> SUFFICES ASSUME NEW n \in Stat!RowsIn(t, end) PROVE SenderAt[blocks[n]] \in B
    OBVIOUS
  <2>1. n \in DOMAIN blocks /\ blocks[n] < end
    BY DEF Stat!RowsIn, Stat!Within
  <2>2. blocks[n] \in Times /\ blocks[n] \in Nat
    BY <2>1, <1>1, BlockTimes DEF StatBlocksOK
  <2>3. SenderAt[blocks[n]] \in Senders
    BY <2>2, StatConstants DEF Stat!ConstantsOK
  <2>4. since[SenderAt[blocks[n]]] # Stat!NoTime /\ since[SenderAt[blocks[n]]] <= blocks[n]
    BY <2>1, <1>1 DEF KnownFirst, KnownAt
  <2>5. since[SenderAt[blocks[n]]] \in Nat
    <3>1. since[SenderAt[blocks[n]]] \in Times \cup {Stat!NoTime} /\ Times \subseteq Nat
      BY <2>3, <1>1, StatConstants DEF StatBlocksOK, Stat!ConstantsOK
    <3> QED
      BY <3>1, <2>4
  <2> QED
    BY <2>1, <2>2, <2>3, <2>4, <2>5, <1>4 DEF Stat!SendersSince, Stat!Within
<1>6. IsFiniteSet(A) /\ IsFiniteSet(B)
  BY <1>1, BlocksFinite DEF StatBlocksOK
<1> HIDE DEF A, B
<1>7. Cardinality(A) <= Cardinality(B)
  BY <1>5, <1>6, FS_Subset
<1> QED
  BY <1>3, <1>7

\* A step of the process is one of the statistic, or leaves its data alone.
LEMMA StepOfStat == [Next]_vars => Stat!Next \/ UNCHANGED statVars
  <1> SUFFICES ASSUME [Next]_vars PROVE Stat!Next \/ UNCHANGED statVars  OBVIOUS
  <1>1. CASE ExpiredRun(Expired!Next)  BY <1>1 DEF ExpiredRun
  <1>2. CASE StatRun(Stat!Next)  BY <1>2 DEF StatRun
  <1>3. CASE SubmitsRun(Submits!Next)  BY <1>3 DEF SubmitsRun
  <1>4. CASE RewardsRun(Rewards!Next)  BY <1>4 DEF RewardsRun
  <1>5. CASE RangeRun(Period!Next)  BY <1>5 DEF RangeRun
  <1>6. CASE UNCHANGED vars  BY <1>6 DEF vars
  <1> QED  BY <1>1, <1>2, <1>3, <1>4, <1>5, <1>6 DEF Next

\* What a statistic has stored, the round under way, the final blocks and those who are
\* known fit together, for each of the seven statistics, whatever fails and whatever runs
\* beside it.
THEOREM StatInvariance == Spec => []StatInv
  <1>1. Init => StatInv  BY InitStatInv DEF Init
  <1>2. StatInv /\ [Next]_vars => StatInv'  BY StepOfStat, StepStatInv, OthersKeepStat
  <1> QED  BY <1>1, <1>2, PTL DEF Spec

\* Every row of an interval statistic is exact, wherever the hours and days begin and end,
\* when no stored block is popped between the read of it and the comparison of its number.
THEOREM RowsAreExact == ASSUME ~PopInGate PROVE Spec => []RowsExact
  <1>1. StatInv => RowsExact  BY DEF StatInv, Steady, RowsExact
  <1> QED  BY <1>1, StatInvariance, PTL

\* Until the first block is reorganised away, nobody is counted as active who is not
\* known, also when stored blocks are popped before their numbers are compared.
THEOREM KnowsTheActive == Spec => []ActiveAreKnown
  <1>1. StatInv => ActiveAreKnown  BY ActiveFollow DEF ActiveAreKnown
  <1> QED  BY <1>1, StatInvariance, PTL

-----------------------------------------------------------------------------
(* The rankings per period.                                                 *)

LEMMA PeriodConstants == Period!ConstantsOK
  BY StatWorkersAssumption DEF StatWorkersAssumption

LEMMA PeriodLibrary ==
    /\ \A S : Period!Cardinality(S) = Cardinality(S) /\ Period!IsFiniteSet(S) = IsFiniteSet(S)
    /\ \A S : Period!Min(S) = Min(S) /\ Period!Max(S) = Max(S)
  BY DEF Period!Cardinality, Cardinality, Period!IsFiniteSet, IsFiniteSet, Period!Min, Min,
         Period!Max, Max

\* Where the ranges start that are still counted: a first range that does not start
\* with an hour goes to a bucket that is deleted with it.
Origin == IF first % RangeHour = 0 THEN first ELSE Period!Truncate(first, Second) + Interval

\* The range that counts an item, and its bucket.
RangeOf(i, o) == o + Period!Truncate(TimeOf[i] - o, Interval)
BucketOf(i, o) == Period!Truncate(RangeOf(i, o), RangeHour)

\* The items of a key that the ranges from o to c count in a bucket.
Part(h, k, o, c) == {i \in Period!ItemsIn(o, c, k) : BucketOf(i, o) = h}

\* Every bucket has the counts of its items, unless it is older than the longest period.
Filled(o, c) ==
    /\ IsFiniteSet(DOMAIN buckets)
    /\ \A h \in DOMAIN buckets : h \in Nat /\ h % RangeHour = 0
    /\ \A h \in DOMAIN buckets : \A k \in Senders : buckets[h][k] = Cardinality(Part(h, k, o, c))
    /\ \A h \in Nat : h \notin DOMAIN buckets =>
          h < now - Period!MaxSpan \/ \A k \in Senders : Part(h, k, o, c) = {}

\* The clock, and what is not later.
ClockOK ==
    /\ now \in 0..MaxClock
    /\ statTime \in Nat \cup {Period!NoTime} /\ first \in Nat \cup {Period!NoTime}
    /\ first = Period!NoTime <=> statTime = Period!NoTime
    /\ statTime # Period!NoTime => statTime + Interval <= now
    /\ rangePhase \in {"range", "stat"}
    /\ rangePhase = "stat" => nextStart \in Nat /\ nextStart + Interval <= now

\* A round works on the range behind the last one; the first starts with an hour or
\* with the longest period.
PeriodRoundOK ==
    rangePhase = "stat" =>
        IF statTime # Period!NoTime THEN nextStart = statTime + Interval
        ELSE nextStart % RangeHour = 0 \/ nextStart <= now - Period!MaxSpan

\* What the buckets have.
BucketsOK ==
    IF first = Period!NoTime THEN DOMAIN buckets = {}
    ELSE /\ \E q \in Nat : Period!Covered = Origin + q * Interval
         /\ first % RangeHour = 0 => first <= statTime
         /\ Filled(Origin, Period!Covered)

PeriodInv == ClockOK /\ PeriodRoundOK /\ BucketsOK

-----------------------------------------------------------------------------
(* Ranges and hours.                                                        *)

LEMMA PeriodConstantsAre ==
    /\ Second \in Nat \ {0} /\ Interval \in Nat \ {0} /\ RangeHour \in Nat \ {0}
    /\ Interval % Second = 0 /\ RangeHour % Interval = 0 /\ RangeHour % Second = 0
    /\ RangeStartTime \in Nat /\ RangeStartTime % RangeHour = 0 /\ RangeStartTime <= MaxClock /\ MaxClock \in Nat
    /\ Period!MaxSpan \in Nat /\ \A span \in Spans : span \in Nat /\ span <= Period!MaxSpan
    /\ \A i \in Items : TimeOf[i] \in Nat
<1> HIDE DEF Period!MaxSpan
<1>1. /\ Second \in Nat \ {0} /\ Interval \in Nat \ {0} /\ RangeHour \in Nat \ {0}
      /\ Interval % Second = 0 /\ RangeHour % Interval = 0
      /\ RangeStartTime \in Nat /\ RangeStartTime % RangeHour = 0 /\ RangeStartTime <= MaxClock /\ MaxClock \in Nat
      /\ Period!MaxSpan \in Nat /\ \A span \in Spans : span \in Nat /\ span <= Period!MaxSpan
      /\ \A i \in Items : TimeOf[i] \in Nat
  BY PeriodConstants DEF Period!ConstantsOK
<1>2. RangeHour % Second = 0
  BY <1>1, MultipleOfMultiple
<1> QED
  BY <1>1, <1>2

LEMMA TruncateIs == ASSUME NEW x, NEW d PROVE Period!Truncate(x, d) = Below(x, d)
  BY DEF Period!Truncate, Below

LEMMA BucketOfRange ==
    ASSUME NEW o \in Nat, NEW q \in Nat, NEW i \in Items,
           o + q * Interval <= TimeOf[i], TimeOf[i] < o + q * Interval + Interval
    PROVE  RangeOf(i, o) = o + q * Interval
<1> DEFINE m == q * Interval
<1>1. m \in Nat /\ m % Interval = 0 /\ TimeOf[i] \in Nat /\ Interval \in Nat \ {0}
  BY Multiple, PeriodConstantsAre
<1>2. o + m <= TimeOf[i] /\ TimeOf[i] < o + m + Interval
  OBVIOUS
<1>3. o + m = o + q * Interval
  OBVIOUS
<1> HIDE DEF m
<1>4. TimeOf[i] - o \in Nat /\ m <= TimeOf[i] - o /\ TimeOf[i] - o < m + Interval
  BY <1>1, <1>2
<1>5. Below(TimeOf[i] - o, Interval) = m
  BY <1>1, <1>4, BelowOnly
<1> QED
  BY <1>3, <1>5, TruncateIs DEF RangeOf

LEMMA ItemsFinite ==
    ASSUME NEW S \in SUBSET Items
    PROVE  IsFiniteSet(S) /\ Cardinality(S) \in Nat
  BY PeriodConstants, PeriodLibrary, FS_Subset, FS_CardinalityType DEF Period!ConstantsOK

\* The next range adds its items to its bucket, and to no other.
LEMMA PartGrows ==
    ASSUME NEW o \in Nat, NEW q \in Nat, NEW s, s = o + q * Interval, NEW h, NEW k \in Senders
    PROVE  /\ h = Period!Truncate(s, RangeHour) =>
                 Cardinality(Part(h, k, o, s + Interval)) =
                     Cardinality(Part(h, k, o, s)) + Cardinality(Period!ItemsIn(s, s + Interval, k))
           /\ h # Period!Truncate(s, RangeHour) => Part(h, k, o, s + Interval) = Part(h, k, o, s)
<1> DEFINE New == Period!ItemsIn(s, s + Interval, k)
<1>1. s \in Nat /\ o <= s /\ Interval \in Nat \ {0} /\ \A i \in Items : TimeOf[i] \in Nat
  <2>1. (q * Interval) \in Nat /\ Interval \in Nat \ {0}
    BY PeriodConstantsAre, Multiple
  <2> QED
    BY <2>1, PeriodConstantsAre
<1>2. \A i \in New : BucketOf(i, o) = Period!Truncate(s, RangeHour)
  <2> SUFFICES ASSUME NEW i \in New PROVE RangeOf(i, o) = s
    BY DEF BucketOf
  <2>1. i \in Items /\ s <= TimeOf[i] /\ TimeOf[i] < s + Interval
    BY DEF Period!ItemsIn
  <2>2. o + q * Interval <= TimeOf[i] /\ TimeOf[i] < o + q * Interval + Interval
    BY <2>1
  <2> QED
    BY <2>1, <2>2, BucketOfRange
<1>3. /\ Period!ItemsIn(o, s + Interval, k) = Period!ItemsIn(o, s, k) \cup New
      /\ Period!ItemsIn(o, s, k) \cap New = {}
  BY <1>1 DEF Period!ItemsIn
<1>4. New \subseteq Items /\ Part(h, k, o, s) \subseteq Items
  BY DEF Period!ItemsIn, Part
<1> HIDE DEF New
<1>5. CASE h = Period!Truncate(s, RangeHour)
  <2>1. /\ Part(h, k, o, s + Interval) = Part(h, k, o, s) \cup New
        /\ Part(h, k, o, s) \cap New = {}
    BY <1>2, <1>3, <1>5 DEF Part
  <2>2. IsFiniteSet(New) /\ IsFiniteSet(Part(h, k, o, s))
    BY <1>4, ItemsFinite
  <2> QED
    BY <1>5, <2>1, <2>2, SplitSet DEF New
<1>6. CASE h # Period!Truncate(s, RangeHour)
  BY <1>2, <1>3, <1>6 DEF Part
<1> QED
  BY <1>5, <1>6

-----------------------------------------------------------------------------
(* The steps.                                                               *)

\* The table after the range from s on: what a bucket has, and which are missing.
LEMMA AddedAre ==
    ASSUME NEW hour, NEW added, added \in [Senders -> Nat], NEW h,
           \A t \in DOMAIN buckets : \A k \in Senders : buckets[t][k] \in Nat
    PROVE  LET table == Period!Added(hour, added)
           IN /\ DOMAIN table \subseteq DOMAIN buckets \cup {hour}
              /\ DOMAIN buckets \subseteq DOMAIN table
              /\ h \in DOMAIN buckets =>
                    \A k \in Senders : table[h][k] =
                        buckets[h][k] + IF h = hour THEN added[k] ELSE 0
              /\ h \notin DOMAIN buckets /\ h \in DOMAIN table =>
                    h = hour /\ \A k \in Senders : table[h][k] = added[k]
              /\ h \notin DOMAIN table /\ h = hour => \A k \in Senders : added[k] = 0
<1>1. CASE added = Period!NoItems
  <2>1. \A k \in Senders : added[k] = 0
    BY <1>1 DEF Period!NoItems
  <2>2. Period!Added(hour, added) = buckets
    BY <1>1 DEF Period!Added
  <2> QED
    BY <2>1, <2>2
<1>2. CASE added # Period!NoItems
  <2>1. Period!Added(hour, added) = [t \in DOMAIN buckets \cup {hour} |->
            [k \in Senders |-> (IF t \in DOMAIN buckets THEN buckets[t][k] ELSE 0)
                            + (IF t = hour THEN added[k] ELSE 0)]]
    BY <1>2 DEF Period!Added, Period!BatchDeltaUpsert
  <2> QED
    BY <2>1
<1> QED
  BY <1>1, <1>2

\* What the next range makes of the buckets.
LEMMA FilledStep ==
    ASSUME NEW o \in Nat, NEW q \in Nat, NEW s, s = o + q * Interval, Filled(o, s),
           buckets' = Period!Kept(Period!Added(Period!Truncate(s, RangeHour), Period!Grouped(s, s + Interval))), now' = now,
           now \in Nat
    PROVE  Filled(o, s + Interval)'
<1> DEFINE hour == Period!Truncate(s, RangeHour)
           added == Period!Grouped(s, s + Interval)
           table == Period!Added(hour, added)
           C(h, k) == Cardinality(Part(h, k, o, s))
           E(h, k) == Cardinality(Part(h, k, o, s + Interval))
<1>0. Period!MaxSpan \in Nat /\ RangeHour \in Nat \ {0} /\ s \in Nat
  <2>1. (q * Interval) \in Nat
    BY PeriodConstantsAre, Multiple
  <2> QED
    BY <2>1, PeriodConstantsAre
<1>1. hour \in Nat /\ hour % RangeHour = 0
  BY <1>0, BelowIs, TruncateIs
<1>2. added \in [Senders -> Nat] /\ \A k \in Senders : added[k] = Cardinality(Period!ItemsIn(s, s + Interval, k))
  <2>1. \A k \in Senders : Cardinality(Period!ItemsIn(s, s + Interval, k)) \in Nat
    BY ItemsFinite DEF Period!ItemsIn
  <2> QED
    BY <2>1, PeriodLibrary DEF Period!Grouped
<1>3. \A h : \A k \in Senders : Part(h, k, o, s) \subseteq Items /\ Part(h, k, o, s + Interval) \subseteq Items
  BY DEF Part, Period!ItemsIn
<1>4. \A h : \A k \in Senders : C(h, k) \in Nat /\ E(h, k) \in Nat
  BY <1>3, ItemsFinite
<1>5. \A h \in DOMAIN buckets : \A k \in Senders : buckets[h][k] = C(h, k) /\ buckets[h][k] \in Nat
  BY <1>4 DEF Filled
<1>6. \A h : \A k \in Senders : E(h, k) = C(h, k) + IF h = hour THEN added[k] ELSE 0
  <2> SUFFICES ASSUME NEW h, NEW k \in Senders
               PROVE  E(h, k) = C(h, k) + IF h = hour THEN added[k] ELSE 0
    OBVIOUS
  <2>1. CASE h = hour
    BY <2>1, <1>2, PartGrows
  <2>2. CASE h # hour
    <3>1. E(h, k) = C(h, k)
      <4>1. Part(h, k, o, s + Interval) = Part(h, k, o, s)
        BY <2>2, PartGrows
      <4> QED
        BY <4>1
    <3>2. C(h, k) \in Nat
      BY <1>4
    <3> QED
      BY <2>2, <3>1, <3>2
  <2> QED
    BY <2>1, <2>2
<1>7. buckets' = [h \in {t \in DOMAIN table : t >= now - Period!MaxSpan} |-> table[h]]
  BY DEF Period!Kept
<1>8. DOMAIN table \subseteq DOMAIN buckets \cup {hour} /\ DOMAIN buckets \subseteq DOMAIN table
  BY <1>2, <1>5, AddedAre
<1>9. IsFiniteSet(DOMAIN buckets')
  <2>1. IsFiniteSet(DOMAIN buckets) /\ IsFiniteSet({hour})
    BY FS_Singleton DEF Filled
  <2>2. IsFiniteSet(DOMAIN buckets \cup {hour})
    BY <2>1, FS_Union
  <2> QED
    BY <2>2, <1>7, <1>8, FS_Subset
<1>10. \A h \in DOMAIN buckets' : h \in Nat /\ h % RangeHour = 0
  BY <1>1, <1>7, <1>8 DEF Filled
<1> HIDE DEF table, hour, added, C, E
<1>11. ASSUME NEW h \in DOMAIN table, NEW k \in Senders, h \in Nat, h >= now - Period!MaxSpan
       PROVE  table[h][k] = E(h, k)
  <2>1. E(h, k) = C(h, k) + IF h = hour THEN added[k] ELSE 0
    BY <1>6
  <2>2. CASE h \in DOMAIN buckets
    <3>1. table[h][k] = buckets[h][k] + IF h = hour THEN added[k] ELSE 0
      BY <2>2, <1>2, <1>5, AddedAre DEF table
    <3>2. buckets[h][k] = C(h, k)
      BY <2>2, <1>5
    <3> QED
      BY <3>1, <3>2, <2>1
  <2>3. CASE h \notin DOMAIN buckets
    <3>1. h = hour /\ table[h][k] = added[k] /\ added[k] \in Nat
      BY <2>3, <1>2, <1>5, AddedAre DEF table
    <3>2. Part(h, k, o, s) = {}
      BY <2>3, <1>0, <1>11 DEF Filled
    <3>3. C(h, k) = 0
      BY <3>2, FS_EmptySet DEF C
    <3> QED
      BY <2>1, <3>1, <3>3
  <2> QED
    BY <2>2, <2>3
<1>12. ASSUME NEW h \in Nat, h \notin DOMAIN table, ~ (h < now - Period!MaxSpan), NEW k \in Senders
       PROVE  Part(h, k, o, s + Interval) = {}
  <2>1. h \notin DOMAIN buckets
    BY <1>8, <1>12
  <2>2. Part(h, k, o, s) = {}
    BY <2>1, <1>12 DEF Filled
  <2>3. C(h, k) = 0
    BY <2>2, FS_EmptySet DEF C
  <2>4. h = hour => added[k] = 0
    BY <1>2, <1>5, <1>12, AddedAre DEF table
  <2>5. E(h, k) = 0
    BY <2>3, <2>4, <1>6
  <2>6. IsFiniteSet(Part(h, k, o, s + Interval))
    BY <1>3, ItemsFinite
  <2> QED
    BY <2>5, <2>6, FS_EmptySet DEF E
<1>13. \A h \in DOMAIN buckets' : \A k \in Senders : buckets'[h][k] = Cardinality(Part(h, k, o, s + Interval))
  <2> SUFFICES ASSUME NEW h \in DOMAIN buckets', NEW k \in Senders
               PROVE  buckets'[h][k] = Cardinality(Part(h, k, o, s + Interval))
    OBVIOUS
  <2>1. h \in DOMAIN table /\ h \in Nat /\ h >= now - Period!MaxSpan /\ buckets'[h] = table[h]
    BY <1>7, <1>10
  <2> QED
    BY <2>1, <1>11 DEF E
<1>14. \A h \in Nat : h \notin DOMAIN buckets' =>
           h < now - Period!MaxSpan \/ \A k \in Senders : Part(h, k, o, s + Interval) = {}
  <2> SUFFICES ASSUME NEW h \in Nat, h \notin DOMAIN buckets', ~ (h < now - Period!MaxSpan)
               PROVE  \A k \in Senders : Part(h, k, o, s + Interval) = {}
    OBVIOUS
  <2>1. h >= now - Period!MaxSpan
    BY <1>0
  <2>2. h \notin DOMAIN table
    BY <2>1, <1>7
  <2> QED
    BY <2>2, <1>12
<1> QED
  BY <1>9, <1>10, <1>13, <1>14 DEF Filled

LEMMA InitPeriodInv == Period!Init => PeriodInv
<1> SUFFICES ASSUME Period!Init PROVE PeriodInv
  OBVIOUS
<1>1. RangeStartTime \in Nat /\ RangeStartTime <= MaxClock /\ MaxClock \in Nat
  BY PeriodConstantsAre
<1>2. /\ now = RangeStartTime /\ statTime = Period!NoTime /\ first = Period!NoTime /\ rangePhase = "range"
      /\ DOMAIN buckets = {}
  BY DEF Period!Init
<1> QED
  BY <1>1, <1>2 DEF PeriodInv, ClockOK, PeriodRoundOK, BucketsOK, Period!NoTime

LEMMA LaterIsMore ==
    ASSUME NEW a \in Nat, NEW b \in Nat, a <= b, NEW m \in Nat
    PROVE  \A h \in Nat : h < a - m => h < b - m
  OBVIOUS

\* As time goes by, more buckets are old.
LEMMA FilledLater ==
    ASSUME NEW o, NEW c, Filled(o, c), now \in Nat, now' \in Nat, now <= now', buckets' = buckets
    PROVE  Filled(o, c)'
<1>1. \A h \in Nat : h < now - Period!MaxSpan => h < now' - Period!MaxSpan
  <2>1. Period!MaxSpan \in Nat
    BY PeriodConstantsAre
  <2>2. PICK later \in Nat : later = now' /\ now <= later
    OBVIOUS
  <2> HIDE DEF Period!MaxSpan
  <2>3. \A h \in Nat : h < now - Period!MaxSpan => h < later - Period!MaxSpan
    BY <2>1, <2>2, LaterIsMore
  <2> QED
    BY <2>2, <2>3
<1> QED
  BY <1>1 DEF Filled

LEMMA BucketsStay ==
    ASSUME BucketsOK, now \in Nat, now' \in Nat, now <= now', UNCHANGED <<buckets, first, statTime>>
    PROVE  BucketsOK'
<1>1. Origin' = Origin /\ Period!Covered' = Period!Covered
  BY DEF Origin, Period!Covered
<1>2. CASE first = Period!NoTime
  BY <1>2 DEF BucketsOK
<1>3. CASE first # Period!NoTime
  <2>1. PICK o, c : o = Origin /\ c = Period!Covered
    OBVIOUS
  <2>2. Filled(o, c)
    BY <1>3, <2>1 DEF BucketsOK
  <2>3. Filled(o, c)'
    BY <2>2, FilledLater
  <2> QED
    BY <1>1, <1>3, <2>1, <2>3 DEF BucketsOK
<1> QED
  BY <1>2, <1>3

LEMMA ClockTickInv == PeriodInv /\ Period!Tick => PeriodInv'
<1> SUFFICES ASSUME PeriodInv, Period!Tick PROVE PeriodInv'
  OBVIOUS
<1>1. ClockOK /\ PeriodRoundOK /\ BucketsOK
  BY DEF PeriodInv
<1>2. /\ now < MaxClock /\ now' = now + 1
      /\ UNCHANGED <<statTime, buckets, nextStart, rangePhase, first>>
  BY DEF Period!Tick
<1>3. now \in Nat /\ now' \in 0..MaxClock /\ now' \in Nat /\ now <= now'
  BY <1>1, <1>2, PeriodConstantsAre DEF ClockOK
<1>4. ClockOK'
  <2>1. /\ statTime # Period!NoTime => statTime + Interval <= now'
        /\ rangePhase = "stat" => nextStart + Interval <= now'
    BY <1>1, <1>3, PeriodConstantsAre DEF ClockOK
  <2> QED
    BY <1>1, <1>2, <1>3, <2>1 DEF ClockOK
<1>5. PeriodRoundOK'
  <2>1. rangePhase = "stat" /\ nextStart <= now - Period!MaxSpan => nextStart <= now' - Period!MaxSpan
    BY <1>1, <1>3, PeriodConstantsAre DEF ClockOK
  <2> QED
    BY <1>1, <1>2, <2>1 DEF PeriodRoundOK
<1>6. BucketsOK'
  BY <1>1, <1>2, <1>3, BucketsStay
<1> QED
  BY <1>4, <1>5, <1>6 DEF PeriodInv

LEMMA PeriodRangeInv == PeriodInv /\ Period!NextTimeRange => PeriodInv'
<1> SUFFICES ASSUME PeriodInv, Period!NextTimeRange PROVE PeriodInv'
  OBVIOUS
<1>1. ClockOK /\ PeriodRoundOK /\ BucketsOK
  BY DEF PeriodInv
<1>2. /\ Period!NextRangeStart + Interval <= now /\ nextStart' = Period!NextRangeStart /\ rangePhase' = "stat"
      /\ UNCHANGED <<now, statTime, buckets, first>>
  BY DEF Period!NextTimeRange, Period!Reached, Period!clockVars
<1>3. /\ now \in Nat /\ Period!MaxSpan \in Nat /\ Interval \in Nat /\ RangeStartTime \in Nat
      /\ RangeStartTime % RangeHour = 0 /\ statTime \in Nat \cup {Period!NoTime}
  BY <1>1, PeriodConstantsAre DEF ClockOK
<1>4. /\ Period!NextRangeStart \in Nat
      /\ IF statTime # Period!NoTime THEN Period!NextRangeStart = statTime + Interval
         ELSE Period!NextRangeStart % RangeHour = 0 \/ Period!NextRangeStart <= now - Period!MaxSpan
  <2>1. CASE statTime # Period!NoTime
    BY <2>1, <1>3 DEF Period!NextRangeStart
  <2>2. CASE statTime = Period!NoTime /\ RangeStartTime < now - Period!MaxSpan
    <3>1. Period!NextRangeStart = now - Period!MaxSpan
      BY <2>2 DEF Period!NextRangeStart
    <3> HIDE DEF Period!MaxSpan
    <3> QED
      BY <3>1, <2>2, <1>3
  <2>3. CASE statTime = Period!NoTime /\ ~ (RangeStartTime < now - Period!MaxSpan)
    BY <2>3, <1>3 DEF Period!NextRangeStart
  <2> QED
    BY <2>1, <2>2, <2>3
<1>5. ClockOK' /\ PeriodRoundOK'
  BY <1>1, <1>2, <1>4 DEF ClockOK, PeriodRoundOK
<1>6. BucketsOK'
  BY <1>1, <1>2, <1>3, BucketsStay
<1> QED
  BY <1>5, <1>6 DEF PeriodInv

\* The ranges start at whole seconds.
LEMMA OriginIs ==
    ASSUME first \in Nat
    PROVE  Origin \in Nat /\ Origin % Second = 0
<1>0. /\ Second \in Nat \ {0} /\ Interval \in Nat \ {0} /\ RangeHour \in Nat \ {0}
      /\ Interval % Second = 0 /\ RangeHour % Second = 0
  BY PeriodConstantsAre
<1>1. CASE first % RangeHour = 0
  <2>1. first % Second = 0
    BY <1>0, <1>1, MultipleOfMultiple
  <2> QED
    BY <1>1, <2>1 DEF Origin
<1>2. CASE first % RangeHour # 0
  <2> DEFINE t == Below(first, Second)
  <2>1. t \in Nat /\ t % Second = 0
    BY <1>0, BelowIs
  <2>2. Origin = t + Interval
    BY <1>2, TruncateIs DEF Origin
  <2> HIDE DEF t
  <2>3. (t + Interval) % Second = 0
    BY <1>0, <2>1, MultiplesAdd
  <2> QED
    BY <1>0, <2>1, <2>2, <2>3
<1> QED
  BY <1>1, <1>2

LEMMA CoveredIs ==
    ASSUME NEW o \in Nat, o % Second = 0, NEW q \in Nat
    PROVE  (o + q * Interval) % Second = 0 /\ o + q * Interval \in Nat
<1>0. Second \in Nat \ {0} /\ Interval \in Nat \ {0} /\ Interval % Second = 0
  BY PeriodConstantsAre
<1> DEFINE m == q * Interval
<1>1. m \in Nat /\ m % Interval = 0
  BY <1>0, Multiple
<1> HIDE DEF m
<1>2. m % Second = 0
  BY <1>0, <1>1, MultipleOfMultiple
<1>3. (o + m) % Second = 0
  BY <1>0, <1>1, <1>2, MultiplesAdd
<1> QED
  BY <1>1, <1>3 DEF m

LEMMA WholeSecond ==
    ASSUME NEW s \in Nat, s % Second = 0 PROVE Period!Truncate(s, Second) = s
<1>1. Second \in Nat \ {0} /\ s <= s /\ s < s + Second
  BY PeriodConstantsAre
<1> QED
  BY <1>1, BelowOnly, TruncateIs

\* The first range is the first of its bucket, or its bucket is deleted.
LEMMA FirstRange ==
    ASSUME PeriodInv, Period!CalculateStat, statTime = Period!NoTime
    PROVE  BucketsOK' /\ statTime' \in Nat /\ statTime' <= nextStart
<1> DEFINE s == nextStart
           hour == Period!Truncate(s, RangeHour)
           added == Period!Grouped(s, s + Interval)
<1>1. ClockOK /\ PeriodRoundOK /\ BucketsOK
  BY DEF PeriodInv
<1>2. /\ rangePhase = "stat" /\ buckets' = Period!Kept(Period!Added(hour, added)) /\ statTime' = Period!Truncate(s, Second)
      /\ now' = now
  BY DEF Period!CalculateStat, Period!clockVars
<1>3. first = Period!NoTime /\ first' = s /\ DOMAIN buckets = {}
  BY <1>1 DEF ClockOK, BucketsOK, Period!CalculateStat
<1>4. s \in Nat /\ now \in Nat /\ (s % RangeHour = 0 \/ s <= now - Period!MaxSpan)
  BY <1>1, <1>2 DEF ClockOK, PeriodRoundOK
<1>5. /\ Second \in Nat \ {0} /\ Interval \in Nat \ {0} /\ RangeHour \in Nat \ {0} /\ RangeHour % Second = 0
      /\ Period!MaxSpan \in Nat
  BY PeriodConstantsAre
<1>6. statTime' \in Nat /\ statTime' <= s /\ s # Period!NoTime /\ statTime' # Period!NoTime
  <2>1. Below(s, Second) \in Nat /\ Below(s, Second) <= s
    BY <1>4, <1>5, BelowIs
  <2>2. \A n \in Nat : n # Period!NoTime
    BY DEF Period!NoTime
  <2> QED
    BY <2>1, <2>2, <1>2, <1>4, TruncateIs
<1> HIDE DEF s
<1>7. CASE s % RangeHour = 0
  <2>1. statTime' = s
    <3>1. s % Second = 0
      BY <1>4, <1>5, <1>7, MultipleOfMultiple
    <3> QED
      BY <1>2, <1>4, <3>1, WholeSecond
  <2>2. Origin' = s /\ Period!Covered' = s + Interval
    BY <1>3, <1>6, <1>7, <2>1 DEF Origin, Period!Covered
  <2>3. PICK o : o = s
    OBVIOUS
  <2>4. Filled(o, o)
    <3>1. \A h : \A k \in Senders : Part(h, k, o, o) = {}
      <4>1. \A i \in Items : ~ (o <= TimeOf[i] /\ TimeOf[i] < o)
        BY <1>4, <2>3, PeriodConstantsAre
      <4> QED
        BY <4>1 DEF Part, Period!ItemsIn
    <3> QED
      BY <3>1, <1>3, FS_EmptySet DEF Filled
  <2>5. o = o + 0 * Interval /\ 0 \in Nat /\ o \in Nat
    BY <1>4, <1>5, <2>3
  <2>6. buckets' = Period!Kept(Period!Added(Period!Truncate(o, RangeHour), Period!Grouped(o, o + Interval)))
    BY <1>2, <2>3 DEF s
  <2>7. Filled(o, o + Interval)'
    BY <2>4, <2>5, <2>6, <1>2, <1>4, FilledStep
  <2>8. Period!Covered' = Origin' + 1 * Interval /\ 1 \in Nat
    BY <2>2, <1>4, <1>5
  <2> QED
    BY <1>3, <1>4, <1>6, <2>1, <2>2, <2>3, <2>7, <2>8 DEF BucketsOK, s
<1>8. CASE s % RangeHour # 0
  <2>1. Origin' = statTime' + Interval /\ Period!Covered' = statTime' + Interval
    BY <1>2, <1>3, <1>6, <1>8 DEF Origin, Period!Covered
  <2>2. hour \in Nat /\ hour < s
    <3> DEFINE b == Below(s, RangeHour)
    <3>1. b \in Nat /\ b % RangeHour = 0 /\ b <= s /\ hour = b
      BY <1>4, <1>5, BelowIs, TruncateIs
    <3> HIDE DEF b, hour
    <3>2. b # s
      BY <3>1, <1>8
    <3> QED
      BY <3>1, <3>2, <1>4
  <2>3. ~ (hour >= now - Period!MaxSpan)
    <3>1. s <= now - Period!MaxSpan
      BY <1>4, <1>8
    <3> HIDE DEF hour, Period!MaxSpan
    <3> QED
      BY <3>1, <2>2, <1>4, <1>5
  <2>4. DOMAIN buckets' = {}
    <3>1. DOMAIN Period!Added(hour, added) \subseteq {hour}
      BY <1>3 DEF Period!Added, Period!BatchDeltaUpsert
    <3>2. \A t \in DOMAIN buckets' : t \in DOMAIN Period!Added(hour, added) /\ t >= now - Period!MaxSpan
      BY <1>2 DEF Period!Kept, s
    <3> QED
      BY <2>3, <3>1, <3>2
  <2>5. PICK o \in Nat : o = Origin'
    <3>1. PICK t \in Nat : t = statTime'
      BY <1>6
    <3>2. t + Interval \in Nat
      BY <1>5
    <3> QED
      BY <3>1, <3>2, <2>1
  <2>6. Filled(o, o)'
    <3>1. \A h : \A k \in Senders : Part(h, k, o, o) = {}
      <4>1. \A i \in Items : ~ (o <= TimeOf[i] /\ TimeOf[i] < o)
        BY PeriodConstantsAre
      <4> QED
        BY <4>1 DEF Part, Period!ItemsIn
    <3> QED
      BY <3>1, <2>4, FS_EmptySet DEF Filled
  <2>7. Period!Covered' = Origin' + 0 * Interval /\ 0 \in Nat
    BY <2>1, <2>5, <1>5
  <2> QED
    BY <1>3, <1>6, <1>8, <2>1, <2>5, <2>6, <2>7 DEF BucketsOK, s
<1> QED
  BY <1>6, <1>7, <1>8 DEF s

\* Every other starts where the last one ended.
LEMMA NextRange ==
    ASSUME PeriodInv, Period!CalculateStat, statTime # Period!NoTime
    PROVE  BucketsOK' /\ statTime' = nextStart /\ first' = first
<1>1. ClockOK /\ PeriodRoundOK /\ BucketsOK
  BY DEF PeriodInv
<1>2. /\ rangePhase = "stat" /\ statTime' = Period!Truncate(nextStart, Second) /\ now' = now
      /\ buckets' = Period!Kept(Period!Added(Period!Truncate(nextStart, RangeHour), Period!Grouped(nextStart, nextStart + Interval)))
  BY DEF Period!CalculateStat, Period!clockVars
<1>3. first # Period!NoTime /\ first' = first /\ first \in Nat /\ nextStart = Period!Covered
  BY <1>1, <1>2 DEF ClockOK, PeriodRoundOK, Period!CalculateStat, Period!Covered
<1>4. Origin' = Origin /\ Origin \in Nat /\ Origin % Second = 0
  BY <1>3, OriginIs DEF Origin
<1>5. PICK q \in Nat : Period!Covered = Origin + q * Interval
  BY <1>1, <1>3 DEF BucketsOK
<1>6. PICK o \in Nat : o = Origin
  BY <1>4
<1>7. PICK s : s = nextStart
  OBVIOUS
<1>8. s = o + q * Interval
  BY <1>3, <1>5, <1>6, <1>7
<1>9. s \in Nat /\ s % Second = 0
  BY <1>4, <1>6, <1>8, CoveredIs
<1>10. statTime' = s
  BY <1>2, <1>7, <1>9, WholeSecond
<1>11. now \in Nat
  BY <1>1 DEF ClockOK
<1>12. Filled(o, s)
  BY <1>1, <1>3, <1>6, <1>7 DEF BucketsOK
<1>13. buckets' = Period!Kept(Period!Added(Period!Truncate(s, RangeHour), Period!Grouped(s, s + Interval)))
  BY <1>2, <1>7
<1>14. Filled(o, s + Interval)'
  BY <1>2, <1>8, <1>11, <1>12, <1>13, FilledStep
<1>15. Period!Covered' = s + Interval
  <2>1. s # Period!NoTime
    BY <1>9 DEF Period!NoTime
  <2> QED
    BY <2>1, <1>10 DEF Period!Covered
<1>16. s + Interval = o + (q + 1) * Interval /\ q + 1 \in Nat
  BY <1>8, PeriodConstantsAre
<1>17. first % RangeHour = 0 => first <= s
  <2>1. s = statTime + Interval /\ statTime \in Nat
    BY <1>1, <1>2, <1>7 DEF ClockOK, PeriodRoundOK
  <2>2. first % RangeHour = 0 => first <= statTime
    BY <1>1, <1>3 DEF BucketsOK
  <2> QED
    BY <2>1, <2>2, <1>3, PeriodConstantsAre
<1>18. /\ \E p \in Nat : Period!Covered' = Origin' + p * Interval
       /\ first' % RangeHour = 0 => first' <= statTime'
  BY <1>3, <1>4, <1>6, <1>10, <1>15, <1>16, <1>17
<1> QED
  BY <1>3, <1>4, <1>6, <1>7, <1>10, <1>14, <1>15, <1>18 DEF BucketsOK

LEMMA PeriodCalculateInv == PeriodInv /\ Period!CalculateStat => PeriodInv'
<1> SUFFICES ASSUME PeriodInv, Period!CalculateStat PROVE PeriodInv'
  OBVIOUS
<1>1. ClockOK
  BY DEF PeriodInv
<1>2. /\ rangePhase = "stat" /\ rangePhase' = "range" /\ now' = now
      /\ first' = IF first = Period!NoTime THEN nextStart ELSE first
  BY DEF Period!CalculateStat, Period!clockVars
<1>3. nextStart \in Nat /\ nextStart + Interval <= now /\ Interval \in Nat
  BY <1>1, <1>2, PeriodConstantsAre DEF ClockOK
<1>4. BucketsOK' /\ statTime' \in Nat /\ statTime' <= nextStart
  <2>1. CASE statTime = Period!NoTime
    BY <2>1, FirstRange
  <2>2. CASE statTime # Period!NoTime
    BY <2>2, <1>3, NextRange
  <2> QED
    BY <2>1, <2>2
<1>5. statTime' + Interval <= now
  <2>1. now \in Nat
    BY <1>1 DEF ClockOK
  <2>2. PICK t \in Nat : t = statTime' /\ t <= nextStart
    BY <1>4
  <2>3. PICK n \in Nat, r \in Nat : n = now /\ r = nextStart /\ r + Interval <= n /\ t <= r
    BY <2>1, <2>2, <1>3
  <2>4. t + Interval <= n
    BY <2>3, <1>3
  <2> QED
    BY <2>2, <2>3, <2>4
<1>6. first' \in Nat /\ first' # Period!NoTime /\ statTime' # Period!NoTime
  BY <1>1, <1>2, <1>3, <1>4 DEF ClockOK, Period!NoTime
<1> QED
  BY <1>1, <1>2, <1>3, <1>4, <1>5, <1>6 DEF PeriodInv, ClockOK, PeriodRoundOK

LEMMA StepPeriodInv == PeriodInv /\ Period!Next => PeriodInv'
<1> SUFFICES ASSUME PeriodInv, Period!Next PROVE PeriodInv'
  OBVIOUS
<1>1. ClockOK /\ PeriodRoundOK /\ BucketsOK /\ now \in Nat
  BY DEF PeriodInv, ClockOK
<1>2. CASE Period!Tick
  BY <1>2, ClockTickInv
<1>3. CASE Period!BlockFinalized
  <2>1. UNCHANGED <<now, statTime, buckets, nextStart, rangePhase, first>>
    BY <1>3 DEF Period!BlockFinalized
  <2>2. BucketsOK'
    BY <2>1, <1>1, BucketsStay
  <2> QED
    BY <2>1, <2>2, <1>1 DEF PeriodInv, ClockOK, PeriodRoundOK
<1>4. CASE Period!NextTimeRange
  BY <1>4, PeriodRangeInv
<1>5. CASE Period!CalculateStat
  BY <1>5, PeriodCalculateInv
<1>6. CASE Period!RoundFails
  <2>1. rangePhase' = "range" /\ UNCHANGED <<now, statTime, buckets, nextStart, first>>
    BY <1>6 DEF Period!RoundFails, Period!clockVars
  <2>2. BucketsOK'
    BY <2>1, <1>1, BucketsStay
  <2> QED
    BY <2>1, <2>2, <1>1 DEF PeriodInv, ClockOK, PeriodRoundOK
<1> QED
  BY <1>2, <1>3, <1>4, <1>5, <1>6 DEF Period!Next, Period!Worker

LEMMA OthersKeepPeriod == PeriodInv /\ UNCHANGED rangeVars => PeriodInv'
<1> SUFFICES ASSUME PeriodInv, UNCHANGED rangeVars PROVE PeriodInv'
  OBVIOUS
<1>1. UNCHANGED <<now, statTime, buckets, nextStart, rangePhase, first>>
  BY DEF rangeVars
<1>2. BucketsOK'
  <2>1. BucketsOK /\ now \in Nat
    BY DEF PeriodInv, ClockOK
  <2> QED
    BY <2>1, <1>1, BucketsStay
<1> QED
  BY <1>1, <1>2 DEF PeriodInv, ClockOK, PeriodRoundOK

-----------------------------------------------------------------------------
(* What the sums of the buckets come to.                                    *)

LEMMA SumOfColumn ==
    ASSUME NEW D, IsFiniteSet(D), NEW b, NEW k
    PROVE  Period!MapThenSumSet(LAMBDA t : b[t][k], D) = SumOver([t \in D |-> b[t][k]], D)
<1> DEFINE c == [t \in D |-> b[t][k]]
           G == CHOOSE g : g = [s \in SUBSET D |->
                    IF s = {} THEN 0
                    ELSE b[CHOOSE x \in s : TRUE][k] + g[s \ {CHOOSE x \in s : TRUE}]]
<1>1. \A s \in SUBSET D : s # {} => Pick(s) \in D
  BY DEF Pick
<1>2. \A g : IsSum(c, D, g) <=>
          g = [s \in SUBSET D |-> IF s = {} THEN 0 ELSE b[Pick(s)][k] + g[s \ {Pick(s)}]]
  <2> SUFFICES ASSUME NEW g
               PROVE  [s \in SUBSET D |-> IF s = {} THEN 0 ELSE c[Pick(s)] + g[s \ {Pick(s)}]] =
                      [s \in SUBSET D |-> IF s = {} THEN 0 ELSE b[Pick(s)][k] + g[s \ {Pick(s)}]]
    BY DEF IsSum
  <2>1. \A s \in SUBSET D : s # {} => c[Pick(s)] = b[Pick(s)][k]
    BY <1>1
  <2> HIDE DEF c
  <2> QED
    BY <2>1
<1> HIDE DEF c
<1>3. PICK g : IsSum(c, D, g) /\ SumOver(c, D) = g[D]
  BY SumIs
<1>4. IsSum(c, D, G)
  <2>1. g = [s \in SUBSET D |->
                    IF s = {} THEN 0
                    ELSE b[CHOOSE x \in s : TRUE][k] + g[s \ {CHOOSE x \in s : TRUE}]]
    BY <1>2, <1>3 DEF Pick
  <2>2. G = [s \in SUBSET D |->
                    IF s = {} THEN 0
                    ELSE b[CHOOSE x \in s : TRUE][k] + G[s \ {CHOOSE x \in s : TRUE}]]
    BY <2>1
  <2> HIDE DEF G
  <2> QED
    BY <1>2, <2>2 DEF Pick
<1>5. Period!MapThenSumSet(LAMBDA t : b[t][k], D) = G[D]
  BY DEF Period!MapThenSumSet, Period!MapThenFoldSet
<1> HIDE DEF G
<1>6. g[D] = G[D]
  BY <1>3, <1>4, SumIsOne
<1> QED
  BY <1>3, <1>5, <1>6 DEF c

\* The items that the buckets of a period have counted.
Counted(span, k) ==
    {i \in Period!ItemsIn(Origin, Period!Covered, k) : BucketOf(i, Origin) \in Period!InPeriod(span)}

LEMMA TopnIs ==
    ASSUME BucketsOK, first # Period!NoTime, NEW span, NEW k \in Senders
    PROVE  Period!Topn(span)[k] = Cardinality(Counted(span, k))
<1> DEFINE D == Period!InPeriod(span)
           P == Counted(span, k)
           c == [t \in D |-> buckets[t][k]]
           key == [i \in P |-> BucketOf(i, Origin)]
<1>1. Filled(Origin, Period!Covered)
  BY DEF BucketsOK
<1>2. D \subseteq DOMAIN buckets /\ IsFiniteSet(D)
  <2>1. D \subseteq DOMAIN buckets
    BY DEF Period!InPeriod
  <2> QED
    BY <2>1, <1>1, FS_Subset DEF Filled
<1>3. P \subseteq Items /\ IsFiniteSet(P)
  <2>1. P \subseteq Items
    BY DEF Counted, Period!ItemsIn
  <2> QED
    BY <2>1, ItemsFinite
<1>4. \A i \in P : key[i] \in D
  BY DEF Counted
<1>5. \A x \in D : c[x] = Cardinality(OfKey(P, key, x))
  <2> SUFFICES ASSUME NEW x \in D PROVE c[x] = Cardinality(OfKey(P, key, x))
    OBVIOUS
  <2>1. c[x] = Cardinality(Part(x, k, Origin, Period!Covered))
    BY <1>1, <1>2 DEF Filled
  <2>2. Part(x, k, Origin, Period!Covered) = OfKey(P, key, x)
    BY DEF Part, Counted, OfKey
  <2> QED
    BY <2>1, <2>2
<1>6. Period!Topn(span)[k] = SumOver(c, D)
  BY <1>2, SumOfColumn DEF Period!Topn
<1> HIDE DEF D, P, c, key
<1>7. SumOver(c, D) = Cardinality(P)
  BY <1>2, <1>3, <1>4, <1>5, SumOfCounts
<1> QED
  BY <1>6, <1>7 DEF P

LEMMA UpToIs ==
    ASSUME NEW d \in Nat \ {0}, NEW x \in Int
    PROVE  /\ Period!UpTo(x, d) \in Int /\ Period!UpTo(x, d) >= x /\ Period!UpTo(x, d) < x + d
           /\ \A h \in Nat : h % d = 0 /\ h >= x => h >= Period!UpTo(x, d)
           /\ Period!UpTo(x, d) >= 0 =>
                 \E p \in Nat : Period!UpTo(x, d) = p * d
<1> DEFINE y == -x
           q == y \div d
<1>1. y \in Int
  OBVIOUS
<1>2. q \in Int /\ y % d \in 0..(d - 1) /\ y = q * d + (y % d)
  BY <1>1, IntDivision
<1>3. Period!UpTo(x, d) = -(q * d) /\ x = -y
  BY DEF Period!UpTo
<1> DEFINE r == y % d
<1> HIDE DEF y, q, r
<1>4. (q * d) \in Int /\ r \in 0..(d - 1) /\ y = q * d + r
  BY <1>2 DEF r
<1>5. Period!UpTo(x, d) \in Int /\ Period!UpTo(x, d) >= x /\ Period!UpTo(x, d) < x + d
  BY <1>1, <1>3, <1>4
<1>6. ASSUME NEW h \in Nat, h % d = 0, h >= x PROVE h >= Period!UpTo(x, d)
  <2>1. PICK p \in Nat : h = p * d
    BY <1>1, <1>6, IsMultiple
  <2>2. p * d >= -(q * d) - r
    BY <2>1, <1>1, <1>3, <1>4, <1>6
  <2>3. ~ (p < -q)
    <3> SUFFICES ASSUME p < -q PROVE FALSE
      OBVIOUS
    <3>1. -q \in Nat
      BY <1>2, <2>1
    <3>2. p * d + d <= (-q) * d
      BY <1>1, <3>1, <2>1, Apart
    <3>3. (-q) * d = -(q * d)
      BY <1>1, <1>2
    <3> QED
      BY <1>1, <1>4, <2>1, <2>2, <3>2, <3>3
  <2>4. p * d >= -(q * d)
    <3>1. CASE p = -q
      <4>1. (-q) * d = -(q * d)
        BY <1>1, <1>2
      <4> QED
        BY <3>1, <4>1, <1>1, <1>4
    <3>2. CASE -q < p /\ -q \in Nat
      <4>1. (-q) * d + d <= p * d
        BY <1>1, <3>2, <2>1, Apart
      <4>2. (-q) * d = -(q * d) /\ p * d \in Int
        BY <1>1, <1>2, <2>1
      <4> QED
        BY <1>1, <1>4, <4>1, <4>2
    <3>3. CASE -q \notin Nat
      <4>1. q \in Nat
        BY <3>3, <1>2
      <4>2. (q * d) \in Nat /\ (p * d) \in Nat
        BY <1>1, <2>1, <4>1, Multiple
      <4> QED
        BY <4>2
    <3> QED
      BY <3>1, <3>2, <3>3, <2>1, <2>3, <1>2
  <2> QED
    BY <2>1, <2>4, <1>3
<1>7. Period!UpTo(x, d) >= 0 => \E p \in Nat : Period!UpTo(x, d) = p * d
  <2> SUFFICES ASSUME Period!UpTo(x, d) >= 0 PROVE \E p \in Nat : Period!UpTo(x, d) = p * d
    OBVIOUS
  <2>1. (-q) * d = -(q * d) /\ -q \in Int
    BY <1>1, <1>2
  <2>2. -q \in Nat
    <3> SUFFICES ASSUME -q \notin Nat PROVE FALSE
      OBVIOUS
    <3>1. q - 1 \in Nat /\ q \in Nat
      BY <1>2
    <3>2. ((q - 1) * d) \in Nat /\ (q - 1) * d = q * d - d
      BY <3>1, <1>1, Multiple, Times1
    <3> QED
      BY <3>2, <1>1, <1>3, <1>4
  <2> QED
    BY <2>1, <2>2, <1>3
<1> QED
  BY <1>5, <1>6, <1>7

\* Where a window starts: at a range, the first that starts at the first full hour or later.
LEMMA WindowStartIs ==
    ASSUME NEW span, NEW o \in Nat, o = Origin, NEW f \in Int, f = Period!FirstHour(span)
    PROVE  \E c \in Nat : /\ Period!WindowStart(span) = o + c * Interval
                          /\ f <= o + c * Interval
                          /\ c = 0 \/ o + c * Interval < f + Interval
<1>1. Interval \in Nat \ {0} /\ 0 * Interval = 0
  BY PeriodConstantsAre
<1>2. o = Period!FirstShown
  BY DEF Origin, Period!FirstShown
<1>3. CASE f <= o
  <2>1. Period!WindowStart(span) = o
    BY <1>2, <1>3 DEF Period!WindowStart
  <2> QED
    BY <1>1, <1>3, <2>1
<1>4. CASE ~(f <= o)
  <2> DEFINE u == Period!UpTo(f - o, Interval)
  <2>1. Period!WindowStart(span) = o + u
    BY <1>2, <1>4 DEF Period!WindowStart
  <2>2. f - o \in Int /\ f - o >= 0
    BY <1>4
  <2>3. u \in Int /\ u >= f - o /\ u < f - o + Interval /\ (u >= 0 => \E p \in Nat : u = p * Interval)
    BY <1>1, <2>2, UpToIs
  <2> HIDE DEF u
  <2>4. PICK p \in Nat : u = p * Interval
    BY <2>2, <2>3
  <2>5. /\ Period!WindowStart(span) = o + p * Interval
        /\ f <= o + p * Interval /\ o + p * Interval < f + Interval
    BY <2>1, <2>3, <2>4, <1>1
  <2> QED
    BY <2>5
<1> QED
  BY <1>3, <1>4

\* The range of an item, and the hour it starts in.
LEMMA RangeIs ==
    ASSUME NEW o \in Nat, NEW i \in Items, o <= TimeOf[i]
    PROVE  /\ \E p \in Nat : RangeOf(i, o) = o + p * Interval
           /\ RangeOf(i, o) \in Nat /\ RangeOf(i, o) <= TimeOf[i]
           /\ TimeOf[i] < RangeOf(i, o) + Interval
           /\ BucketOf(i, o) \in Nat /\ BucketOf(i, o) % RangeHour = 0
           /\ BucketOf(i, o) <= RangeOf(i, o) /\ RangeOf(i, o) < BucketOf(i, o) + RangeHour
<1> DEFINE T == TimeOf[i]
           m == Below(T - o, Interval)
           r == RangeOf(i, o)
<1>1. T \in Nat /\ T - o \in Nat /\ Interval \in Nat \ {0} /\ RangeHour \in Nat \ {0}
  BY PeriodConstantsAre
<1>2. m \in Nat /\ m % Interval = 0 /\ m <= T - o /\ T - o < m + Interval
  BY <1>1, BelowIs
<1>3. r = o + m
  BY TruncateIs DEF RangeOf
<1>4. BucketOf(i, o) = Below(r, RangeHour)
  BY TruncateIs DEF BucketOf
<1> HIDE DEF T, m, r
<1>5. PICK p \in Nat : m = p * Interval
  BY <1>1, <1>2, IsMultiple
<1>6. r \in Nat /\ r <= T /\ T < r + Interval /\ r = o + p * Interval
  BY <1>1, <1>2, <1>3, <1>5
<1>7. /\ Below(r, RangeHour) \in Nat /\ Below(r, RangeHour) % RangeHour = 0
      /\ Below(r, RangeHour) <= r /\ r < Below(r, RangeHour) + RangeHour
  BY <1>1, <1>6, BelowIs
<1> QED
  BY <1>4, <1>6, <1>7 DEF T, r

\* An item lies in the window when its range does: both start ranges.
LEMMA InWindow ==
    ASSUME NEW d \in Nat \ {0}, NEW o \in Nat, NEW c \in Nat, NEW p \in Nat,
           NEW t \in Nat, o + p * d <= t, t < o + p * d + d, NEW f \in Int,
           f <= o + c * d, c = 0 \/ o + c * d < f + d
    PROVE  o + c * d <= t <=> f <= o + p * d /\ c <= p
<1>1. (c * d) \in Nat /\ (p * d) \in Nat
  BY Multiple
<1>2. CASE p < c
  <2>1. p * d + d <= c * d
    BY <1>2, Apart
  <2> QED
    BY <1>1, <1>2, <2>1
<1>3. CASE c <= p
  <2>1. c * d <= p * d
    <3>1. CASE c < p
      <4>1. c * d + d <= p * d
        BY <3>1, Apart
      <4> QED
        BY <1>1, <4>1
    <3>2. CASE c = p
      BY <3>2, <1>1
    <3> QED
      BY <3>1, <3>2, <1>3
  <2> QED
    BY <1>1, <1>3, <2>1
<1> QED
  BY <1>2, <1>3

\* No range before the window starts in its hours.
LEMMA BeforeWindow ==
    ASSUME NEW d \in Nat \ {0}, NEW o \in Nat, NEW c \in Nat, NEW p \in Nat,
           NEW f \in Int, c = 0 \/ o + c * d < f + d, f <= o + p * d
    PROVE  c <= p
<1> SUFFICES ASSUME p < c PROVE FALSE
  OBVIOUS
<1>1. p * d + d <= c * d /\ (c * d) \in Nat /\ (p * d) \in Nat
  BY Apart, Multiple
<1> QED
  BY <1>1

LEMMA WindowFollows == PeriodInv => Period!WindowExact
<1> SUFFICES ASSUME PeriodInv, first # Period!NoTime, NEW span \in Spans
             PROVE  Period!Topn(span) =
                        Period!Grouped(Period!WindowStart(span), Period!Covered)
  BY DEF Period!WindowExact
<1>1. ClockOK /\ BucketsOK
  BY DEF PeriodInv
<1>2. /\ first \in Nat /\ now \in Nat /\ span \in Nat /\ span <= Period!MaxSpan
      /\ Period!MaxSpan \in Nat
      /\ RangeHour \in Nat \ {0} /\ Interval \in Nat \ {0}
  BY <1>1, PeriodConstantsAre DEF ClockOK
<1>3. PICK o \in Nat : o = Origin
  BY <1>2, OriginIs
<1>4. PICK f \in Int : f = Period!FirstHour(span)
  BY <1>2, UpToIs DEF Period!FirstHour
<1>5. /\ f >= now - span
      /\ \A h \in Nat : h % RangeHour = 0 /\ h >= now - span => h >= f
      /\ f >= 0 => \E p \in Nat : f = p * RangeHour
  <2>1. now - span \in Int
    BY <1>2
  <2> QED
    BY <1>2, <1>4, <2>1, UpToIs DEF Period!FirstHour
<1>6. PICK c \in Nat : /\ Period!WindowStart(span) = o + c * Interval
                       /\ f <= o + c * Interval
                       /\ c = 0 \/ o + c * Interval < f + Interval
  BY <1>3, <1>4, WindowStartIs
<1>7. PICK m \in Nat : m = o + c * Interval
  BY <1>2, Multiple
<1>8. ASSUME NEW i \in Items, o <= TimeOf[i]
      PROVE  m <= TimeOf[i] <=> BucketOf(i, o) >= now - span
  <2>1. PICK p \in Nat : RangeOf(i, o) = o + p * Interval
    BY <1>8, RangeIs
  <2>2. PICK t \in Nat, r \in Nat, h \in Nat :
           t = TimeOf[i] /\ r = RangeOf(i, o) /\ h = BucketOf(i, o)
    BY <1>8, RangeIs, PeriodConstantsAre
  <2>3. /\ r <= t /\ t < r + Interval /\ h % RangeHour = 0 /\ h <= r /\ r < h + RangeHour
        /\ r = o + p * Interval
    BY <1>8, <2>1, <2>2, RangeIs
  <2>4. m <= t <=> f <= r /\ c <= p
    BY <1>2, <1>6, <1>7, <2>3, InWindow
  <2>5. f <= r => c <= p
    BY <1>2, <1>6, <2>3, BeforeWindow
  <2>6. h >= now - span => f <= r
    BY <1>5, <2>3
  <2>7. f <= r => f <= h
    <3> SUFFICES ASSUME f <= r, h < f PROVE FALSE
      OBVIOUS
    <3>1. f \in Nat
      OBVIOUS
    <3>2. PICK q \in Nat : f = q * RangeHour
      BY <1>5, <3>1
    <3>3. f % RangeHour = 0
      BY <1>2, <3>2, Multiple
    <3>4. h + RangeHour <= f
      BY <1>2, <2>3, <3>1, <3>3, IntervalsApart
    <3> QED
      BY <1>2, <2>3, <3>4
  <2>8. f <= h => h >= now - span
    BY <1>2, <1>5
  <2> QED
    BY <2>2, <2>4, <2>5, <2>6, <2>7, <2>8
<1>9. ASSUME NEW k \in Senders PROVE Counted(span, k) = Period!ItemsIn(m, Period!Covered, k)
  <2>1. ASSUME NEW i \in Counted(span, k) PROVE i \in Period!ItemsIn(m, Period!Covered, k)
    <3>1. /\ i \in Items /\ o <= TimeOf[i] /\ TimeOf[i] < Period!Covered /\ Key[i] = k
          /\ BucketOf(i, o) >= now - span
      BY <2>1, <1>3 DEF Counted, Period!ItemsIn, Period!InPeriod
    <3> QED
      BY <3>1, <1>8 DEF Period!ItemsIn
  <2>2. ASSUME NEW i \in Period!ItemsIn(m, Period!Covered, k) PROVE i \in Counted(span, k)
    <3>1. /\ i \in Items /\ m <= TimeOf[i] /\ TimeOf[i] < Period!Covered /\ Key[i] = k
          /\ TimeOf[i] \in Nat
      BY <2>2, PeriodConstantsAre DEF Period!ItemsIn
    <3>2. o <= TimeOf[i]
      <4>1. (c * Interval) \in Nat
        BY <1>2, Multiple
      <4> QED
        BY <3>1, <4>1, <1>7
    <3>3. PICK h \in Nat : h = BucketOf(i, o) /\ h % RangeHour = 0
      BY <3>1, <3>2, RangeIs
    <3>4. h >= now - span
      BY <3>1, <3>2, <3>3, <1>8
    <3>5. i \in Part(h, k, Origin, Period!Covered)
      BY <3>1, <3>2, <3>3, <1>3 DEF Part, Period!ItemsIn
    <3>6. ~ (h < now - Period!MaxSpan)
      <4> HIDE DEF Period!MaxSpan
      <4> QED
        BY <3>4, <1>2
    <3>7. h \in DOMAIN buckets
      BY <1>1, <3>3, <3>5, <3>6 DEF BucketsOK, Filled
    <3>8. h \in Period!InPeriod(span)
      BY <3>4, <3>7 DEF Period!InPeriod
    <3> QED
      BY <3>1, <3>2, <3>3, <3>8, <1>3 DEF Counted, Period!ItemsIn
  <2> QED
    BY <2>1, <2>2
<1>10. \A k \in Senders : Period!Topn(span)[k] = Cardinality(Period!ItemsIn(m, Period!Covered, k))
  BY <1>1, <1>9, TopnIs
<1>11. Period!Topn(span) = [k \in Senders |-> Period!Topn(span)[k]]
  BY DEF Period!Topn
<1>12. Period!Grouped(m, Period!Covered) =
           [k \in Senders |-> Cardinality(Period!ItemsIn(m, Period!Covered, k))]
  BY PeriodLibrary DEF Period!Grouped
<1>13. Period!Topn(span) = Period!Grouped(m, Period!Covered)
  BY <1>10, <1>11, <1>12
<1> QED
  BY <1>6, <1>7, <1>13

\* A step of the process is one of the ranking of a period, or leaves its data alone.
LEMMA StepOfPeriod == [Next]_vars => Period!Next \/ UNCHANGED rangeVars
  <1> SUFFICES ASSUME [Next]_vars PROVE Period!Next \/ UNCHANGED rangeVars  OBVIOUS
  <1>1. CASE ExpiredRun(Expired!Next)  BY <1>1 DEF ExpiredRun
  <1>2. CASE StatRun(Stat!Next)  BY <1>2 DEF StatRun
  <1>3. CASE SubmitsRun(Submits!Next)  BY <1>3 DEF SubmitsRun
  <1>4. CASE RewardsRun(Rewards!Next)  BY <1>4 DEF RewardsRun
  <1>5. CASE RangeRun(Period!Next)  BY <1>5 DEF RangeRun
  <1>6. CASE UNCHANGED vars  BY <1>6 DEF vars
  <1> QED  BY <1>1, <1>2, <1>3, <1>4, <1>5, <1>6 DEF Next

\* Every bucket has the counts of the ranges that its hour has the starts of, or is older
\* than the longest period, whatever fails and whatever runs beside it.
THEOREM PeriodInvariance == Spec => []PeriodInv
  <1>1. Init => PeriodInv  BY InitPeriodInv DEF Init
  <1>2. PeriodInv /\ [Next]_vars => PeriodInv'
      BY StepOfPeriod, StepPeriodInv, OthersKeepPeriod
  <1> QED  BY <1>1, <1>2, PTL DEF Spec

\* The ranking of a period counts the items of the ranges that start in its full hours,
\* each exactly once and no other, whenever it is asked and wherever the first range
\* starts.
THEOREM WindowIsExact == Spec => []WindowExact
  <1>1. PeriodInv => WindowExact  BY WindowFollows DEF WindowExact
  <1> QED  BY <1>1, PeriodInvariance, PTL
=============================================================================

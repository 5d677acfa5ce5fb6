--------------------------- MODULE MinerAttempts ----------------------------
(***************************************************************************)
(* The count of mining attempts (PatchSyncer.MinerAttempts in sync/patch.  *)
(* go).  A cursor over the finalized blocks the scanner has stored: each   *)
(* round reads a range of them from the node, counts the calls of the mine *)
(* contract per registered miner, and adds the counts in a transaction.    *)
(* The cursor is stored while that transaction is open, but not in it.     *)
(***************************************************************************)
EXTENDS Integers, FiniteSets

CONSTANTS
    Attempts,       \* the calls of the mine contract
    Miners,
    BlockOf, By,    \* block and miner of each attempt
    RegisteredAt,   \* block from which a miner's registration is stored
    NumBlocks,      \* bound: number of blocks
    Batch,          \* BatchBlocksOnPatch, 100 in the code
    MaxFaults,      \* bound: failed calls and statements
    MaxCrashes      \* bound: restarts

\* What the constants are assumed to be.
ConstantsOK ==
    /\ IsFiniteSet(Attempts)
    /\ BlockOf \in [Attempts -> Nat] /\ By \in [Attempts -> Miners]
    /\ RegisteredAt \in [Miners -> Nat]
    /\ Batch \in Nat \ {0}
    /\ {NumBlocks, MaxFaults, MaxCrashes} \subseteq Nat

VARIABLES
    finalizedPos,   \* newest finalized block that is stored, -1 before there is one
    miningAttempts, \* miners.mining_attempts
    attemptsBn,     \* config row "sync.patch.miner.attempts.bn", -1 when missing
    currentBn,      \* PatchSyncer.currentBn
    minPos, maxPos, \* range of the round
    delta,          \* miner2Attempts: attempts of the range per miner
    phase,          \* what the round does next
    faults, crashes

dbVars == <<miningAttempts, attemptsBn>>
roundVars == <<currentBn, minPos, maxPos, delta, phase>>
vars == <<finalizedPos, dbVars, roundVars, faults, crashes>>

NoAttempts == [m \in Miners |-> 0]

Init ==
    /\ finalizedPos = -1
    /\ miningAttempts = NoAttempts /\ attemptsBn = -1
    /\ currentBn = 0 /\ minPos = 0 /\ maxPos = 0 /\ delta = NoAttempts
    /\ phase = "range"
    /\ faults = 0 /\ crashes = 0

\* The scanner stores blocks and they become final.
FinalizedPosMoves ==
    /\ \E bn \in (finalizedPos + 1)..(NumBlocks - 1) : finalizedPos' = bn
    /\ UNCHANGED <<dbVars, roundVars, faults, crashes>>

\* Faulty variant of Reached: the newest block is left for later.
Passed(bn) == bn < finalizedPos

Reached(bn) == bn <= finalizedPos

\* nextStatRange.
NextStatRange ==
    /\ phase = "range"
    /\ Reached(currentBn)
    /\ minPos' = currentBn
    /\ maxPos' = IF finalizedPos < currentBn + Batch - 1 THEN finalizedPos
                                                         ELSE currentBn + Batch - 1
    /\ phase' = "read"
    /\ UNCHANGED <<finalizedPos, dbVars, currentBn, delta, faults, crashes>>

InRange(a) == minPos <= BlockOf[a] /\ BlockOf[a] <= maxPos

\* GetByMinerID: the newest registration of the miner at or below the block.
GetByMinerID(m, bn) == RegisteredAt[m] <= bn

\* BatchGetBlocks, and GetByMinerID for each attempt.  A miner without a stored
\* registration is an error: the round starts over.
ReadAttempts ==
    /\ phase = "read"
    /\ IF \A a \in Attempts : InRange(a) => GetByMinerID(By[a], BlockOf[a])
       THEN /\ delta' = [m \in Miners |-> Cardinality({a \in Attempts : InRange(a) /\ By[a] = m})]
            /\ phase' = "config"
       ELSE /\ phase' = "range"
            /\ UNCHANGED delta
    /\ UNCHANGED <<finalizedPos, dbVars, currentBn, minPos, maxPos, faults, crashes>>

\* In the transaction, after the uncommitted update of the miners: the cursor is
\* written on a connection of its own.
UpsertBn ==
    /\ phase = "config"
    /\ attemptsBn' = maxPos
    /\ phase' = "commit"
    /\ UNCHANGED <<finalizedPos, miningAttempts, currentBn, minPos, maxPos, delta, faults, crashes>>

\* Added to the row of each miner.
BatchDeltaUpsertMiningAttempts ==
    miningAttempts' = [m \in Miners |-> miningAttempts[m] + delta[m]]

\* The transaction commits, and the cursor in memory moves.
AddDelta(next) ==
    /\ phase = "commit"
    /\ BatchDeltaUpsertMiningAttempts
    /\ currentBn' = next
    /\ phase' = "range"
    /\ UNCHANGED <<finalizedPos, attemptsBn, minPos, maxPos, delta, faults, crashes>>

\* Faulty variant of Commit: the last block is read again.
CommitOverlap == AddDelta(maxPos)

Commit == AddDelta(maxPos + 1)

\* A call or a statement fails, or the commit does: nothing is added, and the
\* round starts over from the cursor in memory.
RoundFails ==
    /\ faults < MaxFaults /\ faults' = faults + 1
    /\ phase # "range"
    /\ phase' = "range"
    /\ UNCHANGED <<finalizedPos, dbVars, currentBn, minPos, maxPos, delta, crashes>>

ResumeAt(bn) ==
    /\ crashes < MaxCrashes /\ crashes' = crashes + 1
    /\ currentBn' = bn
    /\ phase' = "range"
    /\ UNCHANGED <<finalizedPos, dbVars, minPos, maxPos, delta, faults>>

\* Faulty variant of Restart: the stored block is read again.
RestartAtStored == ResumeAt(IF attemptsBn < 0 THEN 0 ELSE attemptsBn)

\* mustLoadLastBn.
Restart == ResumeAt(attemptsBn + 1)

Round == NextStatRange \/ ReadAttempts \/ UpsertBn \/ Commit

Next == FinalizedPosMoves \/ Round \/ RoundFails \/ Restart

Spec == Init /\ [][Next]_vars

\* The worker runs again after every error.
FairSpec == Spec /\ WF_vars(Round)

-----------------------------------------------------------------------------
(* Properties.                                                              *)

\* Every variable has its type.
TypeOK ==
    /\ finalizedPos \in -1..(NumBlocks - 1)
    /\ miningAttempts \in [Miners -> Nat] /\ delta \in [Miners -> Nat]
    /\ attemptsBn \in Int /\ attemptsBn >= -1
    /\ {currentBn, minPos} \subseteq Nat /\ maxPos \in Nat
    /\ phase \in {"range", "read", "config", "commit"}

AttemptsUpTo(bn, m) == {a \in Attempts : BlockOf[a] <= bn /\ By[a] = m}

\* No attempt is counted twice, wherever a round fails and the process restarts:
\* a miner never has more attempts than its calls up to the stored cursor.
CountedAtMostOnce ==
    \A m \in Miners : miningAttempts[m] <= Cardinality(AttemptsUpTo(attemptsBn, m))

Unregistered(a) == ~ GetByMinerID(By[a], BlockOf[a])

\* In the end the worker has passed every finalized block, or is held up by the
\* call of a miner without a registration, and every attempt before its cursor is
\* counted.
AttemptsCounted ==
    <>[](/\ currentBn > finalizedPos \/ \E a \in Attempts : InRange(a) /\ Unregistered(a)
         /\ \A m \in Miners : miningAttempts[m] = Cardinality(AttemptsUpTo(currentBn - 1, m)))

\* So it is as long as the process is not restarted, failed rounds included.
CountedWhileRunning == [](crashes = 0) => AttemptsCounted

-----------------------------------------------------------------------------
Count == INSTANCE CountOnce
            WITH Items <- Attempts, Keys <- Miners, Pos <- BlockOf, Key <- By,
                 done <- currentBn, counter <- miningAttempts

\* Until the first restart every step of the counters is a step of the
\* exactly-once count.
CountsOnceWhileRunning == [][crashes' = 0 => Count!CountRange]_<<currentBn, miningAttempts>>
=============================================================================

------------------------------- MODULE L1Txs --------------------------------
(***************************************************************************)
(* The layer-1 data of submissions (PatchSyncer.L1Txs in sync/patch.go): a *)
(* cursor runs over the rows of submits, also those that are not final,    *)
(* asks the node for the transaction of each and writes the gas figures    *)
(* into the JSON column "extra" of the row with that submission index.     *)
(* The sync process meanwhile replaces rows when the chain reorganises.    *)
(***************************************************************************)
EXTENDS Integers, Sequences

CONSTANTS
    MaxSubmits,     \* bound: submissions on the chain
    Batch,          \* BatchSubmitsOnPatch, 100 in the code
    MaxReorgs,      \* bound: reorganisations
    MaxPruned,      \* bound: transactions the node prunes
    MaxFaults       \* bound: failed calls and statements, restarts

ConstantsOK ==
    /\ Batch \in Nat \ {0}
    /\ {MaxSubmits, MaxReorgs, MaxPruned, MaxFaults} \subseteq Nat

VARIABLES
    chain,          \* the submissions on the chain, by index: the fork they are of
    prunedTo,       \* the node has pruned the transactions up to this index
    submits,        \* the rows: fork of the submission, fork of "extra", gas known
    patchedId,      \* config row "sync.patch.l1tx.submit.id", 0 when missing
    currentSubmitId,\* PatchSyncer.currentSubmitId: rows before it are done
    batch,          \* rows still to be patched: index and row as read
    phase,          \* what is next for the first of them
    reorgs, faults

patcher == <<currentSubmitId, batch, phase>>
vars == <<chain, prunedTo, submits, patchedId, patcher, reorgs, faults>>

\* Submission indexes start at 1 here, as sequences do.
Init ==
    /\ chain = <<>> /\ prunedTo = 0
    /\ submits = <<>>
    /\ patchedId = 0
    /\ currentSubmitId = 1 /\ batch = <<>> /\ phase = "ask"
    /\ reorgs = 0 /\ faults = 0

-----------------------------------------------------------------------------
(* The chain and the sync process.                                          *)

Submit ==
    /\ Len(chain) < MaxSubmits
    /\ chain' = Append(chain, reorgs)
    /\ UNCHANGED <<prunedTo, submits, patchedId, patcher, reorgs, faults>>

\* The newest transactions are gone; others may take their place.
Reorg(n) ==
    /\ reorgs < MaxReorgs
    /\ prunedTo <= n
    /\ reorgs' = reorgs + 1
    /\ chain' = SubSeq(chain, 1, n)
    /\ UNCHANGED <<prunedTo, submits, patchedId, patcher, faults>>

PruneTx ==
    /\ prunedTo < MaxPruned /\ prunedTo < Len(chain)
    /\ prunedTo' = prunedTo + 1
    /\ UNCHANGED <<chain, submits, patchedId, patcher, reorgs, faults>>

Row(fork) == [fork |-> fork, extra |-> fork, gas |-> FALSE]

OnChain(rows) ==
    Len(rows) <= Len(chain) /\ \A i \in DOMAIN rows : rows[i].fork = chain[i]

\* The sync process follows the chain: it adds the next row, or drops the rows
\* from the first orphan on.
Push ==
    /\ OnChain(submits)
    /\ Len(submits) < Len(chain)
    /\ submits' = Append(submits, Row(chain[Len(submits) + 1]))
    /\ UNCHANGED <<chain, prunedTo, patchedId, patcher, reorgs, faults>>

Pop ==
    /\ ~OnChain(submits)
    /\ \E n \in 0..(Len(submits) - 1) :
          /\ OnChain(SubSeq(submits, 1, n)) /\ ~OnChain(SubSeq(submits, 1, n + 1))
          /\ submits' = SubSeq(submits, 1, n)
    /\ UNCHANGED <<chain, prunedTo, patchedId, patcher, reorgs, faults>>

-----------------------------------------------------------------------------
(* The worker.                                                              *)

\* QueryAscWithCursor: the rows from the cursor on.
QueryAscWithCursor ==
    /\ batch = <<>>
    /\ currentSubmitId <= Len(submits)
    /\ LET last == IF Len(submits) < currentSubmitId + Batch - 1
                   THEN Len(submits) ELSE currentSubmitId + Batch - 1
       IN batch' = [k \in 1..(last - currentSubmitId + 1) |->
                       [id |-> currentSubmitId + k - 1, row |-> submits[currentSubmitId + k - 1]]]
    /\ UNCHANGED <<chain, prunedTo, submits, patchedId, currentSubmitId, phase, reorgs, faults>>

\* The next row; after the last one the cursor moves behind it.
Advance ==
    /\ batch' = Tail(batch)
    /\ phase' = "ask"
    /\ currentSubmitId' = IF Len(batch) = 1 THEN Head(batch).id + 1 ELSE currentSubmitId

Known(s) == s.id > prunedTo /\ s.id <= Len(chain) /\ s.row.fork = chain[s.id]

\* TransactionByHash and TransactionReceipt.  A transaction the node does not
\* know, pruned or of another fork, is skipped.
GetTransaction ==
    /\ batch # <<>> /\ phase = "ask"
    /\ IF Known(Head(batch)) THEN phase' = "update" /\ UNCHANGED <<batch, currentSubmitId>>
                             ELSE Advance
    /\ UNCHANGED <<chain, prunedTo, submits, patchedId, reorgs, faults>>

\* UpdateByPrimaryKey: the extra data as read before, with the gas figures, goes
\* to the row that has the index now, if there is one.
UpdateExtra ==
    /\ phase = "update"
    /\ LET s == Head(batch) IN
          submits' = [i \in DOMAIN submits |->
                         IF i = s.id THEN [submits[i] EXCEPT !.extra = s.row.fork, !.gas = TRUE]
                                     ELSE submits[i]]
    /\ phase' = "cursor"
    /\ UNCHANGED <<chain, prunedTo, patchedId, batch, currentSubmitId, reorgs, faults>>

\* Faulty variant of UpsertCursor: the last index of the batch is stored.
UpsertLast ==
    /\ phase = "cursor"
    /\ patchedId' = batch[Len(batch)].id
    /\ Advance
    /\ UNCHANGED <<chain, prunedTo, submits, reorgs, faults>>

\* The cursor is stored row by row.
UpsertCursor ==
    /\ phase = "cursor"
    /\ patchedId' = Head(batch).id
    /\ Advance
    /\ UNCHANGED <<chain, prunedTo, submits, reorgs, faults>>

\* Faulty variant of CallFails: the cursor in memory moves behind the batch.
CallSkips ==
    /\ faults < MaxFaults /\ faults' = faults + 1
    /\ batch # <<>>
    /\ currentSubmitId' = batch[Len(batch)].id + 1
    /\ batch' = <<>> /\ phase' = "ask"
    /\ UNCHANGED <<chain, prunedTo, submits, patchedId, reorgs>>

\* A call that fails ends the batch, which is read again from the same cursor.
CallFails ==
    /\ faults < MaxFaults /\ faults' = faults + 1
    /\ batch # <<>>
    /\ batch' = <<>> /\ phase' = "ask"
    /\ UNCHANGED <<chain, prunedTo, submits, patchedId, currentSubmitId, reorgs>>

\* mustLoadLastSubmitId.
Restart ==
    /\ faults < MaxFaults /\ faults' = faults + 1
    /\ currentSubmitId' = patchedId + 1
    /\ batch' = <<>> /\ phase' = "ask"
    /\ UNCHANGED <<chain, prunedTo, submits, patchedId, reorgs>>

-----------------------------------------------------------------------------
Worker == QueryAscWithCursor \/ GetTransaction \/ UpdateExtra \/ UpsertCursor
Follow == Push \/ Pop

Next ==
    \/ Submit \/ PruneTx \/ \E n \in 0..(Len(chain) - 1) : Reorg(n)
    \/ Follow
    \/ Worker \/ CallFails \/ Restart

Spec == Init /\ [][Next]_vars

\* Both processes are loops that run again after every error.
FairSpec == Spec /\ WF_vars(Follow) /\ WF_vars(Worker)

-----------------------------------------------------------------------------
(* Properties.                                                              *)

Forks == 0..MaxReorgs
Rows == [fork : Forks, extra : Forks, gas : BOOLEAN]

\* Every variable has its type.
TypeOK ==
    /\ chain \in Seq(Forks) /\ prunedTo \in 0..Len(chain)
    /\ submits \in Seq(Rows)
    /\ patchedId \in Nat /\ currentSubmitId \in Nat \ {0}
    /\ batch \in Seq([id : 1..MaxSubmits, row : Rows])
    /\ phase \in {"ask", "update", "cursor"} /\ (phase # "ask" => batch # <<>>)

\* A row of the first fork that the chain still has: no reorganisation has
\* touched it.
Untouched(i) == submits[i].fork = 0 /\ i <= Len(chain) /\ chain[i] = 0

Patched(i) == submits[i].gas \/ i <= prunedTo

\* Neither the cursor in memory nor the stored one passes a row for good that is
\* not patched, unless the node has pruned its transaction or a reorganisation
\* has replaced it.
PassedArePatched ==
    \A i \in DOMAIN submits :
        Untouched(i) /\ (i <= patchedId \/ i < currentSubmitId) => Patched(i)

\* Every row that no reorganisation touches gets its gas figures in the end,
\* when the node still has its transaction.
UntouchedPatched == <>[](\A i \in DOMAIN submits : Untouched(i) => Patched(i))

\* Every row gets its gas figures in the end.
AllPatched == <>[](\A i \in DOMAIN submits : Patched(i))

\* The extra data of a row is of the submission in the row.
ExtraIsOwn == \A i \in DOMAIN submits : submits[i].extra = submits[i].fork
=============================================================================

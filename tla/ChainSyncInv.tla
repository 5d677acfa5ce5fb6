---------------------------- MODULE ChainSyncInv ----------------------------
(***************************************************************************)
(* The inductive invariant behind StoreOnOneBranch: what each phase of the *)
(* sync process may rely on.  It holds, and is proved in ChainSyncProofs,  *)
(* under the assumptions of Stable; TLC checks it on small chains.         *)
(***************************************************************************)
EXTENDS ChainSync

\* The environment under which the claims hold; the violation runs show that
\* each conjunct is needed.
Stable ==
    /\ ~ReorgBeforeCatchup
    /\ ByLogs => ~ReorgDuringFetch /\ DelayBlocksAgainstLatest <= InitHead
    /\ ReorgDuringFetch => "empty" \notin Kinds

F == BlockWhenFlowCreated

Following == Fetching \cup {"tail", "parent", "store"}

\* What each phase knows of the locals it works with.
PhaseInv ==
    /\ phase = "catchup" => finalizedBlock <= finalized
    /\ phase \in Following \ {"tail"} => currentBlock <= endBlock
    /\ phase = "logs" => ByLogs
    /\ phase \in {"logs", "blocks"} => receiptsAt = currentBlock
    /\ phase = "receipts" => ~ByLogs /\ currentBlock <= receiptsAt /\ receiptsAt <= endBlock
    /\ phase \in {"receipts", "parent", "store"} => Fetched

EventsUpTo(m) == {e \in events : e.num <= m}

BranchInv ==
    \A n, m \in DOMAIN blocks : F <= n /\ n <= m => blocks[n] = Hash(blocks[m], n)

\* Every event row lies below some stored block, and below each stored block
\* lie the events of its branch.
EventInv ==
    /\ \A e \in events : F <= e.num /\ \E m \in DOMAIN blocks : e.num <= m
    /\ \A m \in DOMAIN blocks : EventsUpTo(m) = EventsOf(blocks[m], F, m)

\* The stored blocks leave gaps only where the catch-up left them: below a row
\* that was final when it was stored.
GapInv ==
    \A n \in DOMAIN blocks :
        F < n => \/ n - 1 \in DOMAIN blocks
                 \/ n <= finalized /\ blocks[n] = CanonicalHash(n)

DenseFrom(f) ==
    \A n \in DOMAIN blocks : \A m \in F..n : f <= m => m \in DOMAIN blocks

AllLive == \A n \in DOMAIN blocks : F <= n => blocks[n] = CanonicalHash(n)

CatchupInv ==
    /\ phase \in {"range", "catchup"} => AllLive
    /\ phase = "catchup" =>
          /\ rangeStart <= finalizedBlock
          /\ \A n \in DOMAIN blocks : n < rangeStart
          /\ IF EmptyStore THEN rangeStart = F ELSE rangeStart - 1 \in DOMAIN blocks

\* The syncer follows the head from the block after the finalized one, which is
\* stored and which no reorg check reaches.
FollowInv ==
    phase \in Following =>
        /\ finalizedBlock <= finalized /\ finalizedBlock < currentBlock
        /\ DenseFrom(finalizedBlock)
        /\ F <= finalizedBlock =>
              /\ finalizedBlock \in DOMAIN blocks
              /\ blocks[finalizedBlock] = CanonicalHash(finalizedBlock)
        /\ F < currentBlock => currentBlock - 1 \in DOMAIN blocks

\* The blocks of the batch descend from the finalized block, and from the stored
\* one before the batch as long as that one is canonical.
BatchBlocks ==
    phase \in Following \ {"tail"} =>
        \A n \in DOMAIN batch :
            /\ finalizedBlock < n /\ n <= endBlock /\ n <= head
            /\ Hash(batch[n], finalizedBlock) = CanonicalHash(finalizedBlock)
            /\ \A i \in 1..n : batch[n][i].fork <= reorgs

BatchParent ==
    phase \in Fetching \cup {"parent"} =>
        (currentBlock - 1 \in DOMAIN blocks /\ Live(currentBlock - 1) =>
            \A n \in DOMAIN batch : Hash(batch[n], currentBlock - 1) = blocks[currentBlock - 1])

BatchCanonical ==
    phase \in Fetching /\ ~ReorgDuringFetch =>
        \A n \in DOMAIN batch : batch[n] = CanonicalHash(n)

\* The logs are read before the blocks, the receipts after them.
LogsFirst ==
    phase \in {"logs", "blocks"} =>
        /\ ~ByLogs => batchLogs = {}
        /\ ByLogs => endBlock <= head
        /\ ByLogs /\ phase = "blocks" => batchLogs = EventsOf(chain, currentBlock, endBlock)

ReceiptsRead ==
    phase = "receipts" =>
        /\ \A e \in batchLogs : e.num < receiptsAt
        /\ \A n \in currentBlock..(receiptsAt - 1) :
              /\ LogsOf(n) = EventsOf(batch[n], n, n)
              /\ \A m \in DOMAIN batch :
                    n <= m /\ batch[m] = CanonicalHash(m) => batch[n] = Hash(batch[m], n)

\* A complete batch is one branch with the events of its blocks, and once it is
\* checked it extends the stored branch.
BatchReady ==
    /\ phase \in {"parent", "store"} =>
          \A n \in currentBlock..endBlock :
             /\ batch[n] = Hash(batch[endBlock], n)
             /\ LogsOf(n) = EventsOf(batch[n], n, n)
    /\ phase = "store" /\ F < currentBlock =>
          blocks[currentBlock - 1] = Hash(batch[currentBlock], currentBlock - 1)

BatchInv ==
    BatchBlocks /\ BatchParent /\ BatchCanonical /\ LogsFirst /\ ReceiptsRead /\ BatchReady

\* Forks are numbered in the order they open, and a row is never beyond the head.
ForkInv ==
    /\ InitHead <= head
    /\ \A n \in 1..head : chain[n].fork <= reorgs
    /\ \A n \in DOMAIN blocks : n <= head /\ \A i \in 1..n : blocks[n][i].fork <= reorgs

IInv ==
    /\ TypeOK
    /\ PhaseInv
    /\ ForkInv
    /\ BranchInv
    /\ EventInv
    /\ GapInv
    /\ DenseFrom(finalized)
    /\ CatchupInv
    /\ FollowInv
    /\ BatchInv
=============================================================================

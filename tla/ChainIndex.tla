------------------------------ MODULE ChainIndex ------------------------------
(***************************************************************************)
(* What the sync process promises to the readers of the store (the         *)
(* statistics process and the API): at any time the store indexes exactly  *)
(* one branch of the chain, from the block of the flow contract to the     *)
(* branch's last block.  The index grows along the branch, and gives up    *)
(* blocks only while its last block is not on the canonical chain.         *)
(***************************************************************************)
EXTENDS EthNode

VARIABLES
    top,        \* number of the last block of the branch, 0 before the first
    branch,     \* the branch: the hash of its last block
    data        \* the indexed events: records [num, hash]

indexVars == <<top, branch, data>>

\* The data are those of the branch.
Indexes(t, b, d) == d = EventsOf(b, BlockWhenFlowCreated, t)

IndexInit ==
    /\ NodeInit
    /\ top = 0
    /\ branch = Hash(chain, 0)
    /\ data = {}

\* The branch gets longer.
Extend ==
    /\ top' \in Nat /\ top < top'
    /\ branch' \in [1..top' -> Cell]
    /\ Hash(branch', top) = branch
    /\ Indexes(top', branch', data')

\* The branch gets shorter, because its last block has been orphaned.
Rollback ==
    /\ ~(top <= head /\ branch = CanonicalHash(top))
    /\ top' \in 0..(top - 1)
    /\ branch' = Hash(branch, top')
    /\ Indexes(top', branch', data')

NodeStep ==
    \/ \E k \in Kinds : Mine(k)
    \/ \E n \in 1..head : \E kinds \in [n..(head + BranchGain) -> Kinds] : Reorg(n, kinds)
    \/ \E n \in 1..head : Finalize(n)

IndexNext ==
    \/ NodeStep /\ UNCHANGED indexVars
    \/ (Extend \/ Rollback) /\ UNCHANGED nodeVars

IndexSpec == IndexInit /\ [][IndexNext]_<<nodeVars, indexVars>>
=============================================================================

------------------------------- MODULE EthNode -------------------------------
(***************************************************************************)
(* The blockchain full node the scan reads from (an external service), as  *)
(* the code under sync/ and rpc/ uses it: the latest block number, the     *)
(* finalized block, blocks by number, receipts and logs.  The canonical    *)
(* chain grows at its head, and blocks that are not finalized may be       *)
(* replaced by a reorganisation.                                           *)
(*                                                                         *)
(* A block carries the fork that produced it and a kind:                   *)
(*   "empty"  no transaction at all,                                       *)
(*   "idle"   transactions, but no event the scan stores and none it       *)
(*            cannot decode,                                               *)
(*   "busy"   a transaction with an event the scan stores,                 *)
(*   "alien"  such an event beside one of a signature the scan does not    *)
(*            know, as any contract may emit,                              *)
(*   "bare"   such an event beside a log without topics.                   *)
(* A block with a foreign event alone differs from these in its rows only. *)
(* A reorganisation opens a new fork, so an abandoned block never returns. *)
(***************************************************************************)
EXTENDS Integers

CONSTANTS
    Kinds,          \* the kinds of block the chain produces
    BlockWhenFlowCreated,   \* config: block of the flow contract
    InitHead,       \* length of the chain when the scan is first deployed
    BranchGain,     \* by how much a branch that wins is longer than the one it replaces
    MaxHead,        \* bound: longest chain
    MaxReorgs       \* bound: number of reorganisations

ASSUME KindsAssumption == Kinds \subseteq {"empty", "idle", "busy", "alien", "bare"}
ASSUME FlowAssumption == BlockWhenFlowCreated \in Nat
ASSUME InitHeadAssumption == InitHead \in Nat
ASSUME BranchGainAssumption == BranchGain \in Nat
ASSUME NodeBoundsAssumption == MaxHead \in Nat /\ MaxReorgs \in Nat

VARIABLES
    head,           \* latest block number (eth_blockNumber)
    chain,          \* chain[n]: the canonical block at number n \in 1..head
    finalized,      \* number of the finalized block
    reorgs          \* forks opened so far

nodeVars == <<head, chain, finalized, reorgs>>

Cell == [fork : Nat, kind : Kinds]

\* A block hash commits to the block and to every ancestor, so it is modelled
\* as the path of cells that leads to the block.  Hash(c, n) is the hash of
\* block n on the branch c, and Hash(h, n - 1) the parent hash in block h.
Hash(c, n) == [i \in 1..n |-> c[i]]

CanonicalHash(n) == Hash(chain, n)

\* The kinds of block that hold an event the scan stores.
EventKinds == {"busy", "alien", "bare"}

\* The logs of the followed contracts in the blocks from lo to hi of branch c,
\* each with its block: there are none before the flow contract exists.
EventsOf(c, lo, hi) ==
    {[num |-> n, hash |-> Hash(c, n)] :
        n \in {m \in lo..hi : m >= BlockWhenFlowCreated /\ m >= 1 /\ c[m].kind \in EventKinds}}

NodeTypeOK ==
    /\ head \in Nat
    /\ chain \in [1..head -> Cell]
    /\ finalized \in 0..head
    /\ reorgs \in Nat

NodeInit ==
    /\ head = InitHead
    /\ \E kinds \in [1..InitHead -> Kinds] :
          chain = [i \in 1..InitHead |-> [fork |-> 0, kind |-> kinds[i]]]
    /\ finalized \in 0..InitHead
    /\ reorgs = 0

\* A block of kind k is appended to the canonical chain.
Mine(k) ==
    /\ head < MaxHead
    /\ head' = head + 1
    /\ chain' = [i \in 1..(head + 1) |->
                    IF i <= head THEN chain[i] ELSE [fork |-> reorgs, kind |-> k]]
    /\ UNCHANGED <<finalized, reorgs>>

\* The unfinalized blocks n..head give way to a branch that is BranchGain blocks
\* longer: the node never reports a lower head.
Reorg(n, kinds) ==
    /\ reorgs < MaxReorgs
    /\ n \in (finalized + 1)..head
    /\ head' = head + BranchGain
    /\ head' <= MaxHead
    /\ chain' = [i \in 1..head' |->
                    IF i < n THEN chain[i] ELSE [fork |-> reorgs + 1, kind |-> kinds[i]]]
    /\ reorgs' = reorgs + 1
    /\ UNCHANGED finalized

\* Block n, and with it every earlier block, becomes irreversible.
Finalize(n) ==
    /\ n \in (finalized + 1)..head
    /\ finalized' = n
    /\ UNCHANGED <<head, chain, reorgs>>
=============================================================================

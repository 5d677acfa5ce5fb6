----------------------------- MODULE EventStore -----------------------------
(***************************************************************************)
(* The tables of events: how the logs of a block become rows               *)
(* (sync/base_sync.go, convertLogs) and how a block is stored and removed  *)
(* (store/store.go, Push and Pop).  Addresses, miners and clients are      *)
(* added as the logs are converted, and partitions before the transaction; *)
(* these stay when the transaction fails.  In the transaction all rows are *)
(* inserted first, then signers and DA submissions are updated in place.   *)
(* A row of another block is refused by its primary key alone.  Blocks are *)
(* stored one after the other and removed from the tip: which blocks, is   *)
(* the subject of ChainSync.  Submissions and epochs of the flow contract  *)
(* are numbered in one sequence, as the primary keys of their tables       *)
(* suppose; the quorum and epoch of a DA event are one value.              *)
(***************************************************************************)
EXTENDS Integers, Sequences, FiniteSets, SequencesExt

CONSTANTS
    Contents,           \* the events that may be read of a block: its logs of the
                        \* followed contracts, and by receipts the "foreign" ones too
    PartitionSize,      \* submitPartitionSize
    EpochAtPartition,   \* may an epoch take the first index of a partition?
    MaxBlocks,          \* bound: length of the chain
    MaxReorgs,          \* bound: reorganisations
    MaxFaults           \* bound: failed statements and transactions

\* How a log of each type is decoded: the tables that get a row of it, the addresses
\* in it that get an id, and whether its account becomes a miner or a client.
decodeSubmit == [tables |-> {"submits", "address_submits"}, ids |-> {"by"}, role |-> "any"]
decodeFlowEpoch == [tables |-> {"flow_epochs"}, ids |-> {"by"}, role |-> "any"]
decodeReward == [tables |-> {"rewards", "address_rewards"}, ids |-> {"by"}, role |-> "miner"]
decodeNewMinerId == [tables |-> {"miner_registers"}, ids |-> {"by"}, role |-> "any"]
decodeUpdateMinerId == [tables |-> {"miner_registers"}, ids |-> {"by", "what"}, role |-> "any"]
decodeNewSigner == [tables |-> {"da_signers"}, ids |-> {"by"}, role |-> "any"]
decodeDataUpload == [tables |-> {"da_submits"}, ids |-> {"by"}, role |-> "client"]
decodeDAReward == [tables |-> {"da_rewards"}, ids |-> {"by"}, role |-> "any"]
\* These two change rows that are there.
decodeSocketUpdated == [tables |-> {}, ids |-> {"by"}, role |-> "any"]
decodeCommitVerified == [tables |-> {}, ids |-> {}, role |-> "any"]

\* What no case is for, an event of an unknown signature or a log without topics.
Undecoded == [tables |-> {}, ids |-> {}, role |-> "any"]

Decoded ==
    [foreign |-> Undecoded, submit |-> decodeSubmit, epoch |-> decodeFlowEpoch,
     reward |-> decodeReward, register |-> decodeNewMinerId, update |-> decodeUpdateMinerId, signer |-> decodeNewSigner,
     socket |-> decodeSocketUpdated, upload |-> decodeDataUpload,
     verified |-> decodeCommitVerified, paid |-> decodeDAReward]

\* The primary key of each table.
Submit == {"index"}
AddressSubmit == {"by", "index"}
FlowEpoch == {"index"}
Reward == {"block", "by", "what"}
AddressReward == {"by", "block", "what"}
MinerRegister == {"block", "pos"}
DASigner == {"by"}
DASubmit == {"block", "by"}
DAReward == {"block", "by"}

KeyOf ==
    [submits |-> Submit, address_submits |-> AddressSubmit, flow_epochs |-> FlowEpoch,
     rewards |-> Reward, address_rewards |-> AddressReward, miner_registers |-> MinerRegister,
     da_signers |-> DASigner, da_submits |-> DASubmit, da_rewards |-> DAReward]

Tables == DOMAIN KeyOf

ASSUME EventStoreAssumption ==
    /\ \A es \in Contents :
          /\ Len(es) \in Nat /\ DOMAIN es = 1..Len(es)
          /\ \A p \in DOMAIN es :
                DOMAIN es[p] = {"type", "by", "what"} /\ es[p].type \in DOMAIN Decoded
    /\ PartitionSize \in Nat \ {0} /\ EpochAtPartition \in BOOLEAN
    /\ {MaxBlocks, MaxReorgs, MaxFaults} \subseteq Nat

VARIABLES
    chain,      \* the canonical blocks: [id, first index, events]
    blocks,     \* table blocks
    rows,       \* for each table, its rows: [block, pos, index, type, by, what]
    sockets,    \* column socket of the rows of da_signers
    verified,   \* the rows of da_submits whose column verified is set
    addresses, miners, clients,     \* ids of these tables
    partitions, \* the partitions of submits, in their order: [index, threshold]
    phase,      \* "convert", "partition", "push"
    current,    \* the block of the round, or Genesis
    undone,     \* for the properties: has a block been removed that had changed rows of others?
    reorgs, faults

chainVars == <<chain, reorgs>>
tableVars == <<blocks, rows, sockets, verified>>
partyVars == <<addresses, miners, clients>>
vars == <<chainVars, tableVars, partyVars, partitions, phase, current, undone, faults>>

None == -1
Genesis == [id |-> 0, first |-> 0, events |-> <<>>]

Init ==
    /\ chain = <<>> /\ reorgs = 0
    /\ blocks = <<>> /\ rows = [t \in Tables |-> {}]
    /\ sockets = [r \in {} |-> ""] /\ verified = {}
    /\ addresses = {} /\ miners = {} /\ clients = {}
    /\ partitions = <<>> /\ phase = "convert" /\ current = Genesis
    /\ undone = FALSE /\ faults = 0

-----------------------------------------------------------------------------
(* The chain.                                                               *)

Numbered(e) == e.type \in {"submit", "epoch"}

\* The index of the event at p, or of the next one.
IndexAt(block, p) == block.first + Cardinality({q \in 1..(p - 1) : Numbered(block.events[q])})

\* A signer registers once.
Registered(branch, s) ==
    \E n \in DOMAIN branch : \E p \in DOMAIN branch[n].events :
        branch[n].events[p].type = "signer" /\ branch[n].events[p].by = s

\* The block with these events behind the branch.
BlockAfter(branch, es, id) ==
    LET parent == IF branch = <<>> THEN Genesis ELSE Last(branch)
    IN [id |-> id, first |-> IndexAt(parent, Len(parent.events) + 1), events |-> es]

Valid(branch, block) ==
    \A p \in DOMAIN block.events :
        LET e == block.events[p]
        IN /\ e.type = "signer" => ~Registered(branch, e.by)
           /\ e.type = "epoch" /\ ~EpochAtPartition => IndexAt(block, p) % PartitionSize # 0

\* The chain grows, or a block takes the place of its last ones.
Extend(n) ==
    /\ n <= MaxBlocks
    /\ n <= Len(chain) => reorgs < MaxReorgs
    /\ reorgs' = reorgs + (IF n <= Len(chain) THEN 1 ELSE 0)
    /\ \E es \in Contents :
          LET branch == SubSeq(chain, 1, n - 1)
              block == BlockAfter(branch, es, reorgs')
          IN /\ Valid(branch, block)
             /\ chain' = Append(branch, block)
    /\ UNCHANGED <<tableVars, partyVars, partitions, phase, current, undone, faults>>

-----------------------------------------------------------------------------
(* A round of the sync process.                                             *)

\* AddressStore.Add: who must have an id before the event can be a row.
Parties(e) == {e[column] : column \in Decoded[e.type].ids}

\* MinerStore.Add, DAClientStore.Add.
With(role, es) == {e.by : e \in {d \in es : Decoded[d.type].role = role}}

\* The default case of convertLogs is an error, and a log without topics a panic.
Decodable(e) == e.type # "foreign"

\* The first p events of the block are decoded.  Its logs were read from the chain;
\* when one of the statements fails the round ends, and so it does at an event that
\* cannot be decoded, which the next round meets again.
Convert ==
    /\ phase = "convert" /\ IsPrefix(blocks, chain) /\ Len(blocks) < Len(chain)
    /\ LET block == chain[Len(blocks) + 1]
       IN \E p \in 0..Len(block.events) :
          LET decoded == {block.events[q] : q \in 1..p}
              complete == p = Len(block.events)
              stopped == ~complete /\ ~Decodable(block.events[p + 1])
          IN /\ \A e \in decoded : Decodable(e)
             /\ complete \/ stopped \/ faults < MaxFaults
             /\ faults' = faults + (IF complete \/ stopped THEN 0 ELSE 1)
             /\ current' = IF complete THEN block ELSE Genesis
             /\ addresses' = addresses \cup UNION {Parties(e) : e \in decoded}
             /\ miners' = miners \cup With("miner", decoded)
             /\ clients' = clients \cup With("client", decoded)
             /\ phase' = IF complete THEN "partition" ELSE "convert"
    /\ UNCHANGED <<chainVars, tableVars, partitions, undone>>

\* The indexes of the submissions of the block, in their order.
Submitted(block) ==
    [k \in 1..Len(SelectSeq(block.events, LAMBDA e : e.type = "submit")) |->
        CHOOSE i \in {IndexAt(block, p) : p \in {q \in DOMAIN block.events :
                                                    block.events[q].type = "submit"}} :
            Cardinality({p \in DOMAIN block.events :
                block.events[p].type = "submit" /\ IndexAt(block, p) < i}) = k - 1]

\* The partition of an index holds what is below its threshold.
PartitionOf(index) == [index |-> index, threshold |-> (index + 1) * PartitionSize]

\* latestPartition and indexOfPartition.
LatestPartition(ps) == IF ps = <<>> THEN None ELSE Last(ps).index

\* The table is partitioned with the first submission.
Converted(ps, i) == IF ps = <<>> THEN <<PartitionOf(i \div PartitionSize)>> ELSE ps

\* Faulty variant of AddPartition: one partition is taken to be there in advance.
AddNext(ps, i) ==
    IF i % PartitionSize # 0 \/ i \div PartitionSize <= LatestPartition(ps) + 1
    THEN ps ELSE Append(ps, PartitionOf(i \div PartitionSize))

\* The first index of a partition adds it.
AddPartition(ps, i) ==
    IF i % PartitionSize # 0 \/ i \div PartitionSize <= LatestPartition(ps)
    THEN ps ELSE Append(ps, PartitionOf(i \div PartitionSize))

\* Each partition is added by a statement that commits: when one fails, those before
\* it stay.
PreparePartition ==
    /\ phase = "partition"
    /\ LET indexes == Submitted(current)
           needed == IF indexes = <<>> THEN partitions
                     ELSE FoldLeft(AddPartition, Converted(partitions, indexes[1]), indexes)
       IN \E k \in Len(partitions)..Len(needed) :
             /\ k = Len(needed) \/ faults < MaxFaults
             /\ faults' = faults + (IF k = Len(needed) THEN 0 ELSE 1)
             /\ partitions' = SubSeq(needed, 1, k)
             /\ phase' = IF k = Len(needed) THEN "push" ELSE "convert"
             /\ current' = IF k = Len(needed) THEN current ELSE Genesis
    /\ UNCHANGED <<chainVars, tableVars, partyVars, undone>>

\* Two uploads of a block with one root are one row.
Kept(block, p) ==
    block.events[p].type = "upload" =>
        \A q \in 1..(p - 1) : ~(/\ block.events[q].type = "upload"
                                /\ block.events[q].what = block.events[p].what)

\* The rows of block n for table t.
RowsOf(t, block, n) ==
    {[block |-> n, pos |-> p, index |-> IndexAt(block, p), type |-> block.events[p].type,
      by |-> block.events[p].by, what |-> block.events[p].what] :
        p \in {q \in DOMAIN block.events : t \in Decoded[block.events[q].type].tables /\ Kept(block, q)}}

PrimaryKey(t, r) == [column \in KeyOf[t] |-> r[column]]

\* No key is taken, and every submission has its partition.
Fits(block, n) ==
    /\ \A t \in Tables : \A r \in RowsOf(t, block, n) :
          \A s \in rows[t] \cup RowsOf(t, block, n) : PrimaryKey(t, s) = PrimaryKey(t, r) => s = r
    /\ \A r \in RowsOf("submits", block, n) : r.index < Last(partitions).threshold

\* The events of a block that set the socket of a signer; the last one stays.
SocketsOf(block, s) ==
    {p \in DOMAIN block.events : block.events[p].type = "socket" /\ block.events[p].by = s}

SocketAfter(block, s, before) ==
    IF SocketsOf(block, s) = {} THEN before ELSE block.events[Max(SocketsOf(block, s))].what

\* DASignerStore.UpdateByPrimaryKey: in the order of the logs, where there is a row.
WithSockets(signers, block) ==
    [r \in signers |->
        SocketAfter(block, r.by, IF r \in DOMAIN sockets THEN sockets[r] ELSE "")]

\* DASubmitStore.UpdateByPrimaryKey: every row with the root.
VerifiedBy(uploads, block) ==
    {r \in uploads : \E p \in DOMAIN block.events :
        block.events[p].type = "verified" /\ block.events[p].what = r.what}

\* Faulty variant of Updated: the rows of the block itself are not there yet.
UpdatedFirst(added, block) ==
    /\ sockets' = [r \in added["da_signers"] |->
                      IF r \in rows["da_signers"] THEN WithSockets(rows["da_signers"], block)[r] ELSE ""]
    /\ verified' = verified \cup VerifiedBy(rows["da_submits"], block)

\* The changes in place, after all rows are added.
Updated(added, block) ==
    /\ sockets' = WithSockets(added["da_signers"], block)
    /\ verified' = verified \cup VerifiedBy(added["da_submits"], block)

\* The transaction.
Push ==
    /\ phase = "push" /\ phase' = "convert" /\ current' = Genesis
    /\ LET n == Len(blocks) + 1
           added == [t \in Tables |-> rows[t] \cup RowsOf(t, current, n)]
       IN /\ Fits(current, n)
          /\ rows' = added /\ Updated(added, current)
    /\ blocks' = Append(blocks, current)
    /\ UNCHANGED <<chainVars, partyVars, partitions, undone, faults>>

\* A key is taken or a partition is missing; the round starts again.
Refused ==
    /\ phase = "push" /\ phase' = "convert" /\ current' = Genesis
    /\ ~Fits(current, Len(blocks) + 1)
    /\ UNCHANGED <<chainVars, tableVars, partyVars, partitions, undone, faults>>

\* The transaction fails, or the process restarts.
RoundFails ==
    /\ faults < MaxFaults /\ faults' = faults + 1
    /\ phase # "convert" /\ phase' = "convert" /\ current' = Genesis
    /\ UNCHANGED <<chainVars, tableVars, partyVars, partitions, undone>>

Changes(block) == \E p \in DOMAIN block.events : block.events[p].type \in {"socket", "verified"}

\* Faulty variant of Below: the rows of the block itself stay.
UpToTip(rs, n) == {r \in rs : r.block <= n}

Below(rs, n) == {r \in rs : r.block < n}

\* The tip is not on the chain any more: its rows are removed from every table.
Pop ==
    /\ phase = "convert" /\ ~IsPrefix(blocks, chain)
    /\ LET n == Len(blocks)
       IN /\ rows' = [t \in Tables |-> Below(rows[t], n)]
          /\ sockets' = [r \in Below(DOMAIN sockets, n) |-> sockets[r]]
          /\ verified' = Below(verified, n)
          /\ undone' = (undone \/ Changes(blocks[n]))
    /\ blocks' = Front(blocks)
    /\ UNCHANGED <<chainVars, partyVars, partitions, phase, current, faults>>

-----------------------------------------------------------------------------
Sync == Convert \/ PreparePartition \/ Push \/ Refused \/ Pop

Next == (\E n \in 1..MaxBlocks : n <= Len(chain) + 1 /\ Extend(n)) \/ Sync \/ RoundFails

Spec == Init /\ [][Next]_vars

\* The process goes on after every error.
FairSpec == Spec /\ WF_vars(Sync)

-----------------------------------------------------------------------------
(* Properties.                                                              *)

\* Every variable has its type.
TypeOK ==
    /\ reorgs \in 0..MaxReorgs /\ faults \in 0..MaxFaults
    /\ \A t \in Tables : \A r \in rows[t] : r.block \in DOMAIN blocks /\ r.type \in DOMAIN Decoded
    /\ DOMAIN sockets = rows["da_signers"] /\ verified \subseteq rows["da_submits"]
    /\ \A k \in 2..Len(partitions) : partitions[k - 1].threshold < partitions[k].threshold
    /\ phase \in {"convert", "partition", "push"}

\* The nine tables hold the rows of the stored blocks, of each of them and of no
\* other, whatever was stored, refused and removed before; and nobody is in a
\* row who has no id.
RowsFollow ==
    \A t \in Tables :
        /\ rows[t] = UNION {RowsOf(t, blocks[n], n) : n \in DOMAIN blocks}
        /\ \A r \in rows[t] : Parties(r) \subseteq addresses
        /\ \A r \in rows[t] : t = "rewards" => r.by \in miners
        /\ \A r \in rows[t] : t = "da_submits" => r.by \in clients

\* The stored blocks that set the socket of a signer, from the one that registers it.
Setting(r) == {n \in r.block..Len(blocks) : SocketsOf(blocks[n], r.by) # {}}

\* What they leave in it.
LastSocket(r) ==
    IF Setting(r) = {} THEN "" ELSE SocketAfter(blocks[Max(Setting(r))], r.by, "")

\* The rows that are changed in place have the last socket of their signer, and
\* are verified when a block that is not older verifies their root.
InPlaceFollows ==
    /\ \A r \in rows["da_signers"] : sockets[r] = LastSocket(r)
    /\ \A r \in rows["da_submits"] :
          r \in verified <=> \E n \in r.block..Len(blocks) : r \in VerifiedBy({r}, blocks[n])

\* So it is as long as no block is removed that had changed a row.
UpdatesFollow == ~undone => InPlaceFollows

\* The same wherever blocks are removed.
UpdatesAlwaysFollow == InPlaceFollows

\* Every stored upload has a row of its sender.
UploadsKept ==
    \A n \in DOMAIN blocks : \A p \in DOMAIN blocks[n].events :
        LET e == blocks[n].events[p]
        IN e.type = "upload" =>
              \E r \in rows["da_submits"] :
                  r.block = n /\ r.by = e.by /\ r.what = e.what

\* Two rows of a block may have one key: two blobs of one sender with different roots.
OneRowPerKey(block) ==
    \A t \in Tables : \A r, s \in RowsOf(t, block, 1) : PrimaryKey(t, r) = PrimaryKey(t, s) => r = s

\* A block the tables can take, all of which the scan understands.
Storable(block) ==
    OneRowPerKey(block) /\ \A p \in DOMAIN block.events : Decodable(block.events[p])

\* In the end every block is stored up to the first that is not storable: no failure, no
\* partition, no row of another block and nothing a removed or refused block left behind
\* stands in the way (convertLogs, preparePartition, Push).  What does, in every round, is a
\* block with an event the scan does not know or with two rows of one key.
ChainStored ==
    <>[](\/ blocks = chain
         \/ IsStrictPrefix(blocks, chain) /\ ~Storable(chain[Len(blocks) + 1]))

\* Every block gets stored, whatever it holds.
EveryBlockStored == <>[](blocks = chain)
=============================================================================

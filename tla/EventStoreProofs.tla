-------------------------- MODULE EventStoreProofs --------------------------
(***************************************************************************)
(* Proofs about the tables of events: for any blocks, however they are     *)
(* stored, refused, reorganised and removed, the rows are those of the     *)
(* stored blocks, and what is changed in place follows them as long as no  *)
(* block is removed that had changed a row.                                *)
(***************************************************************************)
EXTENDS EventStore, FoldLemmas, SequenceTheorems

Block == [id : Nat, first : Nat, events : Contents]

\* Everybody the events of a block name has an id.
Known(block) ==
    \A p \in DOMAIN block.events :
        LET e == block.events[p]
        IN /\ Parties(e) \subseteq addresses
           /\ Decoded[e.type].role = "miner" => e.by \in miners
           /\ Decoded[e.type].role = "client" => e.by \in clients

\* The chain and the stored blocks are sequences of blocks; a block about to be stored is
\* converted.
BlocksOK ==
    /\ chain \in Seq(Block) /\ blocks \in Seq(Block) /\ reorgs \in Nat
    /\ phase # "convert" => current \in Block /\ Known(current)
    /\ \A n \in DOMAIN blocks : Known(blocks[n])

\* The rows of each table are those of the stored blocks.
RowsOfBlocks ==
    rows = [t \in Tables |-> UNION {RowsOf(t, blocks[n], n) : n \in DOMAIN blocks}]

\* The columns that are changed in place belong to rows.
InPlaceOK ==
    /\ DOMAIN sockets = rows["da_signers"]
    /\ verified \subseteq rows["da_submits"]

IInv == BlocksOK /\ RowsOfBlocks /\ InPlaceOK /\ UpdatesFollow

-----------------------------------------------------------------------------
(* Events and rows.                                                         *)

LEMMA EventsOK ==
    ASSUME NEW b \in Block
    PROVE  /\ Len(b.events) \in Nat /\ DOMAIN b.events = 1..Len(b.events)
           /\ \A p \in DOMAIN b.events :
                 /\ DOMAIN b.events[p] = {"type", "by", "what"}
                 /\ b.events[p].type \in DOMAIN Decoded
  BY EventStoreAssumption DEF EventStoreAssumption, Block

\* A row has the columns of its event, and the number of its block.
LEMMA RowOfEvent ==
    ASSUME NEW t \in Tables, NEW b \in Block, NEW n, NEW r \in RowsOf(t, b, n)
    PROVE  \E p \in DOMAIN b.events :
              /\ t \in Decoded[b.events[p].type].tables
              /\ r.block = n /\ r.type = b.events[p].type /\ r.by = b.events[p].by
              /\ r.what = b.events[p].what
  BY DEF RowsOf

LEMMA ThreeTables == {"rewards", "da_submits", "da_signers"} \subseteq Tables
  BY DEF Tables, KeyOf

\* Who is in a row of a block whose parties are known has an id.
LEMMA KnownRows ==
    ASSUME NEW b \in Block, Known(b), NEW n, NEW t \in Tables, NEW r \in RowsOf(t, b, n)
    PROVE  /\ Parties(r) \subseteq addresses
           /\ t = "rewards" => r.by \in miners
           /\ t = "da_submits" => r.by \in clients
  <1>1. PICK p \in DOMAIN b.events :
            /\ t \in Decoded[b.events[p].type].tables
            /\ r.type = b.events[p].type /\ r.by = b.events[p].by
            /\ r.what = b.events[p].what
      BY RowOfEvent
  <1>2. b.events[p].type \in DOMAIN Decoded  BY <1>1, EventsOK
  <1>3. Decoded[b.events[p].type].ids \subseteq {"by", "what"}
      BY <1>2 DEF Decoded, Undecoded, decodeSubmit, decodeFlowEpoch, decodeReward, decodeNewMinerId,
                  decodeUpdateMinerId, decodeNewSigner, decodeDataUpload, decodeDAReward,
                  decodeSocketUpdated, decodeCommitVerified
  <1>4. Parties(r) = Parties(b.events[p])
    <2>1. \A c \in Decoded[b.events[p].type].ids : r[c] = b.events[p][c]
        BY <1>1, <1>3
    <2> QED  BY <1>1, <2>1 DEF Parties
  <1>5. /\ t = "rewards" => Decoded[b.events[p].type].role = "miner"
        /\ t = "da_submits" => Decoded[b.events[p].type].role = "client"
      BY <1>1, <1>2
         DEF Decoded, Undecoded, decodeSubmit, decodeFlowEpoch, decodeReward, decodeNewMinerId,
             decodeUpdateMinerId, decodeNewSigner, decodeDataUpload, decodeDAReward,
             decodeSocketUpdated, decodeCommitVerified
  <1> QED  BY <1>1, <1>4, <1>5 DEF Known

\* The rows follow the blocks, and everybody in them is known.
LEMMA InvRows == IInv => RowsFollow
  <1> SUFFICES ASSUME IInv, NEW t \in Tables
               PROVE  /\ rows[t] = UNION {RowsOf(t, blocks[n], n) : n \in DOMAIN blocks}
                      /\ \A r \in rows[t] : /\ Parties(r) \subseteq addresses
                                            /\ t = "rewards" => r.by \in miners
                                            /\ t = "da_submits" => r.by \in clients
      BY DEF RowsFollow
  <1>1. rows[t] = UNION {RowsOf(t, blocks[n], n) : n \in DOMAIN blocks}
      BY DEF IInv, RowsOfBlocks
  <1>2. ASSUME NEW r \in rows[t]
        PROVE  /\ Parties(r) \subseteq addresses
               /\ t = "rewards" => r.by \in miners
               /\ t = "da_submits" => r.by \in clients
    <2>1. PICK n \in DOMAIN blocks : r \in RowsOf(t, blocks[n], n)  BY <1>1
    <2>2. blocks[n] \in Block /\ Known(blocks[n])  BY DEF IInv, BlocksOK
    <2> QED  BY <2>1, <2>2, KnownRows
  <1> QED  BY <1>1, <1>2

-----------------------------------------------------------------------------
(* The steps.                                                               *)

LEMMA InitInv == Init => IInv
  <1> SUFFICES ASSUME Init PROVE IInv  OBVIOUS
  <1>1. BlocksOK  BY DEF Init, BlocksOK
  <1>2. RowsOfBlocks
    <2>1. DOMAIN blocks = {}  BY DEF Init
    <2> QED  BY <2>1 DEF Init, RowsOfBlocks
  <1>3. InPlaceOK  BY ThreeTables DEF Init, InPlaceOK
  <1>4. InPlaceFollows
      BY ThreeTables DEF Init, InPlaceFollows
  <1> QED  BY <1>1, <1>2, <1>3, <1>4 DEF IInv, UpdatesFollow

\* What a step that leaves the tables alone keeps.
LEMMA TablesKept ==
    ASSUME IInv, UNCHANGED <<tableVars, undone>>
    PROVE  RowsOfBlocks' /\ InPlaceOK' /\ UpdatesFollow'
  <1>1. blocks' = blocks /\ rows' = rows /\ sockets' = sockets /\ verified' = verified
      BY DEF tableVars
  <1>2. RowsOfBlocks' /\ InPlaceOK'
      BY <1>1 DEF IInv, RowsOfBlocks, InPlaceOK
  <1>3. \A r : Setting(r)' = Setting(r)  BY <1>1 DEF Setting
  <1>4. \A r : LastSocket(r)' = LastSocket(r)  BY <1>1, <1>3 DEF LastSocket
  <1>5. UpdatesFollow'  BY <1>1, <1>4 DEF IInv, UpdatesFollow, InPlaceFollows
  <1> QED  BY <1>2, <1>5

\* The first blocks of a sequence.
LEMMA BeginOf ==
    ASSUME NEW s \in Seq(Block), NEW k \in Int, 0 <= k, k <= Len(s)
    PROVE  /\ SubSeq(s, 1, k) \in Seq(Block) /\ Len(SubSeq(s, 1, k)) = k
           /\ \A i \in 1..k : SubSeq(s, 1, k)[i] = s[i]
  <1>1. Len(s) \in Nat  BY LenProperties
  <1>2. \A i \in 1..k : s[i] \in Block  BY <1>1, ElementOfSeq
  <1>3. 1 \in Int /\ k - 1 + 1 = k /\ \A i \in 1..k : 1 + i - 1 = i  OBVIOUS
  <1> QED  BY <1>2, <1>3, SubSeqProperties

\* A block that comes next is one.
LEMMA NextBlock ==
    ASSUME NEW branch \in Seq(Block), NEW es \in Contents, NEW id \in Nat
    PROVE  BlockAfter(branch, es, id) \in Block
  <1> DEFINE parent == IF branch = <<>> THEN Genesis ELSE Last(branch)
  <1>1. parent.first \in Nat /\ Len(parent.events) \in Nat
    <2>1. CASE branch = <<>>  BY <2>1 DEF Genesis
    <2>2. CASE branch # <<>>
      <3>1. Last(branch) \in Block  BY <2>2, LenProperties, ElementOfSeq DEF Last
      <3> QED  BY <2>2, <3>1, EventsOK DEF Block
    <2> QED  BY <2>1, <2>2
  <1>2. IndexAt(parent, Len(parent.events) + 1) \in Nat
    <2> DEFINE L == Len(parent.events)
               C == {q \in 1..(L + 1 - 1) : Numbered(parent.events[q])}
    <2>1. IsFiniteSet(1..(L + 1 - 1))
      <3>1. 1 \in Int /\ L + 1 - 1 \in Int  BY <1>1
      <3> QED  BY <3>1, FS_Interval
    <2>2. IsFiniteSet(C)  BY <2>1, FS_Subset
    <2>3. Cardinality(C) \in Nat  BY <2>2, FS_CardinalityType
    <2>4. IndexAt(parent, L + 1) = parent.first + Cardinality(C)  BY DEF IndexAt
    <2> HIDE DEF parent, C
    <2> QED  BY <1>1, <2>3, <2>4
  <1> QED  BY <1>2 DEF BlockAfter, Block

LEMMA ExtendInv ==
    ASSUME IInv, NEW n \in 1..MaxBlocks, n <= Len(chain) + 1, Extend(n)
    PROVE  IInv'
  <1>1. chain \in Seq(Block) /\ n \in Nat /\ Len(chain) \in Nat
      BY LenProperties, EventStoreAssumption DEF IInv, BlocksOK, EventStoreAssumption
  <1>2. reorgs' \in Nat  BY DEF Extend, IInv, BlocksOK
  <1>3. PICK es \in Contents :
            chain' = Append(SubSeq(chain, 1, n - 1), BlockAfter(SubSeq(chain, 1, n - 1), es, reorgs'))
      BY DEF Extend
  <1>4. SubSeq(chain, 1, n - 1) \in Seq(Block)
      BY <1>1, BeginOf
  <1>5. chain' \in Seq(Block)
      BY <1>2, <1>3, <1>4, NextBlock, AppendProperties
  <1> QED
      BY <1>2, <1>5, TablesKept DEF Extend, IInv, BlocksOK, Known, tableVars, partyVars

\* Who is known stays known.
LEMMA ConvertInv == ASSUME IInv, Convert PROVE IInv'
  <1>1. Len(blocks) \in Nat /\ Len(chain) \in Nat /\ Len(blocks) < Len(chain)
      BY LenProperties DEF Convert, IInv, BlocksOK
  <1> DEFINE block == chain[Len(blocks) + 1]
  <1>2. block \in Block  BY <1>1, ElementOfSeq DEF IInv, BlocksOK
  <1>3. PICK p \in 0..Len(block.events) :
            LET decoded == {block.events[q] : q \in 1..p}
            IN /\ addresses' = addresses \cup UNION {Parties(e) : e \in decoded}
               /\ miners' = miners \cup With("miner", decoded)
               /\ clients' = clients \cup With("client", decoded)
               /\ current' = IF p = Len(block.events) THEN block ELSE Genesis
               /\ phase' = IF p = Len(block.events) THEN "partition" ELSE "convert"
      BY DEF Convert
  <1> HIDE DEF block
  <1>4. addresses \subseteq addresses' /\ miners \subseteq miners' /\ clients \subseteq clients'
      BY <1>3
  <1>5. \A b : Known(b) => Known(b)'  BY <1>4 DEF Known
  <1>6. phase' # "convert" => current' \in Block /\ Known(current)'
    <2> SUFFICES ASSUME phase' # "convert" PROVE current' \in Block /\ Known(current)'  OBVIOUS
    <2>1. p = Len(block.events) /\ current' = block  BY <1>3
    <2>2. \A q \in DOMAIN block.events : block.events[q] \in {block.events[k] : k \in 1..p}
        BY <1>2, <2>1, EventsOK
    <2>3. ASSUME NEW q \in DOMAIN block.events
          PROVE  /\ Parties(block.events[q]) \subseteq addresses'
                 /\ Decoded[block.events[q].type].role = "miner" => block.events[q].by \in miners'
                 /\ Decoded[block.events[q].type].role = "client" => block.events[q].by \in clients'
      <3>1. Parties(block.events[q]) \subseteq addresses'  BY <1>3, <2>2
      <3>2. Decoded[block.events[q].type].role = "miner" => block.events[q].by \in miners'
          BY <1>3, <2>2 DEF With
      <3>3. Decoded[block.events[q].type].role = "client" => block.events[q].by \in clients'
          BY <1>3, <2>2 DEF With
      <3> QED  BY <3>1, <3>2, <3>3
    <2>4. Known(current)'  BY <2>1, <2>3 DEF Known
    <2> QED  BY <1>2, <2>1, <2>4
  <1>7. BlocksOK'
      BY <1>5, <1>6 DEF Convert, IInv, BlocksOK, chainVars, tableVars
  <1> QED
      BY <1>7, TablesKept DEF Convert, IInv

LEMMA PartitionInv == ASSUME IInv, PreparePartition PROVE IInv'
  <1>1. /\ UNCHANGED <<chainVars, tableVars, partyVars, undone>>
        /\ phase' # "convert" => phase = "partition" /\ current' = current
      BY DEF PreparePartition
  <1> QED
      BY <1>1, TablesKept DEF IInv, BlocksOK, Known, tableVars, chainVars, partyVars

LEMMA FailInv == ASSUME IInv, Refused \/ RoundFails PROVE IInv'
  <1>1. UNCHANGED <<chainVars, tableVars, partyVars, undone>> /\ phase' = "convert"
      BY DEF Refused, RoundFails
  <1> QED
      BY <1>1, TablesKept DEF IInv, BlocksOK, Known, tableVars, chainVars, partyVars

\* The largest of the positions of a socket event, and of the blocks that have one.
LEMMA LastSocketEvent ==
    ASSUME NEW b \in Block, NEW s, SocketsOf(b, s) # {}
    PROVE  Max(SocketsOf(b, s)) \in DOMAIN b.events
  <1>1. SocketsOf(b, s) \subseteq 0..Len(b.events) /\ Len(b.events) \in Nat
      BY EventsOK DEF SocketsOf
  <1>2. Max(SocketsOf(b, s)) \in SocketsOf(b, s)  BY <1>1, LargestElement
  <1> QED  BY <1>2 DEF SocketsOf

\* The transaction adds the rows of the block and updates what it changes.
LEMMA PushInv == ASSUME IInv, Push PROVE IInv'
  <1> DEFINE n == Len(blocks) + 1
             added == [t \in Tables |-> rows[t] \cup RowsOf(t, current, n)]
  <1>1. /\ current \in Block /\ Known(current) /\ blocks \in Seq(Block)
        /\ \A k \in DOMAIN blocks : Known(blocks[k])
      BY DEF Push, IInv, BlocksOK
  <1>2. Len(blocks) \in Nat /\ DOMAIN blocks = 1..Len(blocks)  BY <1>1, LenProperties
  <1>3. blocks' = Append(blocks, current)  BY DEF Push
  <1>4. /\ blocks' \in Seq(Block) /\ Len(blocks') = n /\ DOMAIN blocks' = 1..n
        /\ blocks'[n] = current /\ \A k \in 1..Len(blocks) : blocks'[k] = blocks[k]
      BY <1>1, <1>2, <1>3, AppendProperties, LenProperties
  <1>5. /\ rows' = added
        /\ sockets' = WithSockets(added["da_signers"], current)
        /\ verified' = verified \cup VerifiedBy(added["da_submits"], current)
      BY DEF Push, Updated
  <1>6. UNCHANGED <<chain, reorgs, addresses, miners, clients, undone>> /\ phase' = "convert"
      BY DEF Push, chainVars, partyVars
  <1>7. BlocksOK'
    <2>1. \A k \in DOMAIN blocks' : Known(blocks'[k])
        BY <1>1, <1>2, <1>4
    <2>2. \A k \in DOMAIN blocks' : Known(blocks[k])'
        BY <1>6, <2>1 DEF Known
    <2> QED  BY <1>4, <1>6, <2>2 DEF IInv, BlocksOK
  <1>8. RowsOfBlocks'
    <2>1. ASSUME NEW t \in Tables
          PROVE  added[t] = UNION {RowsOf(t, blocks'[k], k) : k \in DOMAIN blocks'}
      <3>1. rows[t] = UNION {RowsOf(t, blocks[k], k) : k \in DOMAIN blocks}
          BY DEF IInv, RowsOfBlocks
      <3>2. \A k \in DOMAIN blocks' : k = n \/ k \in DOMAIN blocks  BY <1>2, <1>4
      <3>3. DOMAIN blocks \subseteq DOMAIN blocks' /\ n \in DOMAIN blocks'  BY <1>2, <1>4
      <3>4. \A k \in DOMAIN blocks : RowsOf(t, blocks'[k], k) = RowsOf(t, blocks[k], k)
          BY <1>2, <1>4
      <3>5. RowsOf(t, blocks'[n], n) = RowsOf(t, current, n)  BY <1>4
      <3> HIDE DEF n
      <3> QED  BY <3>1, <3>2, <3>3, <3>4, <3>5
    <2> QED  BY <1>5, <2>1 DEF RowsOfBlocks
  <1>9. InPlaceOK'
    <2>1. DOMAIN sockets' = added["da_signers"]  BY <1>5 DEF WithSockets
    <2>2. verified' \subseteq added["da_submits"]
        BY <1>5, ThreeTables DEF VerifiedBy, IInv, InPlaceOK
    <2> QED  BY <1>5, <2>1, <2>2 DEF InPlaceOK
  <1>10. ASSUME NEW r, r.block \in 1..n
         PROVE  LastSocket(r)' = SocketAfter(current, r.by, LastSocket(r))
    <2> DEFINE S == SocketsOf(current, r.by)
    <2>1. Setting(r) \subseteq 1..Len(blocks)  BY <1>2, <1>10 DEF Setting
    <2>2. Setting(r)' = {k \in r.block..n : SocketsOf(blocks'[k], r.by) # {}}
        BY <1>4 DEF Setting
    <2>3. \A k \in r.block..n : k = n \/ k \in r.block..Len(blocks)  BY <1>2, <1>10
    <2>4. \A k \in r.block..Len(blocks) : k \in r.block..n /\ blocks'[k] = blocks[k]
        BY <1>2, <1>4, <1>10
    <2>5. n \in r.block..n /\ n \notin r.block..Len(blocks)  BY <1>2, <1>10
    <2>6. CASE S = {}
      <3>1. Setting(r)' = Setting(r)
          BY <1>4, <2>2, <2>3, <2>4, <2>5, <2>6 DEF Setting
      <3>2. Setting(r) # {} => Max(Setting(r)) \in 1..Len(blocks)
          BY <1>2, <2>1, LargestElement
      <3>3. Setting(r) # {} => blocks'[Max(Setting(r))] = blocks[Max(Setting(r))]
          BY <1>4, <3>2
      <3>4. LastSocket(r)' = LastSocket(r)
          BY <3>1, <3>3 DEF LastSocket
      <3> QED  BY <2>6, <3>4 DEF SocketAfter
    <2>7. CASE S # {}
      <3>1. n \in Setting(r)' /\ Setting(r)' \subseteq 0..n /\ n \in Nat
          BY <1>2, <1>4, <1>10, <2>2, <2>5, <2>7
      <3>2. Max(Setting(r)') \in Setting(r)' /\ n <= Max(Setting(r)')
          BY <3>1, LargestElement
      <3>3. Max(Setting(r)') = n  BY <3>1, <3>2
      <3>4. LastSocket(r)' = SocketAfter(current, r.by, "")
          BY <1>4, <3>1, <3>3 DEF LastSocket
      <3> QED  BY <2>7, <3>4 DEF SocketAfter
    <2> QED  BY <2>6, <2>7
  <1>11. \A t \in Tables : \A r \in rows[t] : r.block \in DOMAIN blocks
    <2> SUFFICES ASSUME NEW t \in Tables, NEW r \in rows[t] PROVE r.block \in DOMAIN blocks
        OBVIOUS
    <2>1. PICK k \in DOMAIN blocks : r \in RowsOf(t, blocks[k], k)
        BY DEF IInv, RowsOfBlocks
    <2>2. blocks[k] \in Block  BY <1>1, <1>2, <2>1, ElementOfSeq
    <2> QED  BY <2>1, <2>2, RowOfEvent
  <1>12. \A t \in Tables : \A r \in RowsOf(t, current, n) : r.block = n
      BY <1>1, RowOfEvent
  <1>13. ASSUME InPlaceFollows, NEW r \in added["da_signers"]
         PROVE  sockets'[r] = LastSocket(r)'
    <2>1. sockets'[r] = SocketAfter(current, r.by, IF r \in DOMAIN sockets THEN sockets[r] ELSE "")
        BY <1>5, <1>13 DEF WithSockets
    <2>2. CASE r \in rows["da_signers"]
      <3>1. r \in DOMAIN sockets /\ sockets[r] = LastSocket(r)
          BY <1>13, <2>2 DEF InPlaceFollows, IInv, InPlaceOK
      <3>2. r.block \in 1..n  BY <1>2, <1>11, <2>2, ThreeTables
      <3> QED  BY <1>10, <2>1, <3>1, <3>2
    <2>3. CASE r \in RowsOf("da_signers", current, n)
      <3>1. r.block = n  BY <1>12, <2>3, ThreeTables
      <3>2. r \notin DOMAIN sockets
          BY <1>2, <1>11, <3>1, ThreeTables DEF IInv, InPlaceOK
      <3>3. Setting(r) = {}  BY <1>2, <3>1 DEF Setting
      <3>4. LastSocket(r) = ""  BY <3>3 DEF LastSocket
      <3>5. r.block \in 1..n  BY <1>2, <3>1
      <3> QED  BY <1>10, <2>1, <3>2, <3>4, <3>5
    <2> QED  BY <1>13, <2>2, <2>3, ThreeTables
  <1>14. ASSUME InPlaceFollows, NEW r \in added["da_submits"]
         PROVE  r \in verified' <=> \E k \in r.block..n : r \in VerifiedBy({r}, blocks'[k])
    <2>1. r \in verified' <=> r \in verified \/ r \in VerifiedBy({r}, current)
        BY <1>5, <1>14 DEF VerifiedBy
    <2>2. CASE r \in rows["da_submits"]
      <3>1. r \in verified <=> \E k \in r.block..Len(blocks) : r \in VerifiedBy({r}, blocks[k])
          BY <1>14, <2>2 DEF InPlaceFollows
      <3>2. r.block \in 1..Len(blocks)  BY <1>2, <1>11, <2>2, ThreeTables
      <3>3. \A k \in r.block..n : k = n \/ k \in r.block..Len(blocks)  BY <1>2, <3>2
      <3>4. \A k \in r.block..Len(blocks) : k \in r.block..n /\ blocks'[k] = blocks[k]
          BY <1>2, <1>4, <3>2
      <3>5. n \in r.block..n  BY <1>2, <3>2
      <3> QED  BY <1>4, <2>1, <3>1, <3>3, <3>4, <3>5
    <2>3. CASE r \in RowsOf("da_submits", current, n)
      <3>1. r.block = n  BY <1>12, <2>3, ThreeTables
      <3>2. r \notin verified
          BY <1>2, <1>11, <3>1, ThreeTables DEF IInv, InPlaceOK
      <3>3. \A k : k \in r.block..n <=> k = n  BY <1>2, <3>1
      <3> QED  BY <1>4, <2>1, <3>2, <3>3
    <2> QED  BY <1>14, <2>2, <2>3, ThreeTables
  <1>15. UpdatesFollow'
    <2> SUFFICES ASSUME ~undone PROVE InPlaceFollows'  BY <1>6 DEF UpdatesFollow
    <2>1. InPlaceFollows  BY DEF IInv, UpdatesFollow
    <2>2. Len(blocks') = n /\ rows' = added  BY <1>4, <1>5
    <2> HIDE DEF n, added
    <2> QED  BY <1>13, <1>14, <2>1, <2>2 DEF InPlaceFollows
  <1> QED  BY <1>7, <1>8, <1>9, <1>15 DEF IInv

\* A block that is removed takes its rows along, and leaves those of the others.
LEMMA PopInv == ASSUME IInv, Pop PROVE IInv'
  <1> DEFINE n == Len(blocks)
  <1>1. /\ chain \in Seq(Block) /\ blocks \in Seq(Block)
        /\ \A k \in DOMAIN blocks : Known(blocks[k])
      BY DEF IInv, BlocksOK
  <1>2. /\ n \in Nat /\ DOMAIN blocks = 1..n /\ Len(chain) \in Nat
        /\ \A k \in 1..n : blocks[k] \in Block
      BY <1>1, LenProperties, ElementOfSeq
  <1>3. n # 0
    <2>1. SUFFICES ASSUME n = 0 PROVE IsPrefix(blocks, chain)  BY DEF Pop
    <2>2. SubSeq(blocks, 1, 0) = <<>> /\ SubSeq(chain, 1, 0) = <<>>  BY SubSeqEmpty
    <2> QED  BY <1>2, <2>1, <2>2 DEF IsPrefix
  <1>4. /\ blocks' \in Seq(Block) /\ Len(blocks') = n - 1 /\ DOMAIN blocks' = 1..(n - 1)
        /\ \A k \in 1..(n - 1) : blocks'[k] = blocks[k]
    <2>1. blocks' = SubSeq(blocks, 1, n - 1)  BY DEF Pop, Front
    <2>2. /\ blocks' \in Seq(Block) /\ Len(blocks') = n - 1
          /\ \A k \in 1..(n - 1) : blocks'[k] = blocks[k]
        BY <1>1, <1>2, <1>3, <2>1, BeginOf
    <2> QED  BY <2>2, LenProperties
  <1>5. /\ rows' = [t \in Tables |-> Below(rows[t], n)]
        /\ sockets' = [r \in Below(DOMAIN sockets, n) |-> sockets[r]]
        /\ verified' = Below(verified, n)
        /\ undone' = (undone \/ Changes(blocks[n]))
      BY DEF Pop
  <1>6. /\ UNCHANGED <<chain, reorgs, addresses, miners, clients, current>>
        /\ phase = "convert" /\ phase' = "convert"
      BY DEF Pop, chainVars, partyVars
  <1>7. BlocksOK'
    <2>1. \A k \in DOMAIN blocks' : Known(blocks'[k])  BY <1>1, <1>2, <1>4
    <2>2. \A k \in DOMAIN blocks' : Known(blocks[k])'  BY <1>6, <2>1 DEF Known
    <2> QED  BY <1>1, <1>4, <1>6, <2>2 DEF IInv, BlocksOK
  <1>8. ASSUME NEW t \in Tables
        PROVE  /\ Below(rows[t], n) = UNION {RowsOf(t, blocks'[k], k) : k \in DOMAIN blocks'}
               /\ \A r \in Below(rows[t], n) : r.block \in 1..(n - 1)
    <2>1. rows[t] = UNION {RowsOf(t, blocks[k], k) : k \in DOMAIN blocks}
        BY DEF IInv, RowsOfBlocks
    <2>2. \A k \in 1..n : \A r \in RowsOf(t, blocks[k], k) : r.block = k
        BY <1>2, RowOfEvent
    <2>3. \A k \in 1..(n - 1) : RowsOf(t, blocks'[k], k) = RowsOf(t, blocks[k], k)  BY <1>4
    <2>4. \A k \in 1..n : k < n <=> k \in 1..(n - 1)  BY <1>2
    <2>5. \A r : r \in Below(rows[t], n) <=>
                     \E k \in 1..(n - 1) : r \in RowsOf(t, blocks[k], k)
      <3>1. \A k \in 1..(n - 1) : k \in 1..n  BY <1>2
      <3> HIDE DEF n
      <3> QED  BY <1>2, <2>1, <2>2, <2>4, <3>1 DEF Below
    <2>6. \A r \in Below(rows[t], n) : r.block \in 1..(n - 1)
      <3>1. \A k \in 1..(n - 1) : k \in 1..n  BY <1>2
      <3> HIDE DEF n
      <3> QED  BY <2>2, <2>5, <3>1
    <2>7. Below(rows[t], n) = UNION {RowsOf(t, blocks'[k], k) : k \in DOMAIN blocks'}
      <3> HIDE DEF n
      <3> QED  BY <1>4, <2>3, <2>5
    <2> QED  BY <2>6, <2>7
  <1>9. RowsOfBlocks'  BY <1>5, <1>8 DEF RowsOfBlocks
  <1>10. InPlaceOK'
      BY <1>5, ThreeTables DEF IInv, InPlaceOK, Below
  <1>11. UpdatesFollow'
    <2> SUFFICES ASSUME ~undone, ~Changes(blocks[n]) PROVE InPlaceFollows'
        BY <1>5 DEF UpdatesFollow
    <2>0. \A b \in 1..(n - 1) : \A k \in b..n : k = n \/ k \in b..(n - 1)
      <3>1. n \in Nat  BY <1>2
      <3> HIDE DEF n
      <3> QED  BY <3>1
    <2>1. InPlaceFollows  BY DEF IInv, UpdatesFollow
    <2>2. \A s : SocketsOf(blocks[n], s) = {}  BY DEF Changes, SocketsOf
    <2>3. \A S : VerifiedBy(S, blocks[n]) = {}  BY DEF Changes, VerifiedBy
    <2>4. ASSUME NEW r, r.block \in 1..(n - 1)
          PROVE  LastSocket(r)' = LastSocket(r)
      <3>1. Setting(r)' = {k \in r.block..(n - 1) : SocketsOf(blocks'[k], r.by) # {}}
          BY <1>4 DEF Setting
      <3>2. \A k \in r.block..n : k = n \/ k \in r.block..(n - 1)  BY <2>0, <2>4
      <3>3. \A k \in r.block..(n - 1) : k \in r.block..n /\ k \in 1..(n - 1)
          BY <1>2, <2>4
      <3>4. Setting(r)' = Setting(r)
          BY <1>4, <2>2, <3>1, <3>2, <3>3 DEF Setting
      <3>5. Setting(r) # {} => Max(Setting(r)) \in 1..(n - 1)
        <4>1. Setting(r) \subseteq 0..n /\ Setting(r) \subseteq 1..(n - 1)
            BY <1>2, <2>4, <3>1, <3>4
        <4> QED  BY <1>2, <4>1, LargestElement
      <3>6. Setting(r) # {} => blocks'[Max(Setting(r))] = blocks[Max(Setting(r))]
          BY <1>4, <3>5
      <3> QED  BY <3>4, <3>6 DEF LastSocket
    <2>5. ASSUME NEW r \in Below(rows["da_signers"], n)
          PROVE  sockets'[r] = LastSocket(r)'
      <3>1. sockets'[r] = sockets[r] /\ r \in rows["da_signers"]
          BY <1>5, <2>5 DEF IInv, InPlaceOK, Below
      <3>2. r.block \in 1..(n - 1)  BY <1>8, <2>5, ThreeTables
      <3> QED  BY <2>1, <2>4, <3>1, <3>2 DEF InPlaceFollows
    <2>6. ASSUME NEW r \in Below(rows["da_submits"], n)
          PROVE  r \in verified' <=> \E k \in r.block..(n - 1) : r \in VerifiedBy({r}, blocks'[k])
      <3>1. r \in verified' <=> r \in verified  BY <1>5, <2>6 DEF Below
      <3>2. r \in verified <=> \E k \in r.block..n : r \in VerifiedBy({r}, blocks[k])
          BY <2>1, <2>6 DEF InPlaceFollows, Below
      <3>3. r.block \in 1..(n - 1)  BY <1>8, <2>6, ThreeTables
      <3>4. \A k \in r.block..n : k = n \/ k \in r.block..(n - 1)  BY <2>0, <3>3
      <3>5. \A k \in r.block..(n - 1) : k \in r.block..n /\ blocks'[k] = blocks[k]
          BY <1>2, <1>4, <3>3
      <3> HIDE DEF n
      <3> QED  BY <2>3, <3>1, <3>2, <3>4, <3>5
    <2>7. /\ rows'["da_signers"] = Below(rows["da_signers"], n)
          /\ rows'["da_submits"] = Below(rows["da_submits"], n) /\ Len(blocks') = n - 1
        BY <1>4, <1>5, ThreeTables
    <2> HIDE DEF n
    <2> QED  BY <2>5, <2>6, <2>7 DEF InPlaceFollows
  <1> QED  BY <1>7, <1>9, <1>10, <1>11 DEF IInv

LEMMA NextInv == IInv /\ [Next]_vars => IInv'
  <1> SUFFICES ASSUME IInv, [Next]_vars PROVE IInv'  OBVIOUS
  <1>1. CASE UNCHANGED vars
    <2>1. UNCHANGED <<tableVars, undone, chainVars, partyVars, phase, current>>
        BY <1>1 DEF vars
    <2>2. BlocksOK'
        BY <2>1 DEF IInv, BlocksOK, Known, tableVars, chainVars, partyVars
    <2> QED  BY <2>1, <2>2, TablesKept DEF IInv
  <1>2. CASE \E n \in 1..MaxBlocks : n <= Len(chain) + 1 /\ Extend(n)  BY <1>2, ExtendInv
  <1>3. CASE Sync
      BY <1>3, ConvertInv, PartitionInv, PushInv, FailInv, PopInv DEF Sync
  <1>4. CASE RoundFails  BY <1>4, FailInv
  <1> QED  BY <1>1, <1>2, <1>3, <1>4 DEF Next

-----------------------------------------------------------------------------
(* The theorems.                                                            *)

\* Chain, tables, ids and the block under way fit together in every state, for any
\* blocks, wherever statements and transactions fail and however the chain reorganises.
THEOREM Invariance == Spec => []IInv
  BY InitInv, NextInv, PTL DEF Spec

\* Push and Pop leave in the nine tables the rows of the stored blocks and no others, and
\* nobody is in a row who has no id, though ids are added outside the transaction.
THEOREM RowsAreThoseOfBlocks == Spec => []RowsFollow
  BY InvRows, Invariance, PTL

\* What UpdateByPrimaryKey changes in place is what the stored blocks say, as long as Pop
\* removes no block that had changed a row.
THEOREM UpdatesAreThoseOfBlocks == Spec => []UpdatesFollow
  <1>1. IInv => UpdatesFollow  BY DEF IInv
  <1> QED  BY <1>1, Invariance, PTL
=============================================================================

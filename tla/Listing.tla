------------------------------ MODULE Listing -------------------------------
(***************************************************************************)
(* The lists of the REST API (the List functions of store/, and their      *)
(* handlers), as a client reads them: page after page, while rows are      *)
(* added.  A request makes two queries, in no transaction: one for the     *)
(* total, and one for the rows.  Every list counts and sorts the rows of a *)
(* condition, except two that save the count: all submissions, by the      *)
(* greatest index, and those of an address, by the counter that TopnSubmit *)
(* keeps of it.                                                            *)
(* A row stands for a submission, a reward, a blob, a statistic of an      *)
(* interval or a miner, whichever the list is of.  Its index is the order  *)
(* of insertion, its owner the address it names by id, its block the one   *)
(* it came in (of a miner, the amount it has won), and its rank the epoch  *)
(* and the quorum of a blob.                                               *)
(***************************************************************************)
EXTENDS Integers, Sequences, FiniteSets, FiniteSetsExt, SequencesExt

CONSTANTS
    Owners, Address,    \* senders or miners, and the one the client asks for
    NoName,         \* the address shown of an id that has no row
    FirstIndex,     \* index of the first row: the contract's, 0 or 1
    MaxRows,        \* bound: rows
    PageSize,       \* limit of a page
    Lists           \* the lists the client reads

AllLists == {"submits", "submits of tx", "address submits", "address submits of tx",
             "rewards", "address rewards", "da submits", "da submits of tx", "da rewards",
             "stats", "miners"}

ConstantsOK ==
    /\ FirstIndex \in {0, 1} /\ MaxRows \in Nat /\ PageSize \in Nat \ {0}
    /\ Address \in Owners /\ Owners # {Address} /\ NoName \notin Owners /\ Lists \subseteq AllLists

VARIABLES
    rows,           \* by index: the owner, the block and the rank
    addresses,      \* table addresses: the owners that have a row
    files,          \* addresses.files of Address: its rows counted so far
    query,          \* the list and the order the client asks for, and the block of a tx
    skip, total,    \* rows skipped so far, and the total of the last request
    asking,         \* is a request between its two queries?
    seen,           \* rows seen: the index and the address shown
    before, unsure, still,  \* for the properties: the rows when the client began, those a
                    \* page could leave out since, and whether nothing was added since;
    slipped         \* did rows come in before those of the last page, behind its total?

pageVars == <<query, skip, total, asking, seen, before, unsure, still, slipped>>
vars == <<rows, addresses, files, pageVars>>

Queries == [list : Lists, desc : BOOLEAN, block : {1}]

Init ==
    /\ rows = [i \in {} |-> 0] /\ addresses = {} /\ files = 0
    /\ query \in Queries /\ skip = 0 /\ total = 0 /\ asking = FALSE /\ seen = <<>>
    /\ before = {} /\ unsure = {} /\ still = TRUE /\ slipped = FALSE

OfAddress == {i \in DOMAIN rows : rows[i].owner = Address}
OfBlock(b) == {i \in DOMAIN rows : rows[i].block = b}
IndexOf(i) == i
BlockOf(i) == rows[i].block
RankOf(i) == rows[i].block * (MaxRows + 1) + rows[i].rank

-----------------------------------------------------------------------------
(* The two queries of a request, each as it answers now: the total, and the *)
(* pages it may return.                                                     *)

\* The orders of S by a key; rows of the same key come in any order.
Sorted(S, Key(_), desc) ==
    {o \in SetToSeqs(S) :
        \A i \in 1..(Len(o) - 1) : IF desc THEN Key(o[i]) >= Key(o[i + 1]) ELSE Key(o[i]) <= Key(o[i + 1])}

\* Limit and Offset.
Part(order, from) == SubSeq(order, from + 1, Min({from + PageSize, Len(order)}))

\* mysql.Store.ListByOrder.
ListByOrder(S, Key(_), desc) ==
    [count |-> Cardinality(S), pages |-> {Part(o, skip) : o \in Sorted(S, Key, desc)}]

\* Faulty variant of Unskipped: one row too few.
UnskippedBelow(desc) ==
    IF skip = 0 THEN DOMAIN rows
    ELSE {i \in DOMAIN rows : IF desc THEN i < total - skip ELSE i > skip}

\* The rows a page of all submissions starts with: taken by index, not by count, from the
\* greatest one that the first query has read.
Unskipped(desc) ==
    IF skip = 0 THEN DOMAIN rows
    ELSE {i \in DOMAIN rows : IF desc THEN i <= total - skip ELSE i > skip}

\* SubmitStore.List without a condition.
ListAllSubmits(desc) ==
    [count |-> IF rows = <<>> THEN 0 ELSE Max(DOMAIN rows),
     pages |-> {Part(o, 0) : o \in Sorted(Unskipped(desc), IndexOf, desc)}]

\* AddressSubmitStore.List without a condition: always the last submission first.
ListAddressSubmits ==
    [count |-> files, pages |-> {Part(o, skip) : o \in Sorted(OfAddress, IndexOf, TRUE)}]

\* Both make no second query when there is nothing to list.
NothingToList(q) ==
    \/ q.list = "submits" /\ rows = <<>>
    \/ q.list = "address submits" /\ files <= skip

\* RewardStore.List, and of an address.
ListRewards(desc) == ListByOrder(DOMAIN rows, BlockOf, desc)
ListAddressRewards(desc) == ListByOrder(OfAddress, IndexOf, desc)

\* DASubmitStore.List, without a condition and with one: block, epoch, quorum.
ListDASubmits(S, desc) == ListByOrder(S, RankOf, desc)

\* DARewardStore.List.
ListDARewards(desc) == ListByOrder(DOMAIN rows, BlockOf, desc)

\* SubmitStatStore.List of an interval type, and those of the other statistics.
ListStats(desc) == ListByOrder(DOMAIN rows, IndexOf, desc)

\* MinerStore.List: by amount, or by the time of the last reward; both only rise.
ListMiners(desc) == ListByOrder(DOMAIN rows, BlockOf, desc)

\* listSubmits: the list of a request for submissions.
Submits(q) ==
    CASE q.list = "submits" -> ListAllSubmits(q.desc)
      [] q.list = "submits of tx" -> ListByOrder(OfBlock(q.block), IndexOf, q.desc)
      [] q.list = "address submits" -> ListAddressSubmits
      [] q.list = "address submits of tx" ->
            ListByOrder(OfAddress \cap OfBlock(q.block), IndexOf, q.desc)

\* listRewards.
Rewards(q) ==
    IF q.list = "rewards" THEN ListRewards(q.desc) ELSE ListAddressRewards(q.desc)

DASubmits(q) ==
    ListDASubmits(IF q.list = "da submits" THEN DOMAIN rows ELSE OfBlock(q.block), q.desc)

OfSubmits == {"submits", "submits of tx", "address submits", "address submits of tx"}

\* The list of a request.
ListOf(q) ==
    CASE q.list \in OfSubmits -> Submits(q)
      [] q.list \in {"rewards", "address rewards"} -> Rewards(q)
      [] q.list \in {"da submits", "da submits of tx"} -> DASubmits(q)
      [] q.list = "da rewards" -> ListDARewards(q.desc)
      [] q.list = "miners" -> ListMiners(q.desc)
      [] q.list = "stats" -> ListStats(q.desc)

\* BatchGetAddresses: the rows of some ids that exist.
BatchGetAddresses(ids) == [id \in ids \cap addresses |-> id]

\* convertStorageTxs, convertStorageRewards, convertDATxs, convertDARewards, convertMiners:
\* an id without a row has no address.
Convert(page) ==
    LET addrMap == BatchGetAddresses({rows[i].owner : i \in Range(page)})
        NameOf(id) == IF id \in DOMAIN addrMap THEN addrMap[id] ELSE NoName
    IN  [k \in DOMAIN page |-> [index |-> page[k], from |-> NameOf(rows[page[k]].owner)]]

\* getSubmitStatByType, listAddressStat, listMinerStat, listRewardStat: a statistic names nobody.
ConvertStats(page) == [k \in DOMAIN page |-> [index |-> page[k], from |-> NoName]]

\* What a client may be shown.
Pages(q) ==
    {IF q.list = "stats" THEN ConvertStats(page) ELSE Convert(page) : page \in ListOf(q).pages}

\* getDATx: the blob with the block, the epoch and the quorum of row i, which are not its
\* key: of several, any.
getDATx(i) ==
    {[index |-> j, from |-> IF rows[j].owner \in DOMAIN BatchGetAddresses({rows[j].owner})
                            THEN rows[j].owner ELSE NoName] : j \in {k \in DOMAIN rows : RankOf(k) = RankOf(i)}}

-----------------------------------------------------------------------------
(* What a client can rely on.                                               *)

\* The rows a query is about.
Asked(q) ==
    CASE q.list \in {"submits of tx", "da submits of tx"} -> OfBlock(q.block)
      [] q.list \in {"address submits", "address rewards"} -> OfAddress
      [] q.list = "address submits of tx" -> OfAddress \cap OfBlock(q.block)
      [] OTHER -> DOMAIN rows

Oldest(S, n) == {i \in S : Cardinality({j \in S : j < i}) < n}

\* The rows that another one equals in what the list is ordered by.
Tied(Key(_)) == {i \in DOMAIN rows : \E j \in DOMAIN rows : j # i /\ Key(i) = Key(j)}

\* The rows of an address that a total leaves out: the oldest ones, as many as its counter
\* lags behind.
Uncounted(q) ==
    IF q.list = "address submits" THEN Oldest(OfAddress, Cardinality(OfAddress) - files) ELSE {}

\* The rows that a page may leave out: where the order leaves two rows equal, both, since
\* their order may differ from page to page.
Unordered(q) ==
    CASE q.list \in {"rewards", "da rewards", "miners"} -> Tied(BlockOf)
      [] q.list \in {"da submits", "da submits of tx"} -> Tied(RankOf)
      [] OTHER -> {}

\* All submissions are taken by index.  When the first index is 0, the one after the first
\* page is in no page of the ascending order, and the total may end the descending order
\* before the last one.
Overstepped(q) ==
    IF q.list = "submits" /\ FirstIndex = 0 /\ ~q.desc THEN {PageSize} ELSE {}
Unasked(q) ==
    IF q.list = "submits" /\ FirstIndex = 0 /\ q.desc THEN {0} ELSE {}

\* Rows that are added come before those of the page that is asked for; a page of all
\* submissions behind the first one is taken from the greatest index, and keeps its place.
AddedFirst ==
    /\ query.desc \/ query.list = "address submits"
    /\ query.list = "submits" => skip = 0

-----------------------------------------------------------------------------
(* The client, and what adds rows.                                          *)

Started == skip > 0
Finished == Started /\ ~asking /\ skip >= total

\* The first query of a request.
ReadTotal ==
    /\ ~asking /\ ~Finished
    /\ total' = ListOf(query).count
    /\ IF NothingToList(query)
       THEN skip' = skip + PageSize /\ UNCHANGED asking
       ELSE asking' = TRUE /\ UNCHANGED skip
    /\ before' = IF Started THEN before ELSE Asked(query)
    /\ unsure' = unsure \cup Uncounted(query)
    /\ still' = (~Started \/ still)
    /\ slipped' = FALSE
    /\ UNCHANGED <<rows, addresses, files, query, seen>>

\* The second one, and the names.
ReadPage ==
    /\ asking
    /\ \E page \in Pages(query) : seen' = seen \o page
    /\ skip' = skip + PageSize /\ asking' = FALSE
    /\ unsure' = unsure \cup Unordered(query)
    /\ UNCHANGED <<rows, addresses, files, query, total, before, still, slipped>>

LastIndex == FirstIndex + Cardinality(DOMAIN rows) - 1
LastBlock == IF rows = <<>> THEN 0 ELSE Max({rows[i].block : i \in DOMAIN rows})

\* Only a blob has a rank; an owner is the address asked for or, in a list by address,
\* another one; a new miner is one that has no row.
Ranks == IF query.list \in {"da submits", "da submits of tx"} THEN 1..2 ELSE {1}

Senders ==
    IF query.list \in {"address submits", "address submits of tx", "address rewards"}
    THEN {Address, CHOOSE o \in Owners : o # Address} ELSE {Address}
NewMiners == Owners \ {rows[i].owner : i \in DOMAIN rows}

\* Store.Push: the rows of a block are added together, after the addresses they name
\* (AddressStore.Add, when the event is decoded).
Push ==
    /\ query.list # "miners"
    /\ \E n \in 1..2 :
          /\ Cardinality(DOMAIN rows) + n <= MaxRows
          /\ \E new \in [LastIndex + 1..LastIndex + n -> [owner : Senders, block : {LastBlock + 1}, rank : Ranks]] :
                /\ rows' = [i \in DOMAIN rows \cup DOMAIN new |->
                              IF i \in DOMAIN new THEN new[i] ELSE rows[i]]
                /\ addresses' = addresses \cup {new[i].owner : i \in DOMAIN new}
    /\ still' = FALSE /\ slipped' = (slipped \/ (asking /\ AddedFirst))
    /\ UNCHANGED <<files, query, skip, total, asking, seen, before, unsure>>

\* StatMiner and TopnReward: a miner that wins for the first time gets a row, another one
\* more in it; a list by amount may then leave out what moved, or what it moved past.
Reward ==
    /\ query.list = "miners"
    /\ \E i \in FirstIndex..LastIndex + 1 :
          IF i \in DOMAIN rows
          THEN /\ rows[i].block < MaxRows
               /\ rows' = [rows EXCEPT ![i].block = @ + 1]
               /\ unsure' = unsure \cup (IF query.desc THEN {i} ELSE DOMAIN rows)
               /\ UNCHANGED <<addresses, slipped>>
          ELSE /\ \E o \in NewMiners, b \in 1..2 :
                     /\ rows' = [j \in DOMAIN rows \cup {i} |->
                                    IF j = i THEN [owner |-> o, block |-> b, rank |-> 1] ELSE rows[j]]
                     /\ addresses' = addresses \cup {o}
               /\ slipped' = (slipped \/ asking)
               /\ UNCHANGED unsure
    /\ still' = FALSE
    /\ UNCHANGED <<files, query, skip, total, asking, seen, before>>

\* TopnSubmit counts a row some time after it is stored.
Count ==
    /\ query.list = "address submits"
    /\ files < Cardinality(OfAddress) /\ files' = files + 1
    /\ UNCHANGED <<rows, addresses, pageVars>>

Next == ReadTotal \/ ReadPage \/ Push \/ Reward \/ Count

Spec == Init /\ [][Next]_vars

-----------------------------------------------------------------------------
(* Properties.                                                              *)

TypeOK ==
    /\ DOMAIN rows \subseteq FirstIndex..(FirstIndex + MaxRows)
    /\ \A i \in DOMAIN rows :
          rows[i].owner \in Owners /\ rows[i].block \in 1..MaxRows /\ rows[i].rank \in 1..2
    /\ addresses \subseteq Owners /\ files \in 0..Cardinality(OfAddress)
    /\ query \in Queries /\ skip \in Nat /\ total \in 0..(FirstIndex + MaxRows)
    /\ seen \in Seq([index : DOMAIN rows, from : Owners \cup {NoName}])
    /\ before \cup unsure \subseteq DOMAIN rows /\ {asking, still, slipped} \subseteq BOOLEAN

SeenRows == [k \in DOMAIN seen |-> seen[k].index]

\* A client that has read all pages has seen every row there was when it began, though
\* rows were added since; unless they were added before the rows of its last page, between
\* the total and the page.
NoRowMissed ==
    Finished /\ ~slipped =>
        before \subseteq Range(SeenRows) \cup unsure \cup Overstepped(query) \cup Unasked(query)

\* The order a client can expect.
KeyOf(i) ==
    CASE query.list \in {"rewards", "da rewards", "miners"} -> BlockOf(i)
      [] query.list \in {"da submits", "da submits of tx"} -> RankOf(i)
      [] OTHER -> i

\* It has seen each of them once and in order, when nothing was added and no two rows
\* are equal in what they are ordered by.
PagesInOrder ==
    Finished /\ still /\ (query.list # "address submits" => unsure = {}) =>
        \E o \in Sorted(Asked(query) \ Overstepped(query), KeyOf, query.desc \/ query.list = "address submits") :
            IsPrefix(SeenRows, o)

\* Every row is shown with the address of its owner, in a list and alone: a row never
\* refers to an address that is not there yet.
OwnersNamed ==
    /\ query.list # "stats" => \A k \in DOMAIN seen : seen[k].from = rows[seen[k].index].owner
    /\ query.list \in {"da submits", "da submits of tx"} =>
          \A i \in DOMAIN rows : \A blob \in getDATx(i) : blob.from = rows[blob.index].owner

\* A client that asks for the submissions of an address sees them all, and in the order
\* it asks for.  (It does not: see ListAddressSubmits.)
AddressListed ==
    Finished /\ still /\ query.list = "address submits" =>
        SeenRows \in Sorted(OfAddress, IndexOf, query.desc)
=============================================================================

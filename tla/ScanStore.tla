------------------------------ MODULE ScanStore ------------------------------
(***************************************************************************)
(* The part of the MySQL store that follows the chain (store/store.go,     *)
(* store/store_block.go): the table "blocks" and the event tables that     *)
(* Push fills and Pop empties in one transaction.  The event tables are    *)
(* one set of rows, each with its block number and the hash of the block   *)
(* whose log it was decoded from; the hash is not a column of those        *)
(* tables, it is what tells a row of the canonical chain from an orphan.   *)
(***************************************************************************)
EXTENDS Integers

VARIABLES
    blocks,     \* table "blocks": number -> hash, one row per Push
    events      \* event rows: records [num, hash]

storeVars == <<blocks, events>>

StoreInit ==
    /\ blocks = [n \in {} |-> <<>>]
    /\ events = {}

EmptyStore == DOMAIN blocks = {}

\* SELECT MAX(block_number) FROM blocks returns m.
IsMaxBlock(m) ==
    /\ m \in DOMAIN blocks
    /\ \A n \in DOMAIN blocks : n <= m

\* One transaction: the block row and the rows decoded with it.  The primary
\* key of "blocks" refuses a number that is already stored.
Push(n, hash, rows) ==
    /\ n \notin DOMAIN blocks
    /\ blocks' = [i \in DOMAIN blocks \cup {n} |-> IF i = n THEN hash ELSE blocks[i]]
    /\ events' = events \cup rows

\* Faulty variant of Pop: the event rows of block n itself are kept.
PopAbove(n) ==
    IF \E m \in DOMAIN blocks : n <= m
    THEN /\ blocks' = [i \in {j \in DOMAIN blocks : j < n} |-> blocks[i]]
         /\ events' = {e \in events : e.num <= n}
    ELSE UNCHANGED storeVars

\* One transaction: every row of block n and above, in every table.  Nothing
\* happens when the table has no block from n on.
Pop(n) ==
    IF \E m \in DOMAIN blocks : n <= m
    THEN /\ blocks' = [i \in {j \in DOMAIN blocks : j < n} |-> blocks[i]]
         /\ events' = {e \in events : e.num < n}
    ELSE UNCHANGED storeVars
=============================================================================

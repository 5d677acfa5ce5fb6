----------------------------- MODULE CountOnce ------------------------------
(***************************************************************************)
(* What a statistic with a cursor promises to the readers of its counters: *)
(* the items of a log are counted in the order of their positions, each    *)
(* one exactly once for its key, in whole ranges, and the counters and the *)
(* cursor change together.                                                 *)
(***************************************************************************)
EXTENDS Integers, FiniteSets

CONSTANTS
    Items,      \* what is counted
    Keys,       \* for whom: one counter per key
    Pos, Key    \* position and key of an item

VARIABLES
    done,       \* the items at positions below this one are counted
    counter

ItemsBelow(n, k) == {i \in Items : Pos[i] < n /\ Key[i] = k}

CountsBelow(n) == [k \in Keys |-> Cardinality(ItemsBelow(n, k))]

CountInit ==
    /\ done \in Nat
    /\ counter = CountsBelow(done)

CountRange ==
    /\ done' \in Nat /\ done < done'
    /\ counter' = CountsBelow(done')

CountSpec == CountInit /\ [][CountRange]_<<done, counter>>
=============================================================================

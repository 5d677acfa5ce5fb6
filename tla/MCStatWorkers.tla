--------------------------- MODULE MCStatWorkers ----------------------------
(* Six submissions or rewards of three senders in three blocks, the third    *)
(* and the fourth of one transaction, for TLC.                              *)
EXTENDS StatWorkers

CONSTANTS s1, s2, s3

MCIndexOf == [i \in Items |-> i]
MCBlockOf == [i \in Items |-> CASE i <= 1 -> 1 [] i \in 2..4 -> 2 [] OTHER -> 4]
MCKey == [i \in Items |-> CASE i \in {0, 5} -> s1 [] i \in {2, 3} -> s3 [] OTHER -> s2]
MCTx == [i \in Items |-> IF i = 3 THEN 2 ELSE i]
MCSenderAt == [t \in Times |-> IF t % 3 = 1 THEN s1 ELSE s2]
MCTimeOf == [i \in Items |-> CASE i = 0 -> 0 [] i = 1 -> 6 [] i \in {2, 3} -> 8 [] i = 4 -> 18
                                [] OTHER -> 24]
MCSender == [f \in 0..(NumFiles - 1) |-> IF f % 2 = 0 THEN s1 ELSE s2]

\* Sorting on heaps gives the rankings of the highest counters, and all of them.
ASSUME SortIsTop ==
    \A K \in SUBSET {1, 2, 3, 4} : \A n \in 1..3 : \A all \in [K -> 0..3] :
        Submits!SortedFrom(all, n) = Submits!TopsOf(all, n)
=============================================================================

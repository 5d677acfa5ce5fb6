--------------------------- MODULE MCSyncWorkers ----------------------------
(* Three providers on two hosts, and five attempts of three miners in four   *)
(* blocks, for TLC; the registration of the third miner is never stored.    *)
EXTENDS SyncWorkers

CONSTANTS h1, h2, m1, m2, m3

MCHostOf == [p \in Providers |-> IF p = 2 THEN h2 ELSE h1]
MCBlockOf == <<0, 1, 1, 2, 3>>
MCBy == <<m1, m1, m2, m1, m3>>
MCUnregistered == [m \in Miners |-> CASE m = m1 -> 0 [] m = m2 -> 1 [] OTHER -> NumBlocks]
=============================================================================

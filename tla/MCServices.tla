---------------------------- MODULE MCServices ------------------------------
(* The contents of the config rows of strategies, for TLC: two rules for    *)
(* every resource, none, and one that cannot be decoded; a statistic        *)
(* before the one that needs the lifetime; two reward contracts, one of     *)
(* each kind.                                                               *)
EXTENDS Services

MCStatWorkers == <<"intervals", "expired">>
MCRewardContracts == <<[method |-> "lifetimeInSeconds", seconds |-> 30],
                       [method |-> "releaseSeconds", seconds |-> 40]>>
MCValues == {[r \in Resources |-> v] : v \in {1, 2, NoRule, Malformed}}
=============================================================================

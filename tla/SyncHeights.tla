---------------------------- MODULE SyncHeights -----------------------------
(***************************************************************************)
(* The sync height of the storage node and the alarm (NodeSyncHeight of    *)
(* sync/storage.go, AlertErr of rpc/blockchain.go).  Every second the      *)
(* syncer asks the node for its height, stores it in a row of configs,     *)
(* compares it and its own height with the chain, and tells the outcome to *)
(* a counter, which decides when people are told.  The counter is a        *)
(* library: it reports a failure that lasts for Threshold rounds and again *)
(* after every Remind rounds, and the first success after a report.        *)
(***************************************************************************)
EXTENDS Integers

CONSTANTS
    MaxGap,         \* SyncGapAlertThreshold
    Threshold, Remind,  \* of HealthReport, in rounds
    LostNotices,    \* notices that the alert channel may lose: "down", "up"
    MaxHeight,      \* bound: the chain
    MaxProbeFaults  \* bound: failed calls and lost notices

ConstantsOK ==
    /\ {MaxGap, MaxHeight, MaxProbeFaults} \subseteq Nat
    /\ {Threshold, Remind} \subseteq Nat \ {0} /\ LostNotices \subseteq {"down", "up"}

VARIABLES
    chainHeight,    \* of the full node
    nodeHeight,     \* LogSyncHeight of the storage node
    scanHeight,     \* highest block that is stored; 0: none
    heightRow,      \* config row SyncHeightNode; 0: none
    probe,          \* step of the round: "status", "gaps", "alert"
    failed,         \* the round has found an error
    failing,        \* the counter: rounds that have failed in a row
    told,           \* what people were told last: the syncer is down
    probeFaults

heightVars == <<chainHeight, nodeHeight, scanHeight>>
vars == <<heightVars, heightRow, probe, failed, failing, told, probeFaults>>

Init ==
    /\ chainHeight = 1 /\ nodeHeight = 0 /\ scanHeight = 0
    /\ heightRow = 0 /\ probe = "status" /\ failed = FALSE /\ failing = 0 /\ told = FALSE
    /\ probeFaults = 0

Fault == probeFaults < MaxProbeFaults /\ probeFaults' = probeFaults + 1

\* The chain goes on, and the storage node and the block rows follow it.
Advance ==
    /\ \/ chainHeight < MaxHeight /\ chainHeight' = chainHeight + 1 /\ UNCHANGED <<nodeHeight, scanHeight>>
       \/ nodeHeight' \in (nodeHeight + 1)..chainHeight /\ UNCHANGED <<chainHeight, scanHeight>>
       \/ scanHeight' \in (scanHeight + 1)..chainHeight /\ UNCHANGED <<chainHeight, nodeHeight>>
    /\ UNCHANGED <<heightRow, probe, failed, failing, told, probeFaults>>

-----------------------------------------------------------------------------
(* A round.                                                                 *)

\* GetNodeStatus, and the height is stored.
GetStatus ==
    /\ probe = "status"
    /\ \/ /\ heightRow' = nodeHeight /\ probe' = "gaps" /\ failed' = FALSE /\ UNCHANGED probeFaults
       \/ Fault /\ probe' = "alert" /\ failed' = TRUE /\ UNCHANGED heightRow
    /\ UNCHANGED <<heightVars, failing, told>>

\* Faulty variant of Behind: only the height of the storage node counts.
NodeBehind(chain, node, scan) == chain - node > MaxGap

Behind(chain, node, scan) == chain - node > MaxGap \/ chain - scan > MaxGap

\* checkSyncHeightGaps: the height of the node is the one of the round, and it is an
\* error that no block is stored.
CheckGaps ==
    /\ probe = "gaps" /\ probe' = "alert"
    /\ \/ /\ failed' = (scanHeight = 0 \/ Behind(chainHeight, heightRow, scanHeight))
          /\ UNCHANGED probeFaults
       \/ Fault /\ failed' = TRUE
    /\ UNCHANGED <<heightVars, heightRow, failing, told>>

\* A notice is sent, or lost with an error.
Notify(notice, down) ==
    \/ told' = down /\ UNCHANGED probeFaults
    \/ notice \in LostNotices /\ Fault /\ UNCHANGED told

\* OnFailure: the counter reports at Threshold, and starts over to remind.
Failures == IF failing = Threshold + Remind THEN Threshold + 1 ELSE failing + 1

AlertErr ==
    /\ probe = "alert" /\ probe' = "status"
    /\ failing' = IF failed THEN Failures ELSE 0
    /\ IF failed /\ failing' \in {Threshold, Threshold + Remind} THEN Notify("down", TRUE)
       ELSE IF ~failed /\ failing >= Threshold THEN Notify("up", FALSE)
       ELSE UNCHANGED <<told, probeFaults>>
    /\ UNCHANGED <<heightVars, heightRow, failed>>

NodeSyncHeight == GetStatus \/ CheckGaps \/ AlertErr

Next == Advance \/ NodeSyncHeight

Spec == Init /\ [][Next]_vars

\* The syncer runs the round every second, or every ten seconds after an error.
FairSpec == Spec /\ WF_vars(NodeSyncHeight)

-----------------------------------------------------------------------------
(* Properties.                                                              *)

TypeOK ==
    /\ {chainHeight, nodeHeight, scanHeight, heightRow} \subseteq 0..MaxHeight
    /\ probe \in {"status", "gaps", "alert"} /\ {failed, told} \subseteq BOOLEAN
    /\ failing \in 0..(Threshold + Remind) /\ probeFaults \in 0..MaxProbeFaults

\* When the heights stay as they are, people come to be told that the syncer is down
\* exactly if one of the heights is too far behind the chain.  That they were told it is
\* down is repeated when a notice is lost; that it is up again is said only once.
AlarmFollows ==
    <>[](told = (scanHeight = 0 \/ chainHeight - nodeHeight > MaxGap \/ chainHeight - scanHeight > MaxGap))

\* The height of the storage node comes to be stored.
HeightFollows == <>[](heightRow = nodeHeight)
=============================================================================

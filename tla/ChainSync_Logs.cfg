SPECIFICATION Spec
CONSTANTS
    Kinds = {"empty", "busy"}
    InitHead = 1
    BranchGain = 0
    MaxHead = 4
    MaxReorgs = 1
    BlockWhenFlowCreated = 0
    DelayBlocksAgainstLatest = 2
    BatchBlocksOnCatchup = 0
    ByLogs = TRUE
    GapLimit = 4
    BatchSize = 6
    Uint64Mod = 16
    MaxFaults = 1
    MaxCrashes = 1
    ReorgDuringFetch = FALSE
    ReorgBeforeCatchup = FALSE
INVARIANTS
    StoreOnOneBranch
    KeepsDelay
CHECK_DEADLOCK FALSE

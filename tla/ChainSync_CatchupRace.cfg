SPECIFICATION Spec
CONSTANTS
    Kinds = {"idle", "busy"}
    InitHead = 2
    BranchGain = 0
    MaxHead = 4
    MaxReorgs = 1
    BlockWhenFlowCreated = 2
    DelayBlocksAgainstLatest = 1
    BatchBlocksOnCatchup = 2
    ByLogs = FALSE
    GapLimit = 2
    BatchSize = 2
    Uint64Mod = 16
    MaxFaults = 1
    MaxCrashes = 1
    ReorgDuringFetch = TRUE
    ReorgBeforeCatchup = TRUE
INVARIANTS
    CanonicalTipComplete
CHECK_DEADLOCK FALSE

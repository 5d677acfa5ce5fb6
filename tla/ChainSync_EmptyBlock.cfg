SPECIFICATION Spec
CONSTANTS
    Kinds = {"empty", "busy"}
    InitHead = 2
    BranchGain = 0
    MaxHead = 4
    MaxReorgs = 1
    BlockWhenFlowCreated = 2
    DelayBlocksAgainstLatest = 0
    BatchBlocksOnCatchup = 2
    ByLogs = FALSE
    GapLimit = 2
    BatchSize = 2
    Uint64Mod = 16
    MaxFaults = 1
    MaxCrashes = 1
    ReorgDuringFetch = TRUE
    ReorgBeforeCatchup = FALSE
INVARIANTS
    CanonicalTipComplete
CHECK_DEADLOCK FALSE

SPECIFICATION FairSpec
CONSTANTS
    Kinds = {"busy", "alien"}
    InitHead = 2
    BranchGain = 1
    MaxHead = 4
    MaxReorgs = 2
    BlockWhenFlowCreated = 2
    DelayBlocksAgainstLatest = 1
    BatchBlocksOnCatchup = 2
    ByLogs = FALSE
    GapLimit = 2
    BatchSize = 2
    Uint64Mod = 16
    MaxFaults = 1
    MaxCrashes = 0
    ReorgDuringFetch = TRUE
    ReorgBeforeCatchup = FALSE
PROPERTIES
    CatchesUp
CHECK_DEADLOCK FALSE

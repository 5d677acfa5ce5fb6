SPECIFICATION Spec
CONSTANTS
    Kinds = {"busy", "bare"}
    InitHead = 2
    BranchGain = 0
    MaxHead = 4
    MaxReorgs = 1
    BlockWhenFlowCreated = 2
    DelayBlocksAgainstLatest = 1
    BatchBlocksOnCatchup = 2
    ByLogs = FALSE
    GapLimit = 2
    BatchSize = 2
    Uint64Mod = 16
    MaxFaults = 1
    MaxCrashes = 1
    ReorgDuringFetch = TRUE
    ReorgBeforeCatchup = FALSE
INVARIANTS TypeOK StoreOnOneBranch CanonicalTipComplete
PROPERTIES CanonicalRowsStay ImplementsIndex
CHECK_DEADLOCK FALSE

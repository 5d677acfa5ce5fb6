SPECIFICATION FairSpec
CONSTANTS
    Contents <- MCContents
    PartitionSize = 2
    EpochAtPartition = FALSE
    MaxBlocks = 3
    MaxReorgs = 1
    MaxFaults = 1
INVARIANTS
    RowsFollow
    UpdatesFollow
PROPERTIES
    ChainStored
CHECK_DEADLOCK FALSE

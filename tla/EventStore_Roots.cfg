SPECIFICATION FairSpec
CONSTANTS
    Contents <- MCTwoRoots
    PartitionSize = 2
    EpochAtPartition = FALSE
    MaxBlocks = 3
    MaxReorgs = 1
    MaxFaults = 1
CHECK_DEADLOCK FALSE
PROPERTY EveryBlockStored

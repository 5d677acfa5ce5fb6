SPECIFICATION FairSpec
CONSTANTS
    s1 = s1
    s2 = s2
    s3 = s3
    Senders = {s1, s2, s3}
    Hour = 2
    Day = 4
    StartTime = 2
    SenderAt <- MCSenderAt
    Times = {1, 3, 4, 5}
    MaxBlocks = 3
    MaxPops = 1
    PopInGate = FALSE
    Items = {0, 1, 2, 3, 4, 5}
    IndexOf <- MCIndexOf
    BlockOf <- MCBlockOf
    Key <- MCKey
    Tx <- MCTx
    TopnSize = 2
    TopnBatch = 3
    RewardBegin = 1
    TimeOf <- MCTimeOf
    Second = 2
    Interval = 4
    RangeHour = 8
    Spans = {8, 16}
    RangeStartTime = 0
    MaxClock = 36
    NumFiles = 5
    Sender <- MCSender
    ExpiredBatch = 2
    MaxCrashes = 2
    ExpiredFaults = 2
    MaxFaults = 1
INVARIANTS
    RowsExact
    ActiveAreKnown
    RankingFollows
    WindowExact
    OnlyExpired
PROPERTIES
    RankedOnce
    ImplementsCountOnce
    EverythingCounted
CHECK_DEADLOCK FALSE

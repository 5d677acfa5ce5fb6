SPECIFICATION FairSpec
CONSTANTS
    h1 = h1
    h2 = h2
    m1 = m1
    m2 = m2
    m3 = m3
    Providers = {1, 2, 3}
    Hosts = {h1, h2}
    HostOf <- MCHostOf
    NodeChanges = 2
    Roots = {1, 2}
    ClassPageLimit = 1
    ChunkSize = 1
    MaxFiles = 2
    FileChanges = 4
    MaxSubmits = 3
    L1Batch = 2
    MaxReorgs = 2
    MaxPruned = 1
    Attempts = {1, 2, 3, 4, 5}
    Miners = {m1, m2, m3}
    BlockOf <- MCBlockOf
    By <- MCBy
    RegisteredAt <- MCUnregistered
    NumBlocks = 4
    AttemptsBatch = 2
    MaxCrashes = 2
    AttemptsFaults = 2
    MaxGap = 1
    Threshold = 2
    Remind = 2
    LostNotices = {"down"}
    MaxHeight = 4
    MaxProbeFaults = 3
    PageLimit = 2
    MaxFaults = 1
INVARIANTS
    PassedArePatched
    CountedAtMostOnce
PROPERTIES
    ReportedAreSpared
    SourcesFollowed
    CachedAreSpared
    ClassFollowsHotSet
    UntouchedPatched
    CountsOnceWhileRunning
    CountedWhileRunning
    AlarmFollows
CHECK_DEADLOCK FALSE

SPECIFICATION FairSpec
CONSTANTS
    StatWorkers <- MCStatWorkers
    ExpiryWorker = "expired"
    RewardContracts <- MCRewardContracts
    NoSeconds = 0
    ContractEnabled = TRUE
    ContractDAEnabled = TRUE
    ChargesToken = TRUE
    APIServers = {"api"}
    SlowSelect = FALSE
    MaxDisturbances = 2
    Clients = {c1, c2}
    StrategyIDs = {1, 2}
    MaxKeyChanges = 2
    MaxKeyFaults = 2
    Missing = Missing
    Untyped = Untyped
    Failed = Failed
    Panicked = Panicked
    NoEntry = NoEntry
    Names = {default, vip}
    DefaultStrategy = default
    Resources = {api}
    Values <- MCValues
    NoRule = 0
    Malformed = Malformed
    MaxIDs = 3
    CanRename = FALSE
    Requests = {q1}
    MaxEdits = 2
    MaxReloadFaults = 1
    Spans = {day, week}
    Overall = overall
    MaxVersion = 1
    MaxReadFaults = 1
    Owners = {a1, a2, a3}
    Address = a1
    NoName = NoName
    FirstIndex = 0
    MaxRows = 4
    PageSize = 2
    Lists = {"submits", "submits of tx", "address submits", "address submits of tx", "rewards",
        "address rewards", "da submits", "da submits of tx", "da rewards", "stats", "miners"}
    Lifetime = 1
    Soon = 2
    NoRow = NoRow
    MaxFiles = 2
    MaxTime = 4
    MaxWins = 2
INVARIANTS
    SameExpiry
    NothingSkipped
    FailureIsLocal
    LimitersCurrent
    ListsComplete
PROPERTIES
    ComesUp
    NeverOlder
    MemoryFollows
CHECK_DEADLOCK FALSE

SPECIFICATION FairSpec
CONSTANTS
    s1 = s1
    s2 = s2
    NumFiles = 2
    Senders = {s1}
    Sender <- MCSender
    Latest = 1
    Batch = 2
    MaxRefreshes = 1
    MaxFaults = 2
    MaxCount = 2
INVARIANTS MarkedAreCounted TotalCoversAddresses
PROPERTIES PrunedSettle
CHECK_DEADLOCK FALSE

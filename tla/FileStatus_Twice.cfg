SPECIFICATION Spec
CONSTANTS
    s1 = s1
    s2 = s2
    NumFiles = 2
    Senders = {s1}
    Sender <- MCSender
    Latest = 1
    Batch = 2
    MaxRefreshes = 0
    MaxFaults = 1
    MaxCount = 3
INVARIANTS CountedOnce
CHECK_DEADLOCK FALSE

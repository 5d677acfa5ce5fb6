SPECIFICATION Spec
CONSTANTS
    Clients = {c1, c2}
    StrategyIDs = {1, 2}
    MaxKeyChanges = 1
    MaxKeyFaults = 1
    Missing = Missing
    Untyped = Untyped
    Failed = Failed
    Panicked = Panicked
    NoEntry = NoEntry
INVARIANTS NoRequestPanics
CHECK_DEADLOCK FALSE

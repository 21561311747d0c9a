SPECIFICATION PoolSpec
CONSTANTS
    Items = {a, b}
    Priorities = {0}
    MaxAttempts = 2
    MaxWorkers = 2
    MaxCompletedItems = 1
    CleanupInterval = 1
    BatchSizes = {2}
    MaxStarts = 1
CHECK_DEADLOCK FALSE
INVARIANT OutcomeWhole
PROPERTIES RunEnds ReadyItemsSettle

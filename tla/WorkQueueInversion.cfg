SPECIFICATION FairSpec
CONSTANTS
    Items = {a, b}
    Priorities = {0, 1}
    MaxAttempts = 1
    MaxWorkers = 1
    MaxCompletedItems = 2
    CleanupInterval = 1
    BatchSizes = {2}
    MaxStarts = 1

CHECK_DEADLOCK FALSE
PROPERTY ReadyItemsSettle

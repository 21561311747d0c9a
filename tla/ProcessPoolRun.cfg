SPECIFICATION ProcessRunSpec
CONSTANTS
    Items = {a, b}
    Priorities = {0}
    MaxAttempts = 1
    MaxWorkers = 2
    MaxCompletedItems = 2
    CleanupInterval = 1
    BatchSizes = {2}
    MaxStarts = 1

CHECK_DEADLOCK FALSE
PROPERTY Terminates

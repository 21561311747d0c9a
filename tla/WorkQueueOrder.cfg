SPECIFICATION Spec
CONSTANTS
    Items = {a, b, c}
    Priorities = {0, 1}
    MaxAttempts = 2
    MaxWorkers = 2
    MaxCompletedItems = 1
    CleanupInterval = 2
    BatchSizes = {2}
    MaxStarts = 2
SYMMETRY Symmetry
CONSTRAINT FewRetries
CHECK_DEADLOCK FALSE
INVARIANTS QueueShape DependencyOrder
PROPERTY EvictsOldest

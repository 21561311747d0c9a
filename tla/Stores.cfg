SPECIFICATION StoresSpec
CONSTANTS
    Items = {a, b}
    Priorities = {0, 1}
    MaxAttempts = 2
    MaxWorkers = 1
    MaxCompletedItems = 1
    CleanupInterval = 1
    BatchSizes = {2}
    MaxStarts = 2
    ProjectIds = {1}
    MaxRequests = 3
    Folders = {f1, f2}
    StoredPriorities = {p1}
    Environments = {}
    Cases = {t1}
    Cycles = {y1}
    Executions = {x1}
    LongIds = {f2}
    Rules = {r1}
    Issues = {i1}
    MaxImports = 2
    MaxMoves = 1
    s1 = s1
    s2 = s2
    l1 = l1
    l2 = l2
    Savers = {s1, s2}
    Labels = {l1, l2}
    LabelsOf <- MCLabelsOf
    HasSteps <- MCHasSteps
    MaxSaves = 2
    Updaters = {d1, d2}
    UpdateStatuses = {"done", "failed"}
    PgClients = {c1, c2}
    Connections = {n1, n2}
    Statements = 2
    MaxCalls = 2
    Readers = {r1, r2}
    TimeToLive = 1
    QueryTime = 1
    MaxClock = 3
    MaxVersions = 2
    Sizes = {1, 2, 4}
    EntityKinds = {x, y}
    MaxEntities = 3
    MaxSize = 3
    Nearness = 1
    MinBatch = 1
    MaxBatch = 6
    AsyncItems = {a, b, c}
    AsyncPriorities = {0, 1}
    EntityCounted = {"folders", "test_cases"}
    SourceAmount = 100
    MappedAmounts = {79, 100}
    MaxValidations = 2
    g1 = g1
    g2 = g2
    c1 = c1
    c2 = c2
    y1 = y1
    y2 = y2
    u1 = u1
    u2 = u2
    NoFolder = NoFolder
    TreeFolders = {g1, g2}
    Super <- MCSuper
    ExportMeta = {m1}
    ExportCases = {c1, c2}
    Versioned = {c2}
    ExportCycles = {y1, y2}
    ExportPlans = {q1}
    Runs = {u1, u2}
    CaseOf <- MCCaseOf
    CycleOf <- MCCycleOf
    Dated = {u2, y2, c2, q1}
    MaxExports = 2
    MaxEdits = 1
    MaxStored = 1
    Workers = {w1, w2}
    MaxUnits = 2
    ReadKinds <- MCReadKinds
    Extents <- MCExtents
    TrackedSize = 2
    Databases <- MCDatabases
    MaxPhaseStarts = 3
    MaxReadings = 1
CHECK_DEADLOCK FALSE
INVARIANTS
    TypeOK NoDuplicates QueueTracksPending AttemptBound ExecutingIsRunning
    BookkeepingAgrees
     DatabasesSound   ValidationSound
PROPERTIES
    FinalStatus ImplementsItems 

SPECIFICATION ServicesSpec
CONSTANTS
    Callers = {c1, c2}
    AuthRetries = 1
    WindowBudget = 2
    LastWindow = 1
    MaxApiCalls = 2
    Requesters = {t1, t2}
    Endpoints = {e1, e2}
    Threshold = 2
    ZephyrRetries = 1
    IdleTime = 1
    MaxZephyrCalls = 3
    MaxTime = 2
    MaxResets = 1
    PageSizes = {1, 2}
    MaxItems = 5
    MaxChanges = 2
    file1 = file1
    file2 = file2
    file3 = file3
    UploadFiles <- MCUploadFiles
    MissingFiles = {file3}
    UploadWorkers = 2
    MaxUploadRuns = 2
    BaseUrls = {u1, u2}
    AsyncUsers = {a1}
    OuterUsers = {o1}
    Closers = {k1}
    MaxClients = 3
    Kinds = {k1, k2, k3}
    ProjectKeys <- MCProjectKeys
    FetchWorkers = 2
    MaxRaises = 2
    Entities = {e1, e2}
    MaxCommands = 2
    MaxZephyrChanges = 1
    Keys = {1, 2, 3, 4}
    ChunkSize = 2
    MaxEdits = 2
    RetryCallers = {t1, t2}
    MaxRetries = 2
    Samples <- MCSamples
    Bodies <- MCBodies
    Listings <- MCListings
    ServedSizes = {1, 2}
    MaxPosts = 3
    h1 = h1
    v1 = v1
    v2 = v2
    q1 = q1
    j1 = j1
    ChangedCases = {h1}
    ChangedCycles = {v1, v2}
    ChangedExecutions = {q1}
    CaseFolders = {j1}
    RefsTo <- MCRefsTo
    Undated = {v1}
    MaxMoments = 4
    IndexManagers = {"m1", "m2"}
    SchemaIndexes <- MCSchemaIndexes
    ForeignKeys <- MCForeignKeys
    ColumnsOf <- MCColumnsOf
    Recommended <- MCRecommended
    Asked <- MCAsked
    Filtered <- MCFiltered
    Keywords <- MCKeywords
    HashOf <- MCHashOf
    MaxWords = 4
    MaxJobs = 1
CHECK_DEADLOCK FALSE
INVARIANTS
      CircuitsSound  RegistrySound
     
PROPERTIES
     EveryCallEnds

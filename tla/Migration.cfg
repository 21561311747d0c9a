SPECIFICATION Spec
CONSTANTS
    outer = outer
    Folders = {outer, inner1, inner2}
    TestCases = {}
    TestCycles = {}
    Executions = {execution}
    Level <- MCLevel
    Refs <- MCRefs
    BatchSize = 2
    MaxRuns = 2
INVARIANTS
    TypeOK
    PhasesInOrder
    MappingsExist
    
    BatchesSaved
PROPERTIES
    InputsFrozen
SYMMETRY Symmetry
CHECK_DEADLOCK FALSE

SPECIFICATION Spec
CONSTANTS
    outer = outer
    Folders = {outer}
    TestCases = {case}
    TestCycles = {}
    Executions = {}
    Level <- MCLevel
    Refs <- MCRefs
    BatchSize = 2
    MaxRuns = 2
INVARIANTS
    CreatedOnce
CHECK_DEADLOCK FALSE

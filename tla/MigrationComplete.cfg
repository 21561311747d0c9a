SPECIFICATION FaultlessSpec
CONSTANTS
    outer = outer
    Folders = {outer, inner}
    TestCases = {case}
    TestCycles = {cycle}
    Executions = {execution}
    Level <- MCLevel
    Refs <- MCRefs
    BatchSize = 2
    MaxRuns = 1
INVARIANTS
    AllMigrated
CHECK_DEADLOCK FALSE

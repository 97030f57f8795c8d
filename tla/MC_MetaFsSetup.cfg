CONSTANTS
    Names = {a1, a2}
    Ids = {0, 1}
    FileSystems = {f1, f2}
    Null = Null
    TotalCount = 3
    SchedSets = {{1}, {0, 2}, {2, 3}}
    WorkSets = {{}, {0, 1, 2}, {1, 3}, {0, 2, 3}}
    StrayDeregister = FALSE
    MaxFaults = 1
SPECIFICATION Spec
INVARIANT LookupCurrent
INVARIANT ThreadsWired
PROPERTY ReportedResult

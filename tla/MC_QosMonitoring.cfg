CONSTANTS
    Volumes = {1, 2}
    Reactors = {r1, r2}
    StabilityCycleCheck = 10
    MaxStalls = 1
    Workers = 2
    Events = 1
    MaxEvents = 2
SPECIFICATION Spec
INVARIANT TotalConnectionCorrect
PROPERTY ResetAfterQuietPeriod
INVARIANT EventEntriesAccounted

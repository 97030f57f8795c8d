CONSTANTS
    Volumes = {1, 2}
    Reactors = {r1, r2}
    StabilityCycleCheck = 10
    MaxStalls = 1
    Workers = 1
    Events = 1
    MaxEvents = 0
SPECIFICATION Spec
INVARIANT SettledChangeCorrected

\* Submits may fail and be retried; the system is not stopping.
CONSTANTS
    Lsids = {0, 1, 2}
    Tails = {1, 2}
    MaxRecords = 3
    MaxSkips = 1
    None = None
    MaxTranslateFailures = 1
    MaxSubmitFailures = 1
    MaxStops = 0
SPECIFICATION Spec
INVARIANT ReplayFlushDrains
CHECK_DEADLOCK FALSE

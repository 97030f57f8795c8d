CONSTANTS
    Lsids = {0, 1, 2}
    Tails = {1, 2}
    MaxRecords = 3
    MaxSkips = 1
    None = None
    MaxTranslateFailures = 1
    MaxSubmitFailures = 1
    MaxStops = 1
SPECIFICATION Spec
INVARIANT TailsReconstructed
\* Replay ends: the task is destroyed and every flush event has finished.
CHECK_DEADLOCK FALSE

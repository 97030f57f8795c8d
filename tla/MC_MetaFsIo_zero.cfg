\* Callers may pass a byte size of 0 to the partial Read/Write and to
\* SubmitIO at a non-zero offset.
CONSTANTS
    Callers = {c1}
    MaxCalls = 1
    NumWorkers = 2
    ChunkSize = 2
    f1 = f1
    f2 = f2
    f3 = f3
    Fds = {f1}
    FileOf <- MCFileOf
    NoFile = NoFile
    Offsets = {0, 1, 2, 3}
    Sizes = {0, 1}
    Priorities = {1}
    NormalPrio = 1
    MaxStatusChanges = 1
    W = 4
    NoReq = NoReq
SPECIFICATION Spec
PROPERTY CallReturns
CHECK_DEADLOCK FALSE

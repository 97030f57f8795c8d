\* FileSizeType narrowed to 3 bits: a byte size of 7 stands for a size
\* close to 2^64, for which offset + size wraps in _CheckFileIoBoundary.
CONSTANTS
    Callers = {c1}
    MaxCalls = 1
    NumWorkers = 2
    ChunkSize = 2
    f1 = f1
    f2 = f2
    f3 = f3
    Fds = {f1}
    FileOf <- MCFileOf
    NoFile = NoFile
    Offsets = {0, 1, 2, 3}
    Sizes = {1, 7}
    Priorities = {1}
    NormalPrio = 1
    MaxStatusChanges = 1
    W = 3
    NoReq = NoReq
SPECIFICATION Spec
INVARIANT AcceptedInsideFile
CHECK_DEADLOCK FALSE

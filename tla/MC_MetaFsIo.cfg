CONSTANTS
    Callers = {c1, c2}
    MaxCalls = 1
    NumWorkers = 2
    ChunkSize = 2
    f1 = f1
    f2 = f2
    f3 = f3
    Fds = {f1, f2, f3}
    FileOf <- MCFileOf
    NoFile = NoFile
    Offsets = {1, 3}
    Sizes = {1, 2, 4}
    Priorities = {1, 2}
    NormalPrio = 1
    MaxStatusChanges = 2
    W = 4
    NoReq = NoReq
SPECIFICATION Spec
INVARIANT TypeOK
INVARIANT PageExclusive
INVARIANT CompletionExactlyOnce
INVARIANT FragmentationCorrect
PROPERTY CallReturns
PROPERTY AbsSpec
\* Once every call has returned the scheduler and the workers block on
\* their empty queues (MetaFsIoMultilevelQ::Dequeue): the system stops by
\* design; a call that never returns is caught by CallReturns.
CHECK_DEADLOCK FALSE

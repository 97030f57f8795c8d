CONSTANTS
    Callers = {c1, c2}
    MaxCalls = 2
    ChunkSize = 2
    f1 = f1
    f2 = f2
    FileOf <- MCFileOf
    NoFile = NoFile
    Requests <- MCRequests
    MaxStatusChanges = 2
    NoReq = NoReq
    NoCtx = NoCtx
SPECIFICATION Spec
INVARIANT NoCtxLeak
\* Each caller makes MaxCalls calls; once all have returned nothing is left
\* to do.
CHECK_DEADLOCK FALSE

CONSTANTS
    Names = {n1, n2, n3}
    FileSizes = {1, 2, 3}
    ChunkSize = 2
    NumLpns = 5
    NumEntries = 3
    MaxSaveFailures = 1
    None = None
SPECIFICATION Spec
INVARIANT FilesOwnTheirPages
CHECK_DEADLOCK FALSE

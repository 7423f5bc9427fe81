SPECIFICATION Spec
CONSTANTS
    MaxFileCount = 4
    MaxBlockCount = 8
    MaxSolidGroupCount = 4
    MaxTotalDecompressed = 8
    MaxTotalInput = 8
    MaxSolidGroupSize = 4
    ChunkSize = 2
    NestedArchive = "z"
    NestedFooter <- MCNestedFooter
    StoredTypes <- MCStored
    Calls <- MCOutsideCalls
    MCFullFiles = 1
    MCLongFiles = 1
    MCSealedFiles = 0
INVARIANT FinishedPathsRelative
CHECK_DEADLOCK FALSE

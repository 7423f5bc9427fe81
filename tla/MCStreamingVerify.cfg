SPECIFICATION Spec
CONSTANTS
    MaxFileCount = 4
    MaxBlockCount = 8
    MaxSolidGroupCount = 4
    MaxTotalDecompressed = 8
    MaxTotalInput = 8
    MaxSolidGroupSize = 4
    ChunkSize = 2
    NestedArchive = "z"
    NestedFooter <- MCNestedFooter
    StoredTypes <- MCStored
    Calls <- MCCalls
    MCFullFiles = 1
    MCLongFiles = 1
    MCSealedFiles = 0
INVARIANT StreamingVerifySound
CHECK_DEADLOCK FALSE

SPECIFICATION Spec
CONSTANTS
    MaxFileCount = 4
    MaxBlockCount = 8
    MaxSolidGroupCount = 4
    MaxTotalDecompressed = 7
    MaxTotalInput = 7
    MaxSolidGroupSize = 4
    ChunkSize = 2
    NestedArchive = "z"
    NestedFooter <- MCNestedFooter
    StoredTypes <- MCStored
    Calls <- MCCalls
    MCFullFiles = 2
    MCLongFiles = 3
    MCSealedFiles = 2
INVARIANTS TypeOK CrashSafe SingleFileSafe GroupsPartitionFiles GroupSizeBound AcceptedHasAllBlocks VerifySound FinishedReadsBack LayoutReproducible
PROPERTIES PatchKeepsBlocks
CHECK_DEADLOCK FALSE

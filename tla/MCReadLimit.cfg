SPECIFICATION Spec
CONSTANTS
    MaxBlockSize = 4
    MaxTotalCompressedRead = 9
    MaxTotalDecompressed = 4
    Modes = {"parallel", "sequential", "streaming"}
    MCBlocks = 3
    MCOverhead = 1
    MCTag = 1
    Archives <- MCArchives
INVARIANT ReadLimitMatches
CHECK_DEADLOCK FALSE

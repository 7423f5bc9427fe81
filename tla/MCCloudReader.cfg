SPECIFICATION Spec
CONSTANTS
    Lengths <- MCLengths
    Objects <- MCObjects
    Bytes <- MCBytes
    ReadSizes = {0, 1, 2, 4}
    SeekOffsets <- MCSeekOffsets
    BufferSize = 2
    MaxFetch = 3
    MaxOffset = 6
INVARIANTS TypeOK BufferOfOneVersion
PROPERTIES ImplementsRemoteObject
CHECK_DEADLOCK FALSE

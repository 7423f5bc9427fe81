SPECIFICATION FairSpec
CONSTANTS
    Requests = {"r1", "r2"}
    Permits = 1
    MaxServerFileCount = 3
    Stems = {"", "file", "a"}
    Data = {1, 2, 3, 4}
    Bodies <- MCBodies
INVARIANTS NoUploadLost NoDirLeft
PROPERTIES AnsweredInTime
CHECK_DEADLOCK FALSE

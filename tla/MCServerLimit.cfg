SPECIFICATION Spec
CONSTANTS
    Requests = {"r1", "r2"}
    Permits = 1
    MaxServerFileCount = 3
    Stems = {"", "file", "a"}
    Data = {1, 2, 3, 4}
    Bodies <- MCBodies
INVARIANTS BlockingBounded
CHECK_DEADLOCK FALSE

SPECIFICATION Spec
CONSTANTS
    Vaults = {n1, n2}
    Passwords = {pw1, pw2, short}
    Weak = {short}
    Costs = {2, 9}
    MinCost = 1
    DefaultCost = 2
    MaxCost = 3
    MaxId = 1
    Plaintexts = {x, y}
    MaxDamage = 2
    Process = {n1, n2}
    Path <- MCPath
    Jobs <- MCJobs
    InitialFs <- MCInitialFs
    WeakPasswords = {"bad"}
    MaxCommands = 4
    Thread = {n1, n2}
    MaxAlloc = 12
    ArchivePath = {"a"}
    ArchiveContent <- MCArchiveContent
    MaxFfiFiles = 2
    MaxCalls = 4
SYMMETRY Symmetry
INVARIANT SealingSound
INVARIANT SuccessReadable
INVARIANT HeapExact
INVARIANT FailuresReported
PROPERTY CompleteFilesKept
CHECK_DEADLOCK FALSE

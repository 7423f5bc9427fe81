SPECIFICATION Spec
CONSTANTS
    Base = 4
    MaxBlock = 200
    ProbTotal = 16
    MaxCache = 3
    RescaleAt = 12
    MaxMagicTotal = 10
    MagicShift = 11
    MaxCount = 6
    MaxBwtInput = 100
    TwoChainMin = 2
    MaxPackedLf = 4
    NibbleMax = 1
    ExtMax = 3
    OffsetBase = 2
    HashSize = 3
    MaxChain = 3
    NiceMatch = 5
    MaxMatch = 6
    MinBytePlane = 8
    MinDelta = 4
    DecisiveUnit = 4
    DecisiveRatio = 3
    MinBwt = 4
    MaxBytes = 5
    MaxBinary = 10
    MaxCoded = 3
    MaxCounted = 4
    MaxPieces = 2
    ZstdSizes = {0, 3, 40}
INVARIANT CdfCodesEverySymbol
INVARIANT RangeCoderRoundTrip
INVARIANT Order0PathsAgree
INVARIANT BwtRoundTrip
INVARIANT RleExact
INVARIANT Lz77RoundTrip
INVARIANT RouterRoundTrip
CHECK_DEADLOCK FALSE

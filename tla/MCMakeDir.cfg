CONSTANTS
    k1 = k1
    k2 = k2
    p1 = p1
    p2 = p2
    p3 = p3
    Unused = Unused
    Key <- MCKey
    Size <- MCSize
    Day <- MCDay
    NoFile = NoFile
    BASE = 4
    PRECISION = 1
    MaxRequests = 2
    MaxCalls = 3
    WORD = 64
    Capacities <- MCCapacities
    BIG = 6
    TINY = 2
    MAX_FILE_SIZE = 50
    FileSizes <- MCFileSizes
    Offsets <- MCOffsets
    MaxRanges = 2
    Process <- MCProcess
    Depth = 3
    Before = Before
    Nobody = Nobody
SYMMETRY KeySymmetry
SPECIFICATION Spec
INVARIANTS
    NoLockNeeded
CHECK_DEADLOCK FALSE

CONSTANTS
    k1 = k1
    k2 = k2
    k3 = k3
    Key <- MCKey
    Size <- MCSize
    BIG = 2
    TINY = 1
    WORD = 64
    Capacities <- MCCapacities
    SegmentCounts = {2, 3, 4}
    NoRequest = NoRequest
    MaxRequests = 4
    MaxCalls = 2
SPECIFICATION CheckpointSpec
INVARIANTS
    SavesAreUsable
CHECK_DEADLOCK FALSE

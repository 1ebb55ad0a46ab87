CONSTANTS
    k1 = k1
    k2 = k2
    k3 = k3
    Key <- MCKey
    Size <- MCSize
    BIG = 3
    TINY = 1
    WORD = 16
    Capacities <- MCCapacities
    Algorithms = {"LRU", "FIFO", "FIFO2"}
    NoRequest = NoRequest
    NoFile = NoFile
    Day <- MCDay
    MaxRequests = 3
    MaxCalls = 2
SYMMETRY KeySymmetry
SPECIFICATION DailySpec
INVARIANTS
    CacheConsistent
    SaveIsComplete
    CheckpointIsPrefix
    LoadKeepsOrder
PROPERTIES
    RestartTransparent
CHECK_DEADLOCK FALSE

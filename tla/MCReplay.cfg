CONSTANTS
    k1 = k1
    k2 = k2
    k3 = k3
    k4 = k4
    Unused = Unused
    Key <- MCKey
    Size <- MCSize
    BIG = 3
    TINY = 1
    WORD = 16
    Capacities <- MCCapacities
    Algorithms = {"LRU", "FIFO", "FIFO2"}
    NoRequest = NoRequest
    MaxRequests = 5
    MaxResets = 2
SYMMETRY KeySymmetry
SPECIFICATION Spec
INVARIANTS
    SmallIsPrefixOfLarge
    HitsAreStackDistances
    CountersAgree
CHECK_DEADLOCK FALSE

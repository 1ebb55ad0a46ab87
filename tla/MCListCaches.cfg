CONSTANTS
    k1 = k1
    k2 = k2
    k3 = k3
    k4 = k4
    Key <- MCKey4
    Size <- MCSize
    BIG = 3
    TINY = 1
    WORD = 16
    Capacities <- MCCapacities
    Algorithms = {"LRU", "FIFO", "FIFO2"}
    NoRequest = NoRequest
SPECIFICATION Spec
INVARIANTS
    TypeOK
    BooksBalance
    StoredIsMostRecent
PROPERTIES
    SecondChance
    ImplementsAbstractCache

CONSTANTS
    k1 = k1
    k2 = k2
    k3 = k3
    k4 = k4
    Unused = Unused
    Key <- MCKey
    Size <- MCSize
    BIG = 2
    TINY = 1
    WORD = 16
    Capacities <- MCCapacities
    NoRequest = NoRequest
    PolicyCapacities <- MCPolicyCapacities
    CapacitiesOf <- MCCapacitiesOf
    TracesOf <- MCTracesOf
    NumQueues = 2
    LifeTime = 2
    MaxTime = 6
    NoFile = NoFile
    TraceLength = 5
    Block = {0, 1}
    BlockOf <- MCBlockOf
    GroupOf <- MCGroupOf
    MAX = 3
    SamplesPerBlock = 3
SPECIFICATION AnySpec
INVARIANTS
    BooksBalance
    DirectoryBounded
    VictimExists
    PolicyBooksBalance
    PolicyVictimExists
    ExpirySorted
    HitsAreOptimal
    EstimatesHold
PROPERTIES
    EvictsForRoomOnly
    PolicyEvictsForRoomOnly
    BottomStaysLIR
CHECK_DEADLOCK FALSE

CONSTANTS
    w1 = w1
    w2 = w2
    w3 = w3
    p1 = p1
    p2 = p2
    Worker <- MCWorker3
    Producer <- MCProducer
    TasksEach = 2
    MaxSizes <- MCMaxSizes
    Free = Free
SPECIFICATION Spec
INVARIANTS
    QueueBounded
    TasksConserved
    SomeoneAwake
PROPERTIES
    EveryTaskRuns
    NotifiedPoolEnds
    ImplementsTaskPool
CHECK_DEADLOCK FALSE

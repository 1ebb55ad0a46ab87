CONSTANTS
    w1 = w1
    w2 = w2
    w3 = w3
    p1 = p1
    p2 = p2
    Worker <- MCWorker
    Producer <- MCProducer
    TasksEach = 0
    MaxSizes <- MCMaxSizes
    Free = Free
SPECIFICATION Spec
PROPERTIES
    DestructorReturns
CHECK_DEADLOCK FALSE

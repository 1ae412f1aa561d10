SPECIFICATION FairSpec
CHECK_DEADLOCK FALSE
CONSTANTS
    Programs = {"ab_ex", "deadlock", "mutex", "mutex1", "join1", "hello", "ex_pthread1",
                "ex_pthread2", "oddevev", "sem_ex1"}
    NLoops = 10
    NThreads = 3
    Pairs = 2
    Last = 4
INVARIANTS
    TypeOK
    Outcome
PROPERTIES
    ImplementsCyclicOutput
    Ends

SPECIFICATION Spec
CHECK_DEADLOCK FALSE
CONSTANTS
    Programs = {"sem_ex1"}
    NLoops = 1
    NThreads = 1
    Pairs = 1
    Last = 1
INVARIANT
    ParentWaitsForBoth

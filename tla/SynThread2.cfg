SPECIFICATION FairThreadsSpec
CONSTANT
    NumThreads = 10
INVARIANTS
    ThreadsTypeOK
    AllPairsAtTheEnd
PROPERTIES
    ImplementsCyclicOutput
    EndsUnlessWaiting

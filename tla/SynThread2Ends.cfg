SPECIFICATION FairThreadsSpec
CONSTANT
    NumThreads = 10
PROPERTY
    ThreadsEnd

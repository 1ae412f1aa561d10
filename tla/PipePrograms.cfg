SPECIFICATION FairSpec
CHECK_DEADLOCK FALSE
CONSTANTS
    Programs = {"draft", "docommand", "pipe_example", "pipe", "twopipes", "pipes", "examplePipe", "launch_job"}
    Items = 2
INVARIANTS
    TypeOK
    Plumbed
    PromptAfterLast
PROPERTIES
    Ends

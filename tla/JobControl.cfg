SPECIFICATION FairSpec
CHECK_DEADLOCK FALSE
CONSTANTS
    Jobs <- TwoJobs
    Size <- PipeAndOne
    MaxCommands = 3
INVARIANTS
    TypeOK
    TerminalAndGroups
    RecordsTrue
PROPERTIES
    PromptReturns

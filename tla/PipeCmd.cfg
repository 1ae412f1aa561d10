SPECIFICATION FairSpec
CONSTANTS
    NumPipes = 2
    Produce = 2
    Capacity = 1
    MaxStops = 1
INVARIANTS
    TypeOK
    PromptAfterLastCommand
    EofMeansAllDelivered
    Plumbed
PROPERTIES
    PipelineEnds
    ImplementsForeground

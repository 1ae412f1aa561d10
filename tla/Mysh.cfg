SPECIFICATION Spec
CONSTANTS
    Shells <- AllShells
    Symbols <- AllSymbols
    Scripts <- AllScripts
    Seekable = FALSE
    MaxStops = 1
INVARIANTS
    TypeOK
    TakenApart
    CdGoesThere
    EndsOnlyByExit
PROPERTIES
    ScriptServed
    ImplementsForeground

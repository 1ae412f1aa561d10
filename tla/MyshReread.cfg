SPECIFICATION Spec
CONSTANTS
    Shells <- AllShells
    Symbols <- AllSymbols
    Scripts <- LongScripts
    Seekable = TRUE
    MaxStops = 0
PROPERTY
    EachLineOnce

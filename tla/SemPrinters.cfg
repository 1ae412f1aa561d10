SPECIFICATION Spec
CONSTANTS
    NumProc = 3
    Programs <- AllPrograms
INVARIANTS
    TypeOK
    WholeMessages
    AllPrinted
PROPERTY
    Ends

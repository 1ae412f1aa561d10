SPECIFICATION Spec
CONSTANTS
    N = 3
    P = 2
    Rounds = 3
INVARIANTS
    TypeOK
    ElementsBounded
PROPERTIES
    IndexZeroGrows
    Ends

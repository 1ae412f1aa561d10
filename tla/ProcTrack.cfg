SPECIFICATION FairSpec
CONSTANTS
    Programs = {"proc1", "basic_sem"}
    Rounds = 3
    Chars = 2
    MaxKills = 2
INVARIANTS
    TypeOK
    OneOnTrack
PROPERTIES
    MessagesWhole
    AllEnd

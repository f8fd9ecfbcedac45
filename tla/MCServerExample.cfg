SPECIFICATION Spec
CONSTANTS
    Clients = {c1, c2, c3, c4}
    None = none
INVARIANTS
    TypeOK
    NobodyOverlooked
PROPERTIES
    WaitingTaken
    StopEnds
CHECK_DEADLOCK FALSE

SPECIFICATION FairSpec
CONSTANTS
    Workers = {w1, w2, w3}
    Posters = {p1, p2}
    Owner = owner
    NoThread = nobody
    Jobs = {j1, j2}
    Null = null
    DefaultSize = 2
INVARIANTS
    TypeOK
    PairsWhole
    QueueOfPairs
    WorkNeverStranded
    BreakLeavesNothing
PROPERTIES
    ImplementsJobPool
    PostedJobsRun
    OneAwakeEndsAll
CHECK_DEADLOCK FALSE

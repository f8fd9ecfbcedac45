SPECIFICATION FairSpec
CONSTANTS
    Workers = {w1, w2}
    Posters = {p1}
    Owner = owner
    NoThread = nobody
    Jobs = {j1}
    Null = null
    DefaultSize = 2
PROPERTY JoinReturns
CHECK_DEADLOCK FALSE

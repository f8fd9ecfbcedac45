SPECIFICATION Spec
CONSTANTS
    Workers = {w1, w2}
    Posters = {p1}
    Owner = owner
    NoThread = nobody
    Jobs = {j1, j2}
    Null = null
    DefaultSize = 2
INVARIANT JoinMeansAllDone
CHECK_DEADLOCK FALSE

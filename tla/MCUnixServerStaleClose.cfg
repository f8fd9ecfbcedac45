SPECIFICATION Spec
CONSTANTS
    Conns = {c1, c2}
    Nobody = nobody
    MaxFd = 1
    MaxSends = 1
    MayReset = FALSE
    NoThread = nothread
    Workers = {w1}
    Acceptor = acceptor
    Selector = selector
    Main = main
PROPERTY ClosesOnlyHungUp
CHECK_DEADLOCK FALSE

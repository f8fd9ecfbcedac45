SPECIFICATION Spec
CONSTANTS
    Conns = {c1, c2}
    Nobody = nobody
    MaxFd = 2
    MaxSends = 1
    MayReset = TRUE
    NoThread = nothread
    Workers = {w1}
    Acceptor = acceptor
    Selector = selector
    Main = main
SYMMETRY MCSymmetry
CONSTRAINT Bounded
INVARIANTS
    TypeOK
    ClientsTracked
    NothingLeftOpen
    StackIsCurrent
    OnlyTheGoneMissOut
    OnlyTheGoneBreakThePipe
PROPERTIES
    ImplementsEndpoint
CHECK_DEADLOCK FALSE

SPECIFICATION LiveSpec
CONSTANTS
    Conns = {c1, c2}
    Talker = c1
    Nobody = nobody
    MaxFd = 1
    MaxSends = 3
    MayReset = TRUE
    NoThread = nothread
    Workers = {w1}
    Acceptor = acceptor
    Selector = selector
    Main = main
PROPERTIES
    HungUpClosed
    ServedWhenClientsLeave
CHECK_DEADLOCK FALSE

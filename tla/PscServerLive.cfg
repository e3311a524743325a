CONSTANTS
    Conns = {c1, c2}
    Broadcasters = {lstats}
    N = 1
    MaxFd = 2
    LISTEN = LISTEN
    NONE = NONE
SPECIFICATION FairSpec
PROPERTIES PoolSpec SendReturns AcceptorReturns HandlerEnds

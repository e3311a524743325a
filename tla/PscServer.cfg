CONSTANTS
    Conns = {c1, c2, c3}
    Broadcasters = {lstats}
    N = 2
    MaxFd = 3
    LISTEN = LISTEN
    NONE = NONE
SPECIFICATION Spec
SYMMETRY Symmetry
INVARIANTS TypeOK SlotOwnership FramesWhole NoSocketLeak OwnWhileOpen

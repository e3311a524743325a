SPECIFICATION Spec
CONSTANTS
    Readers <- MCReaders
    Content <- MCContent
    Old <- MCOld
    BLK = 3
    BlkMod = 65536
    Timeout = 1
    MaxRetries = 1
    MaxArmed = 2
    MaxFaults = 1
    NoPeer = NoPeer
    NoData = NoData
INVARIANTS WriteSafe WriteInOrder ReadWhole TimerGuards
PROPERTY QuietCloses
CHECK_DEADLOCK FALSE

CONSTANTS
    Hdr = 2
    RegId = 1
    Chunk = 2
    RxMax = 2
    Msgs <- MCMsgs
    Garbage = {0, 3}
SPECIFICATION FairSpec
INVARIANTS TypeOK Contiguous InOrder SkipInBuffer
PROPERTY PeerGoneNoticed
CHECK_DEADLOCK FALSE

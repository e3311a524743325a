SPECIFICATION Spec
CONSTANTS
    NetFiles <- MCNetFiles
    NoAddr = "zero"
    Pool = 2
    MaxDatagrams = 2
    LmkRegs = 1
    FineMs = 500
    CoarseMs = 1000
    Leases = {"lease"}
    MaxLosses = 1
INVARIANTS TypeOK ConfMeaning CardSettled
PROPERTY ComesUp
CHECK_DEADLOCK FALSE

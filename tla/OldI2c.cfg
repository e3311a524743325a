SPECIFICATION Spec
CONSTANTS
    LmkRegs = 2
    SfpSlots = 2
    MaxMenu = 1
    MaxBursts = 2
    MaxNacks = 1
    MaxBoots = 2
INVARIANTS NoStray PageInStep NetAsStored
PROPERTY SavedUnlessLost
CHECK_DEADLOCK FALSE

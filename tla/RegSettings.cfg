SPECIFICATION Spec
CONSTANTS
    Slots = {s1, s2}
    Console = console
    Bodies <- MCBodies
    MaxConns = 3
    MaxMsgs = 3
INVARIANTS OwnWords PulsesInStep KeylockInStep
SYMMETRY SlotSymmetry
CHECK_DEADLOCK FALSE

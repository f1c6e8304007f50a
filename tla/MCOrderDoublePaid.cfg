SPECIFICATION AloneSpec
CONSTANTS
    Frames = {f1, f2}
    Calls <- PaidCallbacks
    MaxActive = 2
    Faults = FALSE
SYMMETRY Symmetry
INVARIANTS
    AtMostOnePaid
CHECK_DEADLOCK FALSE

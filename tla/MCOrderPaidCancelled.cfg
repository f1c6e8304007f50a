SPECIFICATION AloneSpec
CONSTANTS
    Frames = {f1}
    Calls <- ConfirmedEvents
    MaxActive = 1
    Faults = FALSE
SYMMETRY Symmetry
INVARIANTS
    ConfirmedPaymentKeepsOrder
CHECK_DEADLOCK FALSE

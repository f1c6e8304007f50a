SPECIFICATION AloneSpec
CONSTANTS
    Frames = {f1, f2, f3}
    Calls <- AllCalls
    MaxActive = 3
    Faults = TRUE
SYMMETRY Symmetry
INVARIANTS
    TypeOK
    RefundedOnlyAfterShipping
    PaidFlagBacked
    PaidLeavesPending
    AloneChargedOnce
PROPERTIES
    HistoryRecordsStatuses
    AloneKeepsMatrix
CHECK_DEADLOCK FALSE

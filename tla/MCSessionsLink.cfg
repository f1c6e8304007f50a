SPECIFICATION AloneSpec
CONSTANTS
    Users = {u1}
    Frames = {f1, f2}
    MaxSessions = 1
    MaxSeconds = 1
    MaxResets = 2
SYMMETRY Symmetry
INVARIANTS
    LinkUsedOnce
CHECK_DEADLOCK FALSE

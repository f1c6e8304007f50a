SPECIFICATION AloneSpec
CONSTANTS
    Users = {u1}
    Frames = {f1, f2}
    MaxSessions = 2
    MaxSeconds = 2
    MaxResets = 2
SYMMETRY Symmetry
INVARIANTS
    TypeOK
    WelcomedOnce
    SessionsAreVerified
    ResetEndsSessions
    DeletionEndsSessions
    UsedLinkIsDead
    AloneIsSafe
PROPERTIES
    RefinesSessionLife
CHECK_DEADLOCK FALSE

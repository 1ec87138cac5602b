SPECIFICATION Spec
CHECK_DEADLOCK FALSE
CONSTANTS
    Starters = {s1, s2}
    Stoppers = {t1}
    Operators = {o1}
    Boot = boot
    MaxSessions = 2
    MaxOps = 3
    MaxTroubles = 1
INVARIANTS
    OneSession
    ScopeFollowsSession
    TracingPutBack
    CaptureFollowsSession
PROPERTY
    OrphanClosed

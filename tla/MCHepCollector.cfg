SPECIFICATION HepSpec
CONSTANTS
    Datagrams <- MCDatagrams
    Sessions <- TwoSessions
    TagOnly <- OneSession
    Starters = {s1, s2}
    Stoppers = {t1, t2}
    Boot = boot
    FlushAt = 1
    MaxQueue = 1
    SnapshotLimit = 1
    MaxDatagrams = 3
    MaxOps = 3
    MaxHepTroubles = 1
INVARIANTS Accounted CountedInSnapshot
PROPERTIES SealedAfterStop NewerScopeKept
SYMMETRY HandlerSymmetry
CHECK_DEADLOCK FALSE

SPECIFICATION RoutesSpec
CONSTANTS
    Requests = {r1, r2}
    Timers = {t1}
    Imsis = {i1, i2}
    Dnns = {d1}
    Cidrs = {c1}
    Devs = {ogstun, tun2}
    Ogstun = ogstun
    NoDev = none
    MaxOps = 2
    MaxTroubles = 1
    r1 = r1
    r2 = r2
    t1 = t1
    i1 = i1
    i2 = i2
    c1 = c1
    d1 = d1
    ogstun = ogstun
    tun2 = tun2
    none = none
INVARIANTS RoutesExplained
PROPERTIES QuietSync EventuallyRouted
CHECK_DEADLOCK FALSE

SPECIFICATION Spec
CONSTANTS
    Requests = {r1, r2}
    Timers = {t1}
    Ips = {i1}
    Ports = {1, 2}
    Slots = {1, 2}
    MaxOps = 2
    MaxTroubles = 1
    i1 = i1
    r1 = r1
    r2 = r2
    t1 = t1
INVARIANT CopiesBounded
PROPERTIES QuietAnswer Settles

SPECIFICATION UeSpec
CONSTANTS
    Handlers = {r1}
    Timers = {t1}
    Imsis = {u1}
    Ips = {i1, i2}
    MaxUeEvents = 3
    RowsAtBoot <- MCRowsAtBoot
    AddrsAtBoot <- MCAddrsAtBoot
    Absent = Absent
    NoIp = NoIp
    u1 = u1
    i1 = i1
    i2 = i2
    r1 = r1
    t1 = t1
INVARIANTS RowTrue
PROPERTIES UnblockedClear BlockedDropped

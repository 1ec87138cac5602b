SPECIFICATION Spec
CONSTANTS
    Interval = 2
    Cooldown = 3
    Window = 7
    MaxRestarts = 2
    MaxTime = 8
    Prefixes = {radio, other}
    Required = {radio}
    Nexthops = {n1}
    NoRoute = none
    MaxEvents = 2
    radio = radio
    other = other
    n1 = n1
    none = none
INVARIANTS LimitsKept NothingForgotten VerdictJustified
CHECK_DEADLOCK FALSE

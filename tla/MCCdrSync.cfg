SPECIFICATION Spec
CONSTANTS
    Timers = {p1}
    Buttons = {p2}
    Sources = {s1}
    Calls = {1}
    MaxInputs = 3
    MaxTroubles = 2
    s1 = s1
    p1 = p1
    p2 = p2
INVARIANTS PositionCovered RowsCovered
PROPERTIES EndKept EventuallyIndexed
CHECK_DEADLOCK FALSE

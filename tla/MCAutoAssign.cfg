SPECIFICATION Spec
CONSTANTS
    Runs = {r1, r2}
    N = 3
    MaxNumber = 4
    Gateway = 3
    Lacking <- MCLacking
    Dynamic <- MCDynamic
    InitialHeld <- MCInitialHeld
    Requests <- MCRequests
    MaxRuns = 2
    MaxEdits = 1
    MaxTroubles = 1
    r1 = r1
    r2 = r2
INVARIANT Distinct
PROPERTIES  Served
CHECK_DEADLOCK FALSE

SPECIFICATION Spec
CHECK_DEADLOCK FALSE
CONSTANTS
    MaxEntries = 2
    MaxCalls = 4
    MaxTroubles = 2
INVARIANT Durable

CONSTANTS
    MaxSends = 2
    Suggestion = 1
    Faults = {"unreachable", "restart"}
    MaxTurns = 3
    MaxCalls = 4

SPECIFICATION Spec
CHECK_DEADLOCK FALSE

INVARIANT TypeOK
INVARIANT HardLimit
INVARIANT BlockIsEarned
PROPERTY LastMeansLast

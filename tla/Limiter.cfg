\* One client with a limit of two and a window of two seconds: four requests
\* fill the end of one window and the next, and in one window two are refused.
SPECIFICATION LimiterSpec
CONSTANTS
    Keys = {k1}
    Requests = {r1, r2, r3, r4}
    Limit = 2
    Window = 2
    PerSecond = 1
    MaxTime = 4
    MaxFaults = 2
SYMMETRY Symmetry
INVARIANTS
    BurstIsBounded
    
    ExpireHeals
PROPERTIES
    WindowIsNotExtended
CHECK_DEADLOCK FALSE

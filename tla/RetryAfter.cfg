\* One client, a limit of one, a window of two seconds of three ticks each.
SPECIFICATION LimiterSpec
CONSTANTS
    Keys = {k1}
    Requests = {r1, r2}
    Limit = 1
    Window = 6
    PerSecond = 3
    MaxTime = 8
    MaxFaults = 0
PROPERTY
    RetryAfterIsRemaining
CHECK_DEADLOCK FALSE

\* One user, one login and two requests behind it, windows of two ticks,
\* tokens of two ticks.
SPECIFICATION GatewaySpec
CONSTANTS
    Users = {u1}
    Addresses = {ip1}
    Logins = {l1}
    UserRequests = {q1}
    AdminRequests = {a1}
    Requests = {l1, q1, a1}
    Keys <- MCKeys
    Limit = 1
    Window = 2
    PerSecond = 1
    TokenTTL = 2
    MaxTime = 4
    MaxFaults = 2
INVARIANTS
    GatewayTypeOK
    UserBurstIsBounded
PROPERTIES
    RoleLagIsBounded
CHECK_DEADLOCK FALSE

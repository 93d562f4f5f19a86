\* No DEL is lost: a read that a write overtakes repopulates the cache.
SPECIFICATION CacheSpec
CONSTANTS
    Intents = {p1}
    Users = {u1}
    Creators = {c1}
    Events = {e1}
    Amounts = {499}
    Period = 1
    MaxTime = 0
    MaxExpiry = 2
    Callers = {api}
    Readers = {r1}
    MaxLostDels = 1
INVARIANT
    StaleOnlyIfDelMissed
CHECK_DEADLOCK FALSE

\* Two users with a row each, both payable and both overdue at once, a writer,
\* a reader, and one lost DEL.
SPECIFICATION FairCacheSpec
CONSTANTS
    Intents = {p1, p2}
    Users = {u1, u2}
    Creators = {c1}
    Events = {e1, e2}
    Amounts = {499}
    Period = 1
    MaxTime = 2
    MaxExpiry = 2
    Callers = {api}
    Readers = {r1}
    MaxLostDels = 1
INVARIANT
    CacheTypeOK
PROPERTIES
    StalenessIsOwed
    CacheConverges
\* PaymentIntents and the clock are bounded: the model stops when they are used up.
CHECK_DEADLOCK FALSE

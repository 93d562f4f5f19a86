\* Two subscriptions of one pair, one instance, one call at a time, a buffer
\* of one event, one fault and one signal.
SPECIFICATION FairApiSpec
CONSTANTS
    Intents = {p1, p2}
    Users = {u1}
    Creators = {c1}
    Events = {p1, p2}
    Amounts = {499}
    Period = 1
    MaxTime = 2
    MaxExpiry = 2
    Processes = {a1}
    Notices = {p1, p2}
    Capacity = 1
    Goroutines = {g1}
    MaxFaults = 1
    MaxSignals = 1
INVARIANTS
    ApiTypeOK
    CountersAreRight
PROPERTIES
    NoNoticeVanishes
    NoticeSpec
    GaugeConverges
    StopsWhenTold
CHECK_DEADLOCK FALSE

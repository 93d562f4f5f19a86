\* Two rows of one user, two workers, buffers of one event, one fault and one
\* signal.
SPECIFICATION FairWorkerSpec
CONSTANTS
    Intents = {p1, p2}
    Users = {u1}
    Creators = {c1, c2}
    Events = {e1, e2}
    Amounts = {499}
    Period = 1
    MaxTime = 2
    MaxExpiry = 2
    Processes = {w1, w2}
    Notices = {p1, p2}
    Capacity = 1
    MaxFaults = 1
    MaxSignals = 1
INVARIANTS
    WorkerTypeOK
    AnnouncedAtMostOnce
PROPERTIES
    NoEventVanishes
    NoticeSpec
    OverdueIsSwept
    EventsAreConsumed
    StopsWhenTold
\* PaymentIntents and the clock are bounded: the model stops when they are used up.
CHECK_DEADLOCK FALSE

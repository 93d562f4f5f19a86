\* Three PaymentIntents of one user: a pair can subscribe, lose the row and
\* subscribe again while another pair of the same user goes its own way.
SPECIFICATION RepoSpec
CONSTANTS
    Intents = {p1, p2, p3}
    Users = {u1}
    Creators = {c1, c2}
    Events = {e1, e2}
    Amounts = {499}
    Period = 1
    MaxTime = 3
    MaxExpiry = 3
INVARIANTS
    RepoTypeOK
    OneLivePerPair
    ActiveWasPaid
    PaidIsNotPending
    ExpiredIsOverdue
PROPERTIES
    StatusMovesLegally
    AccessSpec
\* The clock and the PaymentIntents are bounded: the model stops when they are used up.
CHECK_DEADLOCK FALSE

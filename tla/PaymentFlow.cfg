SPECIFICATION FlowSpec
CONSTANTS
    Intents = {p1, p2}
    Users = {u1}
    Creators = {c1}
    Events <- MCEvents
    Amounts = {499}
    Period = 1
    MaxTime = 2
    MaxExpiry = 2
    Handlers = {h1, h2}
    MaxDeclines = 1
    MaxFaults = 1
SYMMETRY Symmetry
INVARIANTS
    FlowTypeOK
    NoPaymentLost
    TransactionWasCharged
    OneTransactionPerEvent
    OpenTransactionsAreSerial
PROPERTIES
    RepoSpec
    NoticeSpec
\* PaymentIntents, attempts and the clock are bounded: the model stops when they are used up.
CHECK_DEADLOCK FALSE

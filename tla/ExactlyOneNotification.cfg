\* The API dies between the commit and the publish; Stripe delivers again.
SPECIFICATION FlowSpec
CONSTANTS
    Intents = {p1}
    Users = {u1}
    Creators = {c1}
    Events <- MCEvents
    Amounts = {499}
    Period = 1
    MaxTime = 0
    MaxExpiry = 2
    Handlers = {h1, h2}
    MaxDeclines = 1
    MaxFaults = 1
INVARIANT
    ExactlyOneNotification
CHECK_DEADLOCK FALSE

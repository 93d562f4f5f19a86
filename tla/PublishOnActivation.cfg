\* A declined attempt, then a successful one, on the same PaymentIntent.
SPECIFICATION FlowSpec
CONSTANTS
    Intents = {p1}
    Users = {u1}
    Creators = {c1}
    Events <- MCEvents
    Amounts = {499}
    Period = 1
    MaxTime = 0
    MaxExpiry = 2
    Handlers = {h1, h2}
    MaxDeclines = 1
    MaxFaults = 1
INVARIANT
    PublishesOnlyOnActivation
CHECK_DEADLOCK FALSE

\* One PaymentIntent, two concurrent deliveries, two faults, no clock: all
\* redeliveries of a declined, a successful and an unhandled event.
SPECIFICATION FairFlowSpec
CONSTANTS
    Intents = {p1}
    Users = {u1}
    Creators = {c1}
    Events <- MCEvents
    Amounts = {499}
    Period = 1
    MaxTime = 0
    MaxExpiry = 2
    Handlers = {h1, h2}
    MaxDeclines = 1
    MaxFaults = 2
INVARIANT
    FlowInv
PROPERTIES
    EveryEventIsAcknowledged
    ChargeIsSettled
CHECK_DEADLOCK FALSE

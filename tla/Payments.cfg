SPECIFICATION FairSpec
CONSTANTS
    Payment = {s, c}
    Credits = {c}
    Failing = {c}
    Differing = {s}
    Handler = {h1, h2}
    NoEvent = NoEvent
    MaxCrashes = 1
INVARIANTS
    TypeOK
    GrantedOnce
    SucceededIsDelivered
PROPERTIES
    PaidIsGranted
CHECK_DEADLOCK FALSE

SPECIFICATION FairSpec
CONSTANTS
    Proc = {p1, p2}
    Event = {e1}
    NoEvent = NoEvent
    GrantAmount = {1}
    CallAmount = {2}
    Boundary = {2, 3}
    MaxGrants = 2
    MaxLots = 3
    MaxTxs = 4
    MaxClock = 1
    MaxAttempts = 2
    Horizon = 1
PROPERTIES
    EveryCallReturns
CHECK_DEADLOCK FALSE

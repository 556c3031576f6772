SPECIFICATION Spec
CONSTANTS
    Proc = {p1, p2}
    Event = {}
    NoEvent = NoEvent
    GrantAmount = {2}
    CallAmount = {1, 3}
    Boundary = {2, 3}
    MaxGrants = 2
    MaxLots = 4
    MaxTxs = 5
    MaxClock = 3
    MaxAttempts = 2
    Horizon = 1
SYMMETRY Symmetry
INVARIANTS
    TypeOK
    HistoryIsBalance
    LotBounds
    MovementsAllocated
    RefundedOnce
    LotBooks
    PurchasedNeverLost
PROPERTIES
    PlanSpentFirst
    BoundaryNeverExtended
    KeepsPromise
CHECK_DEADLOCK FALSE

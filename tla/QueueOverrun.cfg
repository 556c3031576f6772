SPECIFICATION Spec
CONSTANTS
    Req = {r1, r2}
    Target = {t1, t2}
    NoTarget = NoTarget
    Capacity = 1
    Limit = 2
    TTL = 1
    MaxClock = 1
INVARIANTS
    WaitingWithinCapacity
CHECK_DEADLOCK FALSE

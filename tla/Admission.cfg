SPECIFICATION Spec
CONSTANTS
    Req = {r1, r2, r3}
    Target = {t1, t2}
    NoTarget = NoTarget
    Capacity = 1
    Limit = 2
    TTL = 1
    MaxClock = 3
SYMMETRY Symmetry
INVARIANTS
    TypeOK
    SlotsWithinCapacity
    SlotsAccountedFor
    OneActivePerTarget
PROPERTIES
    RefusedForRoomOnly
CHECK_DEADLOCK FALSE

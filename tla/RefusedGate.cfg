SPECIFICATION Spec
CONSTANTS
    a = a
    p = p
    Unit = {a}
    Passive = {}
    Leased = {a}
    Deps <- MCDeps
    Host = {h1}
    NoUnit = NoUnit
    MaxFaults = 0
INVARIANT
    GateFollowsFinalization
CHECK_DEADLOCK FALSE

SPECIFICATION FairSpec
CONSTANTS
    a = a
    p = p
    Unit = {a, p}
    Passive = {p}
    Leased = {a}
    Deps <- MCDeps
    Host = {h1, h2}
    NoUnit = NoUnit
    MaxFaults = 1
INVARIANTS
    TypeOK
    SoleHost
    DependencyOrder
    SynthesisAfterUnits
    EndedUnitIsSettled
PROPERTIES
    FirstEndWins
    EveryUnitSettles
CHECK_DEADLOCK FALSE

SPECIFICATION FairSpec
CONSTANTS
    k1 = k1
    k2 = k2
    e1 = e1
    e2 = e2
    Key = {k1, k2}
    Execution = {e1, e2}
    ExecOf <- MCExecOf
    Wide = Wide
    RequestBudget = 1
    ConcurrencyBudget = 1
    MaxTriggers = 2
INVARIANTS
    TypeOK
    BudgetsHold
PROPERTIES
    NoLeaseUnderStop
    EndedLeaseStaysEnded
    StopCompletes
CHECK_DEADLOCK FALSE

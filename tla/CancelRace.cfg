SPECIFICATION Spec
CONSTANTS
    Area <- MCArea
    Cost <- MCCost
    Selections = {{"SECURITY"}}
    Gated = {}
    NoScan = NoScan
    MaxFaults = 0
INVARIANTS
    CancelledIsRefunded
CHECK_DEADLOCK FALSE

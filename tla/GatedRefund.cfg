SPECIFICATION Spec
CONSTANTS
    Area <- MCArea
    Cost <- MCCost
    Selections = {{"SECURITY", "UI"}}
    Gated = {"UI"}
    NoScan = NoScan
    MaxFaults = 0
INVARIANTS
    ChargedWorkIsPaidFor
CHECK_DEADLOCK FALSE

SPECIFICATION LiveSpec
CONSTANTS
    Area <- MCArea
    Cost <- MCCost
    Selections = {{"SECURITY"}}
    Gated = {}
    NoScan = NoScan
    MaxFaults = 1
PROPERTIES
    ChargedEventuallySettles
CHECK_DEADLOCK FALSE

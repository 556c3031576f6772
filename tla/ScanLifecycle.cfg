SPECIFICATION FairSpec
CONSTANTS
    Area <- MCArea
    Cost <- MCCost
    Selections <- MCSelections
    Gated = {"UI"}
    NoScan = NoScan
    MaxFaults = 1
INVARIANTS
    TypeOK
    UndeliveredRefunded
    CompletedIsPaidFor
    IntentBeforeDesign
PROPERTIES
    LegalMoves
    IntentWrittenOnce
    ResultWrittenOnce
    StartedEventuallyEnds
CHECK_DEADLOCK FALSE

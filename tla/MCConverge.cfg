SPECIFICATION FairSpec
CONSTANTS
    db = db
    old = old
    a = a
    b = b
    nobody = nobody
    Nobody = nobody
    Caps <- TwoCaps
    Retired <- OnlyOld
    Opaque <- None
    Hard <- OnlyDb
    Runs <- TwoRuns
    Drifts <- TwoDrifts
    MaxApplyRetries = 1
    MaxOutside = 1
INVARIANTS TypeOK GreenOwesNothing AppliesOwnPlan WaitRelaysExit
PROPERTY RunsEnd
CHECK_DEADLOCK FALSE

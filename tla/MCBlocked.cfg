SPECIFICATION Spec
CONSTANTS
    db = db
    old = old
    a = a
    b = b
    nobody = nobody
    Nobody = nobody
    Caps <- TwoCaps
    Retired <- OnlyOld
    Opaque <- None
    Hard <- OnlyDb
    Runs <- OneRun
    Drifts <- TwoDrifts
    MaxApplyRetries = 1
    MaxOutside = 1
INVARIANT BlockedNeverGreen
CHECK_DEADLOCK FALSE

SPECIFICATION FairSpec
CONSTANTS
    o1 = o1
    a1 = a1
    a2 = a2
    Observers <- OneObserver
    Auditors <- TwoAuditors
    Basis <- AllBases
    Method = "provider-api"
    Security = FALSE
    Ttl <- Lifetimes
    MaxLines = 3
    MaxClock = 2
INVARIANTS TypeOK ProjectionNewest HorizonGate RefreshLeads
PROPERTY AlarmSettles
CHECK_DEADLOCK FALSE

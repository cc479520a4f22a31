CONSTANTS
    c1 = c1
    c2 = c2
    p1 = p1
    p2 = p2
    p3 = p3
    None = None
    Caps = {c1, c2}
    Procs = {p1, p2, p3}
    Verbs <- TwoWriters
    MaxLines = 2
    MaxCrashes = 2
    Attempts = 2
SPECIFICATION Spec
SYMMETRY WriterSymmetry
CHECK_DEADLOCK FALSE
INVARIANT TypeOK
INVARIANT ReadersSeePrefixes
INVARIANT NothingDeleted
INVARIANT AnchorHonest
PROPERTY HistoryGrows

CONSTANTS
    c1 = c1
    c2 = c2
    p1 = p1
    p2 = p2
    p3 = p3
    None = None
    Caps = {c1, c2}
    Procs = {p1, p2}
    Verbs <- OneReader
    MaxLines = 1
    MaxCrashes = 0
    Attempts = 2
SPECIFICATION Spec
CHECK_DEADLOCK FALSE
INVARIANT NeverSilentlyEmpty

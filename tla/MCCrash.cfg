CONSTANTS
  c1 = c1
  c2 = c2
  w1 = w1
  w2 = w2
  f1 = f1
  f2 = f2
  NoRes = NoRes
  Cap = {c1}
  Worker = {w1}
  Foreign = {f1, f2}
  Goals = {"present", "update", "replace", "retired", "deposed"}
  Verbs = {"apply", "resume", "adopt", "unadopt"}
  Feeds <- NoFeeds
  Vanish = FALSE
  Halfway = FALSE
  TagScan = TRUE
  Ttl = 1
  MaxClock = 3
  MaxRuns = 5

SPECIFICATION Spec
SYMMETRY Symmetry
INVARIANTS TypeOK OrphanRecorded BoundIsReal ClaimsAreTrue
PROPERTIES TombstonesTrue ReplacementKeepsOne
CHECK_DEADLOCK FALSE

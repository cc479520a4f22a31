CONSTANTS
  c1 = c1
  c2 = c2
  w1 = w1
  w2 = w2
  f1 = f1
  f2 = f2
  NoRes = NoRes
  Cap = {c1, c2}
  Worker = {w1}
  Foreign = {f1}
  Goals = {"present", "replace"}
  Verbs = {"apply", "adopt"}
  Feeds <- AFeedsB
  Vanish = TRUE
  Halfway = TRUE
  TagScan = FALSE
  Ttl = 1
  MaxClock = 0
  MaxRuns = 3

SPECIFICATION Spec
INVARIANTS DependenciesMet
CHECK_DEADLOCK FALSE

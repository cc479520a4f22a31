CONSTANTS
  c1 = c1
  c2 = c2
  w1 = w1
  w2 = w2
  f1 = f1
  f2 = f2
  NoRes = NoRes
  Cap = {c1}
  Worker = {w1, w2}
  Foreign = {}
  Goals = {"present", "update", "replace"}
  Verbs = {"apply", "resume", "observe"}
  Feeds <- NoFeeds
  Vanish = FALSE
  Halfway = TRUE
  TagScan = FALSE
  Ttl = 1
  MaxClock = 2
  MaxRuns = 4

SPECIFICATION Spec
SYMMETRY Symmetry
PROPERTIES NoLostUpdate GenerationKept SilentWhenOutbid
CHECK_DEADLOCK FALSE

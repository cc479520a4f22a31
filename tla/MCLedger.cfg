CONSTANTS
  a = a
  b = b
  op1 = op1
  NoRes = NoRes
  Cap <- MCCap
  Res = {r}
  Receipt <- MCReceipt
  Ttls = {2}
  Marks = {"apply.started"}
  Notes = {"ownership.claimed"}
  Statuses = {"pending","succeeded"}
  MaxClock = 2
  MaxEvents = 4

SPECIFICATION Spec
SYMMETRY Symmetry
INVARIANTS TypeOK GrantsOrdered StaleTokenNeverWrites OneLeaseCovers ReplayAgrees
CHECK_DEADLOCK FALSE

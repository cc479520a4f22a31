CONSTANTS
  a = a
  b = b
  d = d
  op1 = op1
  NoRes = NoRes
  Cap <- MCCap
  Res = {}
  Receipt <- MCReceipt
  Ttls = {1}
  Marks = {"apply.started"}
  Notes = {}
  Statuses = {"pending"}
  MaxClock = 2
  MaxEvents = 3

SPECIFICATION RecoverySpec
SYMMETRY Symmetry
INVARIANTS WovenReplays RestoredFaithful GreenIsWhole
CHECK_DEADLOCK FALSE

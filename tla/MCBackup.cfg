CONSTANTS
  a = a
  b = b
  d = d
  op1 = op1
  NoRes = NoRes
  Cap <- MCPair
  Res = {}
  Receipt <- MCReceipt
  Ttls = {1}
  Marks = {"apply.started"}
  Notes = {}
  Statuses = {"pending"}
  MaxClock = 0
  MaxEvents = 3

SPECIFICATION RecoverySpec
SYMMETRY Symmetry
INVARIANT BackupRestores
CHECK_DEADLOCK FALSE

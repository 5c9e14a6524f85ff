SPECIFICATION Spec
CONSTANTS
  Proc = {p1, p2}
  NoProc = NoProc
  NoEntry = NoEntry
  Xid = {x1}
  Kinds = {"launcher", "wrapper", "cancel", "archive", "repair"}
  ReadAttempts = 2
  MaxFaults = 1
INVARIANT Recoverable

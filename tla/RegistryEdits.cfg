SPECIFICATION Spec
CONSTANTS
  Proc = {p1, p2}
  NoProc = NoProc
  NoEntry = NoEntry
  Xid = {x1}
  Kinds = {"wrapper", "cancel", "corpse", "archive", "clear", "patch"}
  ReadAttempts = 2
  MaxFaults = 1
SYMMETRY ProcSymmetry
INVARIANTS WriterIsCurrent TypeOK NeverInNeither
PROPERTIES CancelStays ImplementsBoard

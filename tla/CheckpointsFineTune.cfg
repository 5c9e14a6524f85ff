SPECIFICATION Spec
CONSTANTS
  MaxXid = 3
  MaxStep = 3
  Layouts = {"torch"}
  Origins = {3}
  FineTune = TRUE
  Faults = {}
  MaxAutoResumes = 2
  CnsReadMax = 2
  Threshold = 2
  Milestone = 2
  MaxSweeps = 0
INVARIANTS NeverRewinds
CHECK_DEADLOCK FALSE

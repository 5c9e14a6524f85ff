SPECIFICATION Spec
CONSTANTS
  MaxXid = 2
  MaxStep = 2
  Layouts = {"torch", "elt", "eqr"}
  Origins = {0, 1}
  FineTune = FALSE
  Faults = {"unread", "blindlog", "sibling", "bug", "prune"}
  MaxAutoResumes = 1
  CnsReadMax = 2
  Threshold = 1
  Milestone = 2
  MaxSweeps = 1
INVARIANTS TypeOK NeverRewinds
PROPERTIES ColdOnlyWithNothing ResumeSourceStays NewestStays
CHECK_DEADLOCK FALSE

SPECIFICATION FairSpec
CONSTANTS
  Jobs = {j1}
  Lucky = {j1}
  Limit = 1
  Threshold = 1
  Unseen = {}
  Failing = {"status", "borg", "output", "placement", "restarts", "checkpoints", "cancel"}
  Adopts = TRUE
  MaxLost = 2
PROPERTY StuckIsMoved
CHECK_DEADLOCK FALSE

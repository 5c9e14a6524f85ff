SPECIFICATION Spec
CONSTANTS
  Jobs = {j1, j2}
  Lucky = {j1}
  Limit = 1
  Threshold = 3
  Unseen = {}
  Failing = {"status", "borg", "output", "checkpoints"}
  Adopts = TRUE
  MaxLost = 1
INVARIANTS TypeOK BrakeHolds
PROPERTIES NeverCancelsTheLiving ThrashSparesProgress
CHECK_DEADLOCK FALSE

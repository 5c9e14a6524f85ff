SPECIFICATION Spec
CONSTANTS
  Ids = {j1, j2}
  MaxXid = 1
  MaxAutoResumes = 0
  CnsReadMax = 1
  NoId = NoId
  Unminted = Unminted
  Cleared = Cleared
  MaxBuildAttempts = 2
  RerouteLimit = 1
  MaxJobs = 2
  MaxCrashes = 1
  Evidence = {"nothing"}
  BuildEnds = {"launched", "zombie", "nolaunch", "stage"}
  Users = {"requeue", "clear"}
  Faults = {"orphan", "late", "blind"}
SYMMETRY IdSymmetry
INVARIANTS OneBuild
PROPERTIES ClearedStays

SPECIFICATION Spec
CONSTANTS
  Ids = {j1, j2}
  MaxXid = 3
  MaxAutoResumes = 1
  CnsReadMax = 1
  NoId = NoId
  Unminted = Unminted
  Cleared = Cleared
  MaxBuildAttempts = 2
  RerouteLimit = 1
  MaxJobs = 1
  MaxCrashes = 1
  Evidence = {"restartable"}
  BuildEnds = {"launched"}
  Users = {"cancel"}
  Faults = {"unbound"}
SYMMETRY IdSymmetry
INVARIANTS TypeOK LiveIsCurrent NothingEscapes
PROPERTIES XidsKept ImplementsRuns

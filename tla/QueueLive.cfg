SPECIFICATION FairSpec
CONSTANTS
  Ids = {j1}
  MaxXid = 2
  MaxAutoResumes = 1
  CnsReadMax = 2
  NoId = NoId
  Unminted = Unminted
  Cleared = Cleared
  MaxBuildAttempts = 2
  RerouteLimit = 1
  MaxJobs = 1
  MaxCrashes = 1
  Evidence = {"nothing", "unreadable"}
  BuildEnds = {"launched", "failed", "deferred", "timeout"}
  Users = {"cancel"}
  Faults = {"nodir"}
PROPERTIES BuildSettles DeadIsSeen DeferredRetested

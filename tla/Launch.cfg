SPECIFICATION FairSpec
CONSTANTS
  Launches = {la, lb}
  Codes = {A, B}
  NoLaunch = NoLaunch
  NoCode = NoCode
  Absent = Absent
  Modes = {"ca", "fresh", "resume"}
  Faults = {"drop", "rot", "kill", "die", "wedge", "group", "reject"}
  MaxTries = 2
  Groups = 1
  MaxRounds = 1
  MaxXid = 2
INVARIANTS TypeOK PublishedIsWhole RunsItsSource RegisteredHasWork
PROPERTIES RegisteredDirsStay StageInUseStays EveryLaunchEnds
CHECK_DEADLOCK FALSE

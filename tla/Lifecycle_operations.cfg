SPECIFICATION FairSpec
CONSTANTS
  MaxOps = 2
  MaxIno = 2
  MaxAttempt = 2
  MaxJobs = 2
  MaxRound = 2
  MaxStuck = 1
  MaxFailures = 2
  Casts <- MCCasts
INVARIANTS
  CompleteIsTrue
  Attended
  CanceledNeverArchives
PROPERTIES
  PendingShown
CHECK_DEADLOCK FALSE

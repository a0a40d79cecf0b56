SPECIFICATION Spec
CONSTANTS
  MaxOps = 2
  MaxIno = 2
  MaxAttempt = 2
  MaxJobs = 2
  MaxRound = 2
  MaxStuck = 1
  MaxFailures = 2
  Casts <- MCResume
INVARIANTS
  PreparationsResume
CHECK_DEADLOCK FALSE

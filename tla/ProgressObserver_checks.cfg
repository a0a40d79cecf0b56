SPECIFICATION FairSpec
CONSTANTS
  Observers = {1, 2}
  Keys = {stalled, churn}
  None = None
  MaxChecks = 3
  MaxTurns = 3
  Casts <- MCCasts
INVARIANTS
  OneCheck
  NoStaleChallenge
PROPERTIES
  NoticeDelivered
CHECK_DEADLOCK FALSE

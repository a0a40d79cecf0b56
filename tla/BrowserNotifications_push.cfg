SPECIFICATION FairSpec
CONSTANTS
  Requests = {q1, q2}
  Endpoints = {e1, e2}
  None = None
  MaxRegs = 3
  MaxTurns = 2
  MaxInst = 2
  MaxTries = 2
  OutboxLimit = 2
  BrowserLimit = 2
  Casts <- MCCasts
INVARIANTS
  EmittedOnce
PROPERTIES
  NoUnwantedPush
  OutboxDrains
CHECK_DEADLOCK FALSE

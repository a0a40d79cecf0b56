SPECIFICATION Spec
CONSTANTS
  Members = {coder0, reviewer0}
  Threads = {t1, t2, t3}
  Lead = Lead
  None = None
  Casts <- MCCasts
INVARIANT ForcedRetires
CHECK_DEADLOCK FALSE

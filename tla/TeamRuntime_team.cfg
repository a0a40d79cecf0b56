SPECIFICATION Spec
CONSTANTS
  Members = {coder0, reviewer0}
  Threads = {t1, t2, t3}
  Lead = Lead
  None = None
  Casts <- MCCasts
INVARIANTS
  NoOrphan
  RetiredIsQuiet
  TurnsKeepAccess
CHECK_DEADLOCK FALSE

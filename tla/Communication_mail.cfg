SPECIFICATION FairSpec
CONSTANTS
  s1 = s1 s2 = s2 m1 = m1 m2 = m2 g1 = g1 g2 = g2
  Slugs = {s1, s2}
  Ids = {m1, m2}
  Grants = {g1, g2}
  MaxInc = 2
  MaxCrash = 1
  MaxState = 25
  GrantBytes = 2
  MessageBytes = 3
  OptionsBytes = 5
  ReceiptBytes = 2
  TransitionBytes = 1
INVARIANTS
  SubmittedOnce
  HistoryTrue
  GrantsEndWithSession
PROPERTIES
  SentUnderGrant
  AcceptedIsRecorded
CHECK_DEADLOCK FALSE

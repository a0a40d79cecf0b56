SPECIFICATION FairSpec
CONSTANTS
  d = d t = t doc = doc a = a b = b ta = ta tb = tb m = m
  Scopes = {d, t}
  Files = {doc}
  Slugs = {a, b}
  Threads = {ta, tb}
  Attempts = {m}
  Requests = {}
  NoSlug = NoSlug
  NoThread = NoThread
  MaxEpoch = 1
  Chunks = 1
  ThreadOf <- MCThreadOf
  Worlds <- MCWorlds
  HomeOf <- MCHomeOf
  MaxEntry = 1
  MaxAnswers = 1
INVARIANTS
  BlobsWhole
  NeededKept
PROPERTY
  Reclaimed
CHECK_DEADLOCK FALSE

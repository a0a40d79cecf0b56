SPECIFICATION Spec
CONSTANTS
  d = d f = f a = a b = b th = th p = p q = q form = form one = one
  Scopes = {d}
  Files = {f}
  Slugs = {a, b}
  Threads = {th}
  Attempts = {}
  Requests = {p, q}
  NoSlug = NoSlug
  NoThread = NoThread
  MaxEpoch = 1
  Directs = {form}
  Cli = Cli
  DirectSlug <- MCDirectSlug
  Bases = {one}
  NoBase = NoBase
  Candidates <- MCCandidates
  CustomOf <- MCCustomOf
  ScopeOf <- MCScopeOf
  AttachOf <- MCAttachOne
  ThreadOf <- MCThreadOf
  MaxAttempt = 2
  MaxGen = 2
  Casts <- MCCasts
INVARIANTS
  AcceptedFilesKept
  ReadyIsMade
  SomebodyWorks
PROPERTY
  KeepsPromise
CHECK_DEADLOCK FALSE

SPECIFICATION Spec
CONSTANTS
  c1 = c1
  c2 = c2
  Clients = {c1, c2}
  Procedures = {w1}
  XidStart <- DistinctXids
  XidMod = 6
  Wait = 1
  Timeouts <- HandleTimeouts
  NRefreshes = 1
  Refreshing = {c2}
  MaxCalls = 1
  CacheSize = 1
  MaxDups = 1
CHECK_DEADLOCK FALSE
INVARIANTS ChainsHoldNodes RepliesKept OwnReply
PROPERTY CallReturns

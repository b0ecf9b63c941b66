SPECIFICATION FairSpec
CONSTANTS
  Procs = {p1, p2}
  Ids = {i1, i2}
  Values = {1, 3}
  Ops = {"wait", "timed", "try", "post"}
  SemValueMax = 2
  Deadlines = {1, 3}
  MaxClock = 3
  MaxDrift = 1
  Nobody = Nobody
  NoSem = NoSem
  NULL = NULL
  Dangling = Dangling
CHECK_DEADLOCK FALSE
INVARIANTS HolderOwns CountCapped
PROPERTY TimedWaitReturns

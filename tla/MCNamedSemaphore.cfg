SPECIFICATION NSpec
CONSTANTS
  Openers = {p1, p2, p3}
  Blocks = {b1, b2}
  Garbage <- MCGarbage
  MaxActive = 1
  MaxCalls = 5
  NoFile = NoFile
  NoBlock = NoBlock
CHECK_DEADLOCK FALSE
INVARIANT OpensCounted

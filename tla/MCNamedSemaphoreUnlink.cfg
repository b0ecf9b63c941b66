SPECIFICATION NSpec
CONSTANTS
  Openers = {p1, p2}
  Blocks = {b1, b2}
  Garbage <- MCGarbage
  MaxActive = 1
  MaxCalls = 2
  NoFile = NoFile
  NoBlock = NoBlock
CHECK_DEADLOCK FALSE
PROPERTY UnlinkCompletes

SPECIFICATION Spec
CONSTANTS
  p1 = p1
  p2 = p2
  l1 = l1
  l2 = l2
  Boot = Boot
  None = None
  Proc = {p1, p2}
  Line = {l1, l2}
  Owns <- MCOwns
  Initial <- MCTorn
  MaxUnits = 7
  Crashes = 1
  Careful = TRUE
INVARIANTS
  RecordsWhole
  OnePerLine
  EntryKept
PROPERTIES
  LockFreed
CHECK_DEADLOCK FALSE

SPECIFICATION Spec
CONSTANTS
  Word = 2
  OutSize = 6
  InSize = 4
  Puts = {4}
  Gets = {1, 3}
  Window = 7
  Tags = 3
  EOR = EOR
  None = None
INVARIANTS
  WordsAligned
  NoEmptyFragment
PROPERTIES
  ImplementsRecords
  CallReturns

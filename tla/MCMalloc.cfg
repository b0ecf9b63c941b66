SPECIFICATION Spec
CONSTANTS
  Requests = {4, 34}
  Alignments = {16}
  ChunkSizes = {64}
  MinHunk = 64
  MaxHunk = 128
  PageSize = 64
  OsBases = {1024, 1088}
  OsEnd = 1152
  HeapStart = 100
  HeapTop = 340
  StackPtrs = {164, 196}
  Modes = {"malloc", "split", "heap"}
  MaxLive = 2
INVARIANTS FreeListExact ChunksDisjoint ChunksOwned
  LiveBlocksWhole CopyIsSafe NoOrphans Conservation HeapAndStack
PROPERTY ImplementsAllocator

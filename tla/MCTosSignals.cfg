SPECIFICATION Spec
CONSTANTS
  Sigs = {2, 20}
  MaxDepth = 5
  MaxRaise = 2
  MaxAtExit = 2
  Careless = {}
INVARIANTS DeliveredOnce NothingLost NothingLeft ExitRunsAll

SPECIFICATION RunSpec
CONSTANTS
  NFd = 3
  Limits = {2, 3}
  MaxConns = 3
  MaxSent = 3
  NULL = NULL
  Careless = {}
INVARIANTS NoWildRead NothingMissed
PROPERTIES CallsServed ExitEnds
CHECK_DEADLOCK FALSE

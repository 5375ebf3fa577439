SPECIFICATION FairSpec
CONSTANTS
  Targets = {"a", "b"}
  NoPing = 0
  MaxRecords = 1
  MaxConns = 2
  V6 = {"b"}
  Pings = {1, 3}
  PingLimit = 1
  Scenarios <- MCScenarios
INVARIANTS ProxyInv RowsFollow
PROPERTIES ShownMovesOn WorkersEnd
CHECK_DEADLOCK FALSE

CONSTANTS
  n1 = n1
  n2 = n2
  None = None
  Node = {n1, n2}
  list <- FirstLists
  Fragile <- FromFirst
  MayCrash = {n2}
  MaxRuns = 2
  MaxQueue = 1
SPECIFICATION FairSpec
CHECK_DEADLOCK FALSE
INVARIANTS TypeOK NoDeadWriter OnlineIsConnected
PROPERTY EndsTogether

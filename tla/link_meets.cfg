CONSTANTS
  n1 = n1
  n2 = n2
  None = None
  Node = {n1, n2}
  list <- AllListed
  Fragile <- NoPair
  MayCrash = {n2}
  MaxRuns = 1
  MaxQueue = 3
SPECIFICATION TimelySpec
CHECK_DEADLOCK FALSE
PROPERTIES PeersMeet EntersNetwork

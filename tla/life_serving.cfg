CONSTANTS
  c1 = c1
  c2 = c2
  g1 = g1
  g2 = g2
  g3 = g3
  None = None
  Conn = {c1, c2}
  Generation = {g1, g2, g3}
  Commands = {"S", "U", "D", "F", "O"}
  Pasted = FALSE
  AcceptMayFail = FALSE
  MaxPeers = 2
  MaxPending = 2
SPECIFICATION FairSpec
PROPERTIES LockPasses ShutdownEnds OnlyWaitersKeepDown NetworkUp
CHECK_DEADLOCK FALSE

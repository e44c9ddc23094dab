CONSTANTS
  c1 = c1
  c2 = c2
  g1 = g1
  g2 = g2
  g3 = g3
  None = None
  Conn = {c1}
  Generation = {g1, g2}
  Commands = {"D"}
  Pasted = FALSE
  AcceptMayFail = FALSE
  MaxPeers = 1
  MaxPending = 2
SPECIFICATION FairSpec
PROPERTY NetDownEnds
CHECK_DEADLOCK FALSE

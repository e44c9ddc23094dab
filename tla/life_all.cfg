CONSTANTS
  c1 = c1
  c2 = c2
  g1 = g1
  g2 = g2
  g3 = g3
  None = None
  Conn = {c1, c2}
  Generation = {g1, g2}
  Commands = {"S", "U", "D", "F", "O"}
  Pasted = TRUE
  AcceptMayFail = TRUE
  MaxPeers = 1
  MaxPending = 2
SPECIFICATION Spec
SYMMETRY Symmetry
INVARIANTS TypeOK ServedWhileListening EndsClean
PROPERTY NetDownIsClean
CHECK_DEADLOCK FALSE

CONSTANTS
  n1 = n1
  n2 = n2
  p1 = p1
  t1 = t1
  t2 = t2
  c1 = c1
  c2 = c2
  None = None
  Node = {n1, n2}
  Product = {p1}
  TxId = {t1, t2}
  Conn = {c1, c2}
  home <- TwoHomes
  Qty <- MCQty
  LocalOrders <- NoOrders
  MaxSupply <- OneEach
  MaxQueue = 1
  Links <- FullMesh
  Fragile <- FullMesh
  Announcer = {n2}
  Downer = {}
  Restarter = {n1, n2}
  MaxRestarts = 1
SPECIFICATION RestartSpec
SYMMETRY Symmetry
INVARIANTS RestartTypeOK DecisionsAgree ConfirmedUnlessRestarted PanicsAfterRestart NoOversell

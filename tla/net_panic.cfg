CONSTANTS
  n1 = n1
  n2 = n2
  p1 = p1
  t1 = t1
  t2 = t2
  c1 = c1
  c2 = c2
  None = None
  Node = {n1, n2}
  Product = {p1}
  TxId = {t1}
  Conn = {c1}
  home <- OneHome
  Qty <- OneUnit
  LocalOrders <- NoOrders
  MaxSupply <- OnlySecond
  MaxQueue = 1
  Links <- FullMesh
  Fragile <- NoLink
  Announcer = {n2}
  Downer = {}
  Restarter = {n2}
  MaxRestarts = 1
SPECIFICATION RestartSpec
INVARIANT NeverPanics

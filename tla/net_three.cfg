CONSTANTS
  n1 = n1
  n2 = n2
  n3 = n3
  p1 = p1
  t1 = t1
  t2 = t2
  c1 = c1
  c2 = c2
  None = None
  Node = {n1, n2, n3}
  Product = {p1}
  TxId = {t1}
  Conn = {c1}
  home <- OneHome
  Qty <- OneUnit
  LocalOrders <- SellOne
  MaxSupply <- OnlySecond
  MaxQueue = 1
  Links <- Star
  Fragile <- ThirdStore
  Announcer = {n2, n3}
  Downer = {n1}
SPECIFICATION FairSpec
INVARIANT NoOversell
PROPERTIES PurchasesAreAtomic PurchaseSettles

CONSTANTS
  n1 = n1
  n2 = n2
  n3 = n3
  p1 = p1
  p2 = p2
  t1 = t1
  t2 = t2
  Node = {n1, n2, n3}
  Product = {p1}
  TxId = {t1, t2}
  Qty <- MCQty
  LocalOrders <- FileOrders
  MaxSupply <- TwoUnits
SPECIFICATION OneStoreSpec
CONSTRAINT BoundedBelief
SYMMETRY Symmetry
INVARIANT StoreTypeOK
INVARIANT StockWithinSupply
INVARIANT NoUnitPromisedTwice
INVARIANT PlanServesOrder
CHECK_DEADLOCK FALSE

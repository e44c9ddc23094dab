CONSTANTS
  n1 = n1
  n2 = n2
  n3 = n3
  t1 = t1
  t2 = t2
  None = None
  Node = {n1, n2, n3}
  TxId = {t1, t2}
SPECIFICATION Spec
SYMMETRY Symmetry
INVARIANT TypeOK
INVARIANT AllOrNothing
INVARIANT Agreement
PROPERTY RecordsOnlyAdvance
CHECK_DEADLOCK FALSE

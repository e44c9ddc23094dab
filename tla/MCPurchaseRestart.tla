-------------------------- MODULE MCPurchaseRestart --------------------------
(***************************************************************************)
(* Instances of PurchaseRestart for TLC.                                   *)
(***************************************************************************)
EXTENDS PurchaseRestart, TLC

CONSTANTS n1, n2, p1, t1, t2, c1, c2

OneUnit == {1}

MCQty == {1, 2}

OneEach == [n \in Node |-> 1]

OnlySecond == [n \in Node |-> IF n = n2 THEN 1 ELSE 0]

NoOrders == {}

OneHome == [k \in Conn |-> n1]

TwoHomes == [k \in Conn |-> IF k = c1 THEN n1 ELSE n2]

FullMesh == {l \in Node \X Node : l[1] # l[2]}

NoLink == {}

Symmetry == Permutations(TxId)
=============================================================================

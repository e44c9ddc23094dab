-------------------------- MODULE MCPurchaseNetwork --------------------------
(***************************************************************************)
(* Instances of PurchaseNetwork for TLC.                                   *)
(***************************************************************************)
EXTENDS PurchaseNetwork, TLC

CONSTANTS n1, n2, n3, p1, t1, t2, c1, c2

MCQty == {1, 2}

OneUnit == {1}

OneEach == [n \in Node |-> 1]

OnlySecond == [n \in Node |-> IF n = n2 THEN 1 ELSE 0]

NoOrders == {}

\* The operator's `O' command.
SellOne == {<<[product |-> p1, qty |-> 1]>>}

\* A customer at each of two stores; a single customer.
TwoHomes == c1 :> n1 @@ c2 :> n2

OneHome == c1 :> n1

FullMesh == {l \in Node \X Node : l[1] # l[2]}

\* The stores that n1 lists at its start, but not each other.
Star == {l \in FullMesh : n1 \in {l[1], l[2]}}

BothEnds == {<<n1, n2>>, <<n2, n1>>}

ThirdStore == {<<n1, n3>>}

Symmetry == Permutations(TxId)
=============================================================================

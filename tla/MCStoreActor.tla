---------------------------- MODULE MCStoreActor ----------------------------
(***************************************************************************)
(* Instances of StoreActor for TLC: the actor of one store, n1, that hears *)
(* of its peers. Actors share no state, so that one of them is enough.     *)
(***************************************************************************)
EXTENDS StoreActor, TLC

CONSTANTS n1, n2, n3, p1, p2, t1, t2

MCQty == {1, 2}

TwoUnits == [n \in Node |-> 2]

\* The operator's `O' command: one order.
SingleOrders == {<<[product |-> p, qty |-> q]>> : p \in Product, q \in Qty}

\* The `F' command: a file of up to two orders.
FileOrders ==
  SingleOrders \cup
  {<<[product |-> p, qty |-> q], [product |-> r, qty |-> s]>> :
     p \in Product, q \in Qty, r \in Product, s \in Qty}

OneStoreSpec == StoreInit /\ [][StoreStep(n1)]_storeVars

\* Cancelling a purchase again and again inflates what n1 believes of the
\* peers of its plan without end; the search stops at MaxSupply[n1].
BoundedBelief ==
  \A m \in DOMAIN peers[n1] : \A p \in DOMAIN peers[n1][m].stock :
    peers[n1][m].stock[p] <= MaxSupply[n1]

Symmetry == Permutations(TxId) \cup Permutations({n2, n3})
=============================================================================

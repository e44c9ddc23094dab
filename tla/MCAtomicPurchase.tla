-------------------------- MODULE MCAtomicPurchase ---------------------------
(***************************************************************************)
(* The instance of AtomicPurchase for TLC: two purchases, three stores.    *)
(***************************************************************************)
EXTENDS AtomicPurchase, TLC

CONSTANTS n1, n2, n3, t1, t2

Symmetry == Permutations(TxId) \cup Permutations(Node)
=============================================================================

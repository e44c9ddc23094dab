--------------------------- MODULE MCNodeLifecycle ---------------------------
(***************************************************************************)
(* Instances of NodeLifecycle for TLC.                                     *)
(***************************************************************************)
EXTENDS NodeLifecycle, TLC

CONSTANTS c1, c2, g1, g2, g3

Symmetry == Permutations(Conn) \cup Permutations(Generation)
=============================================================================

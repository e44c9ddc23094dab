----------------------------- MODULE MCCustomer -----------------------------
(***************************************************************************)
(* Instances of Customer for TLC.                                          *)
(***************************************************************************)
EXTENDS Customer, TLC

CONSTANTS s1, s2, o1, o2, o3
=============================================================================

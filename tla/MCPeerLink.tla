----------------------------- MODULE MCPeerLink -----------------------------
(***************************************************************************)
(* Instances of PeerLink for TLC.                                          *)
(***************************************************************************)
EXTENDS PeerLink, TLC

CONSTANTS n1, n2

\* Everyone has everyone in its list; n1 alone has the others.
AllListed == [n \in Node |-> Node \ {n}]

FirstLists == [n \in Node |-> IF n = n1 THEN Node \ {n1} ELSE {}]

NoPair == {}

FromFirst == {<<n1, n2>>}
=============================================================================

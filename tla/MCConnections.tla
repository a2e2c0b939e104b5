---------------------------- MODULE MCConnections ----------------------------
(***************************************************************************)
(* Instances of Connections.                                               *)
(***************************************************************************)
EXTENDS Connections, TLC

CONSTANTS p1, p2, p3

Peers == {p1, p2, p3}
Heights == {5, 20}

Symmetry == Permutations(Peers)
=============================================================================

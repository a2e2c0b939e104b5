---------------------------- MODULE MCPublication ----------------------------
(***************************************************************************)
(* Instances of Publication.                                               *)
(***************************************************************************)
EXTENDS Publication, TLC

CONSTANTS sent, p1, p2

OneTx == {sent}
Peers == {p1, p2}
=============================================================================

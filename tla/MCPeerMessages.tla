---------------------------- MODULE MCPeerMessages ----------------------------
(***************************************************************************)
(* Instances of PeerMessages.                                              *)
(***************************************************************************)
EXTENDS PeerMessages, TLC

CONSTANTS received, next, spender, stranger

\* `received' takes up the addresses the first filter has, `next' the one after; `spender'
\* spends the first output and pays change, and is in the mempool before its block;
\* `stranger' is not the wallet's, but the filters match it.
Transactions == {received, next, spender, stranger}
Strangers == {stranger}
LaterBlocks == <<<<>>, <<received>>, <<next, spender>>, <<stranger>>, <<>>>>
UsingAddresses == received :> {0, 1} @@ next :> {2} @@ spender :> {3} @@ stranger :> {}
Spending == [t \in Transactions |-> IF t = spender THEN {received} ELSE {}]

\* The same in the first blocks that a connection brings.
FirstBlock == <<<<received>>, <<next>>, <<stranger>>>>

\* The instances are what TransactionsBeforeBlock is proved for.
ASSUME UsualTransactions == ChanceIsForeign /\ ParentsFirst
=============================================================================

---------------------------- MODULE MCBlockChain ----------------------------
(* Instances of BlockChain on the trees of BlockTrees. *)
EXTENDS BlockChain, BlockTrees

\* What the theorems about the forks' tree assume of it.
ASSUME ForksAssumption ==
  MaxRescans = 0 => ShallowForks /\ OncePerBranch /\ NoEarlyTx /\ LatestStart
=============================================================================

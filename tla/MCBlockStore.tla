---------------------------- MODULE MCBlockStore ----------------------------
(* Instances of BlockStore on the trees of BlockTrees. *)
EXTENDS BlockStore, BlockTrees

\* What the theorem about stored confirmations assumes of the trees.
ASSUME StoredForksAssumption ==
  MaxRescans = 0 /\ MaxSaves = 0 => ShallowForks /\ OncePerBranch /\ NoEarlyTx /\ LatestStart
=============================================================================

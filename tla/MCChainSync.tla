---------------------------- MODULE MCChainSync -----------------------------
(* Instances of ChainSync on the trees of BlockTrees. *)
EXTENDS ChainSync, BlockTrees, TLC

CONSTANTS p1, p2

\* What the theorems about the chain assume of the trees.
ASSUME BranchesAssumption ==
  ShallowForks /\ NoOldForks /\ OncePerBranch /\ NoEarlyTx /\ PastCheckpoints

\* Both peers are on the main branch, one of them a block behind.
ShortTip == p1 :> "4" @@ p2 :> "5"
ShortReachable == [p \in {p1, p2} |-> {"5", "6"}]

\* The peers are on different branches, until one leaves its own for the longer.
SplitTip == p1 :> "5" @@ p2 :> "5f"
SplitReachable == [p \in {p1, p2} |-> {"6f"}]
=============================================================================

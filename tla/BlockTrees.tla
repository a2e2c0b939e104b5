----------------------------- MODULE BlockTrees -----------------------------
(***************************************************************************)
(* Block trees for model checking.  A block is a string, made of its       *)
(* height and, off the main branch, of a letter for its branch.            *)
(***************************************************************************)
EXTENDS Integers, FiniteSets

\* A tree given as the parent of every block but the root "0".
RECURSIVE PathTo(_, _)
PathTo(b, up) == IF up[b] = b THEN {b} ELSE {b} \cup PathTo(up[b], up)

AncOf(up) == [b \in DOMAIN up |-> PathTo(b, up)]

HeightOf(up) == [b \in DOMAIN up |-> Cardinality(PathTo(b, up)) - 1]

\* A branch of one block, and of two, that overtakes the main chain just after a
\* transition (Interval is 2), and a block with a wrong target.
ForkParent ==
  [b \in {"0", "1", "2", "3", "4", "5", "6", "6f", "7f", "6x", "8f"} |->
     CASE b \in {"0", "1"} -> "0" [] b = "2" -> "1" [] b = "3" -> "2"
       [] b = "4" -> "3" [] b = "5" -> "4" [] b \in {"6", "6f", "6x"} -> "5"
       [] b = "7f" -> "6f" [] b = "8f" -> "7f"]

ForkBlock == DOMAIN ForkParent
ForkAnc == AncOf(ForkParent)
ForkHeight == HeightOf(ForkParent)
ForkAged == {"0", "1", "2"}

\* t1 is before the fork, t2 on the main branch only, t3 on both at two heights.
ForkTxOf ==
  [b \in ForkBlock |->
     CASE b = "5" -> {"t1"} [] b = "6" -> {"t2", "t3"} [] b = "7f" -> {"t3"} [] OTHER -> {}]

\* One branch that goes through two checkpoints, "2" and "4", and a branch that
\* contradicts the second one.
LineParent ==
  [b \in {"0", "1", "2", "3", "4", "5", "6", "4x", "5x"} |->
     CASE b \in {"0", "1"} -> "0" [] b = "2" -> "1" [] b = "3" -> "2"
       [] b \in {"4", "4x"} -> "3" [] b = "5" -> "4" [] b = "6" -> "5" [] b = "5x" -> "4x"]

LineBlock == DOMAIN LineParent
LineAnc == AncOf(LineParent)
LineHeight == HeightOf(LineParent)
LineTxOf == [b \in LineBlock |-> IF b = "5" THEN {"t1"} ELSE {}]

\* One branch, for the download from honest peers.
ShortParent ==
  [b \in {"0", "1", "2", "3", "4", "5", "6"} |->
     CASE b \in {"0", "1"} -> "0" [] b = "2" -> "1" [] b = "3" -> "2"
       [] b = "4" -> "3" [] b = "5" -> "4" [] b = "6" -> "5"]

ShortBlock == DOMAIN ShortParent
ShortAnc == AncOf(ShortParent)
ShortHeight == HeightOf(ShortParent)
ShortTxOf == [b \in ShortBlock |-> IF b = "5" THEN {"t1"} ELSE {}]

\* The wallet was used in block "4" already, which may be a checkpoint.
OlderTxOf == [b \in ShortBlock |-> CASE b = "4" -> {"t1"} [] b = "5" -> {"t2"} [] OTHER -> {}]

\* Two branches of the same height from "4" on, of which one grows; t1 is on both,
\* t2 on the other one.
SplitParent ==
  [b \in {"0", "1", "2", "3", "4", "5", "5f", "6f"} |->
     CASE b \in {"0", "1"} -> "0" [] b = "2" -> "1" [] b = "3" -> "2"
       [] b = "4" -> "3" [] b \in {"5", "5f"} -> "4" [] b = "6f" -> "5f"]

SplitBlock == DOMAIN SplitParent
SplitAnc == AncOf(SplitParent)
SplitHeight == HeightOf(SplitParent)
SplitTxOf ==
  [b \in SplitBlock |-> CASE b = "5" -> {"t1", "t2"} [] b = "6f" -> {"t1"} [] OTHER -> {}]

\* The smallest branch with a transition that frees blocks, and a block with a wrong
\* target in the place of that one.
RootParent ==
  [b \in {"0", "1", "2", "3", "4", "4x"} |->
     CASE b \in {"0", "1"} -> "0" [] b = "2" -> "1" [] b = "3" -> "2" [] b \in {"4", "4x"} -> "3"]

RootBlock == DOMAIN RootParent
RootAnc == AncOf(RootParent)
RootHeight == HeightOf(RootParent)
RootTxOf == [b \in RootBlock |-> IF b = "3" THEN {"t1"} ELSE {}]
=============================================================================

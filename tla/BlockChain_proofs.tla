------------------------- MODULE BlockChain_proofs --------------------------
(***************************************************************************)
(* Proofs about BlockChain, for any tree of blocks, peers and transactions.*)
(***************************************************************************)
EXTENDS BlockChain, TLAPS, FiniteSetTheorems, SharedFacts

----------------------------------------------------------------------------
\* What an item is, and what the trees' assumptions say of its block.
LEMMA ItemFacts ==
  ASSUME NEW it \in Item
  PROVE  /\ it.block \in Block /\ it.header \in BOOLEAN
         /\ Parent[it.block] \in Block
         /\ Anc[it.block] = {it.block} \cup Anc[Parent[it.block]]
         /\ Height[it.block] \in Nat
         /\ KindOf(it) \in Kind
  BY TreeAssumption DEF Item, KindOf, Kind

\* The walk back from a block stays among the blocks.
LEMMA WalkInBlock ==
  ASSUME NEW b \in Block, NEW bl
  PROVE  Walk(b, bl) \subseteq Block
  BY TreeAssumption DEF Walk

\* TX_UNCONFIRMED is a height.
LEMMA UnconfirmedIsNat == TX_UNCONFIRMED \in Nat
  BY TreeAssumption, FS_CardinalityType DEF TX_UNCONFIRMED

LEMMA SetBlockHeightType ==
  ASSUME TypeOK, NEW h \in Nat, NEW txs
  PROVE  SetBlockHeight(h, txs) \in [Tx -> Nat]
  BY DEF TypeOK, SetBlockHeight

LEMMA DictionaryType ==
  ASSUME TypeOK, NEW it \in Item
  PROVE  Kept(it) \in [Block -> Kind] /\ Stored(it) \in [Block -> Kind]
<1>1. Kept(it) \in [Block -> Kind]
  BY DEF TypeOK, Kept, Kind
<1> QED
  BY <1>1, ItemFacts DEF Stored

LEMMA BecomesLastType ==
  ASSUME TypeOK, NEW p \in Peer, NEW b \in Block, BecomesLast(p, b)
  PROVE  /\ lastBlock' \in Block
         /\ call' \in [peer : Peer, item : Item] \cup {None}
         /\ orphans' \in [Block -> Item \cup {None}]
<1>1. orphans[b] \in Item \cup {None}
  BY DEF TypeOK
<1> QED
  BY <1>1 DEF TypeOK, BecomesLast

LEMMA KeepOrphanType ==
  ASSUME TypeOK, NEW it \in Item, KeepOrphan(it, orphans)
  PROVE  orphans' \in [Block -> Item \cup {None}] /\ lastOrphan' \in Block \cup {None}
  BY ItemFacts DEF TypeOK, KeepOrphan

\* A reorganisation leaves every transaction with a height.
LEMMA ReorganizeType ==
  ASSUME TypeOK, NEW p \in Peer, NEW it \in Item, Reorganize(p, it)
  PROVE  txHeight' \in [Tx -> Nat]
<1> DEFINE stored == Stored(it)
           new == Walk(it.block, stored)
           heights == JoinHeights(new, Walk(lastBlock, stored))
           at(t) == {Height[a] : a \in {c \in new : Height[c] > heights.b2 /\ t \in TxHashes(c, stored)}}
           lowest(t) == CHOOSE h \in at(t) : \A g \in at(t) : h <= g
<1>1. txHeight' = [t \in Tx |->
         IF t \notin wallet THEN txHeight[t]
         ELSE IF at(t) # {} THEN lowest(t)
         ELSE IF AboveJoin(t, heights.b) THEN TX_UNCONFIRMED
         ELSE txHeight[t]]
  BY DEF Reorganize
<1>2. ASSUME NEW t \in Tx, at(t) # {}
      PROVE  lowest(t) \in Nat
  <2>1. new \subseteq Block
    BY WalkInBlock, ItemFacts
  <2>2. at(t) \in SUBSET Nat
    BY <2>1, TreeAssumption
  <2> HIDE DEF at
  <2>3. \E h \in at(t) : \A g \in at(t) : h <= g
    BY <1>2, <2>2, LeastOf
  <2> QED
    BY <2>2, <2>3
<1>3. txHeight \in [Tx -> Nat]
  BY DEF TypeOK
<1> HIDE DEF at, lowest, heights
<1> QED
  BY <1>1, <1>2, <1>3, UnconfirmedIsNat

----------------------------------------------------------------------------
\* Each outcome of peer:relayedBlock: keeps the types.
LEMMA RelayedBlockType ==
  ASSUME TypeOK, NEW p \in Peer, NEW it \in Item, RelayedBlock(p, it)
  PROVE  TypeOK'
<1> USE DEF TypeOK
<1>1. UNCHANGED <<lastblock, rescans>>
  BY DEF RelayedBlock
<1>2. CASE IgnoreHeader(it)
  BY <1>1, <1>2 DEF IgnoreHeader, walletVars
<1>3. CASE ReceiveOrphan(it)
  BY <1>1, <1>3, KeepOrphanType DEF ReceiveOrphan, walletVars
<1>4. CASE RejectBlock(p, it)
  BY <1>1, <1>4, DictionaryType DEF RejectBlock, walletVars
<1>5. CASE ExtendChain(p, it)
  BY <1>1, <1>5, ItemFacts, DictionaryType, BecomesLastType, SetBlockHeightType DEF ExtendChain
<1>6. CASE ReplaceBlock(p, it)
  <2>1. blocks' \in [Block -> Kind] /\ txHeight' \in [Tx -> Nat]
    BY <1>6, ItemFacts, DictionaryType, SetBlockHeightType DEF ReplaceBlock
  <2>2. /\ lastBlock' \in Block
        /\ call' \in [peer : Peer, item : Item] \cup {None}
        /\ orphans' \in [Block -> Item \cup {None}]
    BY <1>6, ItemFacts, BecomesLastType DEF ReplaceBlock
  <2> QED
    BY <1>1, <1>6, <2>1, <2>2 DEF ReplaceBlock
<1>7. CASE IgnoreOldFork(it)
  BY <1>1, <1>7, DictionaryType DEF IgnoreOldFork, walletVars
<1>8. CASE PostponeFork(p, it)
  BY <1>1, <1>8, DictionaryType, KeepOrphanType DEF PostponeFork, walletVars
<1>9. CASE StoreFork(p, it)
  BY <1>1, <1>9, DictionaryType DEF StoreFork, walletVars
<1>10. CASE Reorganize(p, it)
  <2>1. blocks' \in [Block -> Kind] /\ txHeight' \in [Tx -> Nat]
    BY <1>10, DictionaryType, ReorganizeType DEF Reorganize
  <2>2. /\ lastBlock' \in Block
        /\ call' \in [peer : Peer, item : Item] \cup {None}
        /\ orphans' \in [Block -> Item \cup {None}]
    BY <1>10, ItemFacts, BecomesLastType DEF Reorganize
  <2>3. UNCHANGED <<lastOrphan, misbehavin, wallet>>
    BY <1>10 DEF Reorganize
  <2> QED
    BY <1>1, <2>1, <2>2, <2>3
<1> QED
  BY <1>2, <1>3, <1>4, <1>5, <1>6, <1>7, <1>8, <1>9, <1>10 DEF RelayedBlock

\* With nothing stored, the lastBlock getter returns StartCheckpoint.
LEMMA LoadedLastBlockEmpty == LoadedLastBlock(NoEntities) = StartCheckpoint
  BY DEF LoadedLastBlock, NoEntities

\* A rescan goes back to a checkpoint or to the genesis block, or reloads lastBlock.
LEMMA RescanStartFacts ==
  ASSUME NEW stored
  PROVE  \/ RescanStart(stored) \in Checkpoint \cup {Genesis}
         \/ RescanStart(stored) = LoadedLastBlock(stored)
<1> DEFINE usable == {c \in Checkpoint : Height[c] <= Height[StartCheckpoint] /\ blocks[c] # "none"}
           H == {Height[c] : c \in usable}
<1>1. CASE usable = {}
  BY <1>1 DEF RescanStart
<1>2. CASE usable # {}
  <2>1. usable \subseteq Block /\ StartCheckpoint \in Block
    BY CheckpointAssumption, TreeAssumption
  <2>2. H \in SUBSET Nat /\ H # {} /\ Height[StartCheckpoint] \in Nat
    BY <1>2, <2>1, TreeAssumption
  <2>3. \A h \in H : h <= Height[StartCheckpoint]
    OBVIOUS
  <2> HIDE DEF H, usable
  <2>4. PICK m \in H : \A h \in H : h <= m
    BY <2>2, <2>3, GreatestOf
  <2>5. \E c \in usable : \A d \in usable : Height[d] <= Height[c]
    BY <2>4 DEF H
  <2>6. RescanStart(stored) = CHOOSE c \in usable : \A d \in usable : Height[d] <= Height[c]
    BY <1>2 DEF RescanStart, usable
  <2>7. RescanStart(stored) \in usable
    BY <2>5, <2>6
  <2> QED
    BY <2>7 DEF usable
<1> QED
  BY <1>1, <1>2

\* Where a rescan goes back to, when nothing is stored.
LEMMA RescanEmptyFacts ==
  /\ RescanStart(NoEntities) \in Checkpoint \cup {Genesis}
  /\ LoadedLastBlock(NoEntities) \in Checkpoint \cup {Genesis}
  BY RescanStartFacts, LoadedLastBlockEmpty, CheckpointAssumption

LEMMA InitType == Init => TypeOK
<1> SUFFICES ASSUME Init PROVE TypeOK
  OBVIOUS
<1>1. blocks \in [Block -> Kind]
  BY DEF Init, LoadedBlocks, NoEntities, Kind
<1>2. lastBlock \in Block
  BY CheckpointAssumption, TreeAssumption DEF Init
<1>3. txHeight \in [Tx -> Nat]
  BY UnconfirmedIsNat DEF Init
<1> QED
  BY <1>1, <1>2, <1>3 DEF Init, TypeOK

LEMMA RelayedTransactionType ==
  ASSUME TypeOK, NEW t \in Tx, RelayedTransaction(t)
  PROVE  TypeOK'
  BY UnconfirmedIsNat DEF RelayedTransaction, TypeOK, chainVars

LEMMA AcceptVersionType ==
  ASSUME TypeOK, NEW p \in Peer, NEW h \in LastblockClaims, AcceptVersion(p, h)
  PROVE  TypeOK'
  BY DataAssumption DEF AcceptVersion, TypeOK, chainVars, walletVars

LEMMA GoBackToType ==
  ASSUME TypeOK, NEW b \in Block, GoBackTo(b)
  PROVE  TypeOK'
  BY DEF GoBackTo, TypeOK, walletVars

LEMMA NextType == TypeOK /\ [Next]_vars => TypeOK'
<1> SUFFICES ASSUME TypeOK, [Next]_vars PROVE TypeOK'
  OBVIOUS
<1>1. ASSUME NEW p \in Peer, NEW it \in Item, ReceiveBlock(p, it) PROVE TypeOK'
  BY <1>1, RelayedBlockType DEF ReceiveBlock
<1>2. CASE ConnectOrphan
  <2>1. call.peer \in Peer /\ call.item \in Item
    BY <1>2 DEF ConnectOrphan, TypeOK
  <2> QED
    BY <1>2, <2>1, RelayedBlockType DEF ConnectOrphan
<1>3. ASSUME NEW t \in Tx, RelayedTransaction(t) PROVE TypeOK'
  BY <1>3, RelayedTransactionType
<1>4. ASSUME NEW p \in Peer, NEW h \in LastblockClaims, AcceptVersion(p, h) PROVE TypeOK'
  BY <1>4, AcceptVersionType
<1>5. CASE Rescan(NoEntities) \/ RescanRaced(NoEntities)
  BY <1>5, GoBackToType, RescanEmptyFacts, CheckpointAssumption, TreeAssumption
  DEF Rescan, RescanRaced
<1>6. CASE UNCHANGED vars
  BY <1>6 DEF vars, chainVars, walletVars, TypeOK
<1> QED
  BY <1>1, <1>2, <1>3, <1>4, <1>5, <1>6 DEF Next

\* The variables of BlockChain have their types in every reachable state.
THEOREM TypeCorrect == Spec => []TypeOK
  BY InitType, NextType, PTL DEF Spec

----------------------------------------------------------------------------
\* The genesis block and the checkpoints agree with the checkpoints, the genesis
\* block because no checkpoint is at its height.
LEMMA StartAgrees == \A c \in Checkpoint \cup {Genesis} : c \in Block /\ AgreesWithCheckpoints(c)
<1>1. \A c \in Checkpoint : Height[c] > 0
  <2> SUFFICES ASSUME NEW c \in Checkpoint PROVE Height[c] > 0
    OBVIOUS
  <2>1. c \in Block \ {Genesis} /\ Parent[c] \in Block
    BY CheckpointAssumption, TreeAssumption
  <2>2. Height[Parent[c]] \in Nat /\ Height[c] = Height[Parent[c]] + 1
    BY <2>1, TreeAssumption
  <2> QED
    BY <2>2
<1>2. AgreesWithCheckpoints(Genesis)
  BY <1>1, TreeAssumption DEF AgreesWithCheckpoints, CheckpointHeights
<1> QED
  BY <1>2, CheckpointAssumption, TreeAssumption

\* A block is only put in the dictionary, or made lastBlock, when its parent is in
\* it and it is no other block than the checkpoint at its height.
LEMMA VerifiedAgrees ==
  ASSUME CheckpointsRespected, NEW it \in Item, Verified(it)
  PROVE  AgreesWithCheckpoints(it.block)
<1>1. AgreesWithCheckpoints(Parent[it.block])
  BY ItemFacts DEF CheckpointsRespected, Verified, Attached
<1> QED
  BY <1>1, ItemFacts DEF AgreesWithCheckpoints, Verified, MatchesCheckpoint

LEMMA DictionaryAgrees ==
  ASSUME TypeOK, CheckpointsRespected, NEW it \in Item, NEW b \in Block
  PROVE  /\ Kept(it)[b] # "none" => AgreesWithCheckpoints(b)
         /\ Stored(it)[b] # "none" /\ Verified(it) => AgreesWithCheckpoints(b)
<1>1. Kept(it)[b] # "none" => AgreesWithCheckpoints(b)
  BY DEF CheckpointsRespected, Kept
<1>2. b # it.block => Stored(it)[b] = Kept(it)[b]
  BY DictionaryType DEF Stored
<1> QED
  BY <1>1, <1>2, VerifiedAgrees

\* No outcome of peer:relayedBlock: keeps a block against the checkpoints.
LEMMA RelayedBlockAgrees ==
  ASSUME TypeOK, CheckpointsRespected, NEW p \in Peer, NEW it \in Item, RelayedBlock(p, it)
  PROVE  CheckpointsRespected'
<1>1. CASE IgnoreHeader(it) \/ ReceiveOrphan(it)
  BY <1>1 DEF IgnoreHeader, ReceiveOrphan, CheckpointsRespected, AgreesWithCheckpoints
<1>2. CASE RejectBlock(p, it) \/ IgnoreOldFork(it) \/ PostponeFork(p, it)
  <2>1. blocks' = Kept(it) /\ lastBlock' = lastBlock
    BY <1>2 DEF RejectBlock, IgnoreOldFork, PostponeFork
  <2> QED
    BY <2>1, DictionaryAgrees DEF CheckpointsRespected, AgreesWithCheckpoints
<1>3. CASE /\ Verified(it)
           /\ ExtendChain(p, it) \/ ReplaceBlock(p, it) \/ StoreFork(p, it) \/ Reorganize(p, it)
  <2>1. blocks' = Stored(it) /\ (lastBlock' = lastBlock \/ lastBlock' = it.block)
    BY <1>3 DEF ExtendChain, ReplaceBlock, StoreFork, Reorganize, BecomesLast
  <2>2. AgreesWithCheckpoints(it.block)
    BY <1>3, VerifiedAgrees
  <2> QED
    BY <1>3, <2>1, <2>2, DictionaryAgrees DEF CheckpointsRespected, AgreesWithCheckpoints
<1> QED
  BY <1>1, <1>2, <1>3 DEF RelayedBlock

LEMMA InitAgrees == Init => CheckpointsRespected
  BY StartAgrees, CheckpointAssumption
  DEF Init, LoadedBlocks, NoEntities, CheckpointsRespected, AgreesWithCheckpoints

\* The wallet never keeps a block of a branch that contradicts a checkpoint, nor
\* follows one, whatever peers relay and however often the user rescans.
THEOREM CheckpointsAlwaysRespected == Spec => []CheckpointsRespected
<1>1. Init => CheckpointsRespected
  BY InitAgrees
<1>2. TypeOK /\ CheckpointsRespected /\ [Next]_vars => CheckpointsRespected'
  <2> SUFFICES ASSUME TypeOK, CheckpointsRespected, [Next]_vars PROVE CheckpointsRespected'
    OBVIOUS
  <2>1. ASSUME NEW p \in Peer, NEW it \in Item, ReceiveBlock(p, it) PROVE CheckpointsRespected'
    BY <2>1, RelayedBlockAgrees DEF ReceiveBlock
  <2>2. CASE ConnectOrphan
    <3>1. call.peer \in Peer /\ call.item \in Item
      BY <2>2 DEF ConnectOrphan, TypeOK
    <3> QED
      BY <2>2, <3>1, RelayedBlockAgrees DEF ConnectOrphan
  <2>3. CASE UNCHANGED <<blocks, lastBlock>>
    BY <2>3 DEF CheckpointsRespected, AgreesWithCheckpoints
  <2>4. CASE Rescan(NoEntities) \/ RescanRaced(NoEntities)
    <3>1. lastBlock' \in Checkpoint \cup {Genesis} /\ blocks' = blocks
      BY <2>4, RescanEmptyFacts DEF Rescan, RescanRaced, GoBackTo
    <3> QED
      BY <3>1, StartAgrees DEF CheckpointsRespected, AgreesWithCheckpoints
  <2> QED
    BY <2>1, <2>2, <2>3, <2>4
    DEF Next, RelayedTransaction, AcceptVersion, vars, chainVars
<1> QED
  BY <1>1, <1>2, TypeCorrect, PTL DEF Spec

----------------------------------------------------------------------------
\* Whatever becomes lastBlock in peer:relayedBlock: is higher, or was it already.
LEMMA RelayedBlockRaisesTip ==
  ASSUME TypeOK, NEW p \in Peer, NEW it \in Item, RelayedBlock(p, it)
  PROVE  lastBlock' = lastBlock \/ Height[lastBlock'] > Height[lastBlock]
<1>1. CASE \/ IgnoreHeader(it) \/ ReceiveOrphan(it) \/ RejectBlock(p, it)
           \/ IgnoreOldFork(it) \/ PostponeFork(p, it) \/ StoreFork(p, it)
  BY <1>1 DEF IgnoreHeader, ReceiveOrphan, RejectBlock, IgnoreOldFork, PostponeFork, StoreFork
<1>2. CASE ExtendChain(p, it)
  <2>1. lastBlock' = it.block /\ Parent[it.block] = lastBlock
    BY <1>2 DEF ExtendChain, BecomesLast
  <2>2. Height[it.block] = Height[lastBlock] + 1 /\ Height[lastBlock] \in Nat
    BY <2>1, TreeAssumption DEF TypeOK, Item
  <2> QED
    BY <2>1, <2>2
<1>3. CASE ReplaceBlock(p, it)
  BY <1>3 DEF ReplaceBlock, BecomesLast
<1>4. CASE Reorganize(p, it)
  BY <1>4 DEF Reorganize, BecomesLast, Longer
<1> QED
  BY <1>1, <1>2, <1>3, <1>4 DEF RelayedBlock

\* The tip only moves up, except when the user rescans.
THEOREM TipOnlyRises == Spec => TipNeverLower
<1>1. TypeOK /\ [Next]_vars =>
        [rescans' # rescans \/ Height[lastBlock'] > Height[lastBlock]]_lastBlock
  <2> SUFFICES ASSUME TypeOK, [Next]_vars, lastBlock' # lastBlock
               PROVE  rescans' # rescans \/ Height[lastBlock'] > Height[lastBlock]
    OBVIOUS
  <2>1. ASSUME NEW p \in Peer, NEW it \in Item, ReceiveBlock(p, it)
        PROVE  Height[lastBlock'] > Height[lastBlock]
    BY <2>1, RelayedBlockRaisesTip DEF ReceiveBlock
  <2>2. CASE ConnectOrphan
    <3>1. call.peer \in Peer /\ call.item \in Item
      BY <2>2 DEF ConnectOrphan, TypeOK
    <3> QED
      BY <2>2, <3>1, RelayedBlockRaisesTip DEF ConnectOrphan
  <2>3. CASE Rescan(NoEntities) \/ RescanRaced(NoEntities)
    BY <2>3 DEF Rescan, RescanRaced, GoBackTo, TypeOK
  <2> QED
    BY <2>1, <2>2, <2>3 DEF Next, RelayedTransaction, AcceptVersion, vars, chainVars
<1> QED
  BY <1>1, TypeCorrect, PTL DEF Spec, TipNeverLower

----------------------------------------------------------------------------
(***************************************************************************)
(* Until the user rescans, the chain can be extended: the tip and what is  *)
(* left of its branch reach back to the latest transition, and no orphan   *)
(* of the tip is left waiting.  What is freed at a transition is below the *)
(* latest transition of the tip, because the new block is at most one      *)
(* above it: nothing else is up there but checkpoints not yet reached, and *)
(* the block after one of those is at no transition.  The same reach back  *)
(* is an invariant of every block that high, as it may become the tip.     *)
(*                                                                         *)
(* The interval is 2016; with 1 a block after a checkpoint would be at a   *)
(* transition itself.                                                      *)
(***************************************************************************)
\* The height of the latest transition up to h.
Transition(h) == h - (h % Interval)

NoneAboveTip ==
  \A b \in Block : blocks[b] # "none" /\ b \notin Checkpoint => Height[b] <= Height[lastBlock]

BareAtTransition == \A b \in Block : blocks[b] = "bare" => AtTransition(b)

\* The branch of b is in the dictionary from its latest transition on.
BackToTransition(b) ==
  /\ \E a \in Anc[b] : Height[a] = Transition(Height[b])
  /\ \A a \in Anc[b] : Height[a] >= Transition(Height[b]) => blocks[a] # "none"

HighBackToTransition ==
  \A b \in Block :
    blocks[b] # "none" /\ Height[b] >= Transition(Height[lastBlock]) => BackToTransition(b)

Extendable ==
  /\ LastBlockKept /\ NoneAboveTip /\ BareAtTransition /\ HighBackToTransition
  /\ orphans[lastBlock] = None

LEMMA TransitionFacts ==
  ASSUME NEW h \in Nat
  PROVE  /\ Transition(h) \in Nat /\ Transition(h) <= h /\ h < Transition(h) + Interval
         /\ Transition(h) % Interval = 0
         /\ h % Interval = 0 <=> Transition(h) = h
  BY LatestMultiple, DataAssumption DEF Transition

\* There is no other transition after the latest one.
LEMMA TransitionLatest ==
  ASSUME NEW h \in Nat, NEW g \in Nat, g % Interval = 0, g <= h
  PROVE  g <= Transition(h)
<1>1. /\ Transition(h) \in Nat /\ h < Transition(h) + Interval
      /\ Transition(h) % Interval = 0
  BY TransitionFacts
<1> DEFINE t == Transition(h)
<1> HIDE DEF t
<1>2. t < g => t + Interval <= g
  BY <1>1, MultiplesApart, DataAssumption DEF t
<1> QED
  BY <1>1, <1>2, DataAssumption DEF t

LEMMA TransitionRises ==
  ASSUME NEW g \in Nat, NEW h \in Nat, g <= h
  PROVE  Transition(g) <= Transition(h)
<1>1. Transition(g) \in Nat /\ Transition(g) % Interval = 0 /\ Transition(g) <= h
  BY TransitionFacts
<1> QED
  BY <1>1, TransitionLatest

\* Between two transitions the latest one stays the same.
LEMMA TransitionSame ==
  ASSUME NEW h \in Nat, (h + 1) % Interval # 0
  PROVE  Transition(h + 1) = Transition(h)
<1>1. h + 1 \in Nat
  OBVIOUS
<1>2. Transition(h) <= Transition(h + 1)
  BY <1>1, TransitionRises
<1>3. Transition(h + 1) <= h
  BY <1>1, TransitionFacts
<1>4. Transition(h + 1) <= Transition(h)
  BY <1>1, <1>3, TransitionFacts, TransitionLatest
<1> QED
  BY <1>1, <1>2, <1>4, TransitionFacts

\* A block at a transition is the end of its own branch.
LEMMA TransitionIsItsOwn ==
  ASSUME NEW b \in Block, AtTransition(b)
  PROVE  /\ Height[b] \in Nat /\ Transition(Height[b]) = Height[b] /\ b \in Anc[b]
         /\ \A a \in Anc[b] : Height[a] >= Transition(Height[b]) => a = b
<1>1. Height[b] \in Nat /\ \A a \in Anc[b] : Height[a] \in Nat
  BY TreeAssumption
<1>2. Transition(Height[b]) = Height[b]
  BY <1>1, TransitionFacts DEF AtTransition
<1>3. b \in Anc[b]
  BY TreeAssumption
<1>4. ASSUME NEW a \in Anc[b], Height[a] >= Height[b] PROVE a = b
  <2>1. Height[a] = Height[b]
    BY <1>1, <1>4, BranchAssumption
  <2> QED
    BY <1>3, <2>1, BranchAssumption
<1> QED
  BY <1>1, <1>2, <1>3, <1>4

\* Where the new block and its parent are.
LEMMA AttachedFacts ==
  ASSUME NEW it \in Item, Attached(it)
  PROVE  /\ Parent[it.block] \in Block /\ blocks[Parent[it.block]] # "none"
         /\ Height[Parent[it.block]] \in Nat
         /\ Height[it.block] = Height[Parent[it.block]] + 1
  BY TreeAssumption DEF Item, Attached

\* A block at a transition is at most one above the tip.
LEMMA TransitionNearTip ==
  ASSUME TypeOK, NoneAboveTip, Interval > 1, NEW it \in Item, Attached(it), AtTransition(it.block)
  PROVE  Height[it.block] <= Height[lastBlock] + 1
<1> DEFINE h == Height[it.block]
           up == Parent[it.block]
<1>1. h % Interval = 0
  BY DEF AtTransition
<1>2. /\ up \in Block /\ blocks[up] # "none" /\ Height[up] \in Nat /\ h = Height[up] + 1
  BY AttachedFacts
<1>3. Height[lastBlock] \in Nat /\ Interval \in Nat \ {0}
  BY TreeAssumption, DataAssumption DEF TypeOK
<1> HIDE DEF h, up
<1>4. up \notin Checkpoint
  <2>1. up \in Checkpoint => Height[up] % Interval = 0
    BY CheckpointAssumption
  <2>2. h \in Nat /\ Height[up] < h
    BY <1>2
  <2>3. up \in Checkpoint => Height[up] + Interval <= h
    BY <1>1, <1>2, <1>3, <2>1, <2>2, MultiplesApart
  <2> QED
    BY <1>2, <1>3, <2>3
<1>5. Height[up] <= Height[lastBlock]
  BY <1>2, <1>4 DEF NoneAboveTip
<1> QED
  BY <1>2, <1>3, <1>5 DEF h

LEMMA FreedBelowTransition ==
  ASSUME TypeOK, NoneAboveTip, Interval > 1, NEW it \in Item, Attached(it), NEW a \in Freed(it)
  PROVE  Height[a] < Transition(Height[lastBlock])
<1> DEFINE h == Height[it.block]
           t == Transition(Height[lastBlock])
<1>1. AtTransition(it.block) /\ Height[a] + Interval < h /\ a \in Block
  BY WalkInBlock, ItemFacts DEF Freed, Path
<1>2. h <= Height[lastBlock] + 1
  BY <1>1, TransitionNearTip
<1>3. /\ Height[a] \in Nat /\ h \in Nat /\ Height[lastBlock] \in Nat /\ Interval \in Nat \ {0}
  BY <1>1, ItemFacts, TreeAssumption, DataAssumption DEF TypeOK
<1>4. t \in Nat /\ Height[lastBlock] < t + Interval
  BY <1>3, TransitionFacts
<1> HIDE DEF h, t
<1>5. Height[a] < t
  BY <1>1, <1>2, <1>3, <1>4
<1> QED
  BY <1>5 DEF t

\* What stays in the dictionary.
LEMMA KeptFacts ==
  ASSUME TypeOK, NoneAboveTip, Interval > 1, NEW it \in Item, Attached(it), NEW b \in Block
  PROVE  /\ Kept(it)[b] # "none" => Kept(it)[b] = blocks[b]
         /\ Height[b] >= Transition(Height[lastBlock]) => Kept(it)[b] = blocks[b]
         /\ ~AtTransition(it.block) => Kept(it)[b] = blocks[b]
         /\ Stored(it)[b] = IF b = it.block THEN KindOf(it) ELSE Kept(it)[b]
<1>1. Height[b] \in Nat /\ Transition(Height[lastBlock]) \in Nat
  BY TreeAssumption, TransitionFacts DEF TypeOK
<1>2. b \in Freed(it) => Height[b] < Transition(Height[lastBlock])
  BY FreedBelowTransition
<1>3. Kept(it)[b] = IF b \in Freed(it) THEN "none" ELSE blocks[b]
  BY DEF Kept
<1>4. ~AtTransition(it.block) => b \notin Freed(it)
  BY DEF Freed
<1>5. Stored(it)[b] = IF b = it.block THEN KindOf(it) ELSE Kept(it)[b]
  BY DictionaryType DEF Stored
<1> QED
  BY <1>1, <1>2, <1>3, <1>4, <1>5

\* The handler drops what it frees, and does not move the tip.
LEMMA KeptExtendable ==
  ASSUME TypeOK, Extendable, Interval > 1, NEW it \in Item, Attached(it),
         blocks' = Kept(it), lastBlock' = lastBlock, orphans'[lastBlock] = None
  PROVE  Extendable'
<1> USE DEF Extendable
<1>1. Height[lastBlock] \in Nat /\ lastBlock \in Block
  BY TreeAssumption DEF TypeOK
<1>2. LastBlockKept'
  BY <1>1, KeptFacts, TransitionFacts DEF LastBlockKept
<1>3. NoneAboveTip' /\ BareAtTransition'
  BY KeptFacts DEF NoneAboveTip, BareAtTransition, AtTransition
<1>4. HighBackToTransition'
  <2> SUFFICES ASSUME NEW b \in Block, blocks'[b] # "none",
                      Height[b] >= Transition(Height[lastBlock])
               PROVE  BackToTransition(b)'
    BY DEF HighBackToTransition
  <2>1. BackToTransition(b)
    BY KeptFacts DEF HighBackToTransition
  <2>2. Height[b] \in Nat /\ Anc[b] \subseteq Block
    BY TreeAssumption
  <2>3. Transition(Height[lastBlock]) <= Transition(Height[b])
    BY <1>1, <2>2, TransitionFacts, TransitionLatest
  <2>4. ASSUME NEW a \in Anc[b], Height[a] >= Transition(Height[b]) PROVE blocks'[a] # "none"
    <3>1. Height[a] \in Nat
      BY <2>2, TreeAssumption
    <3>2. Height[a] >= Transition(Height[lastBlock])
      BY <1>1, <2>2, <2>3, <2>4, <3>1, TransitionFacts
    <3> QED
      BY <2>1, <2>2, <2>4, <3>2, KeptFacts DEF BackToTransition
  <2> QED
    BY <2>1, <2>4 DEF BackToTransition
<1> QED
  BY <1>2, <1>3, <1>4

\* The handler puts the new block in the dictionary, and the tip is the higher of
\* the two, unless the block is a checkpoint.
LEMMA StoredExtendable ==
  ASSUME TypeOK, Extendable, Interval > 1, NEW it \in Item, Attached(it),
         blocks' = Stored(it), lastBlock' \in {lastBlock, it.block},
         Height[lastBlock] <= Height[lastBlock'],
         it.block \notin Checkpoint => Height[it.block] <= Height[lastBlock'],
         orphans'[lastBlock'] = None
  PROVE  Extendable'
<1> USE DEF Extendable
<1>1. /\ Height[lastBlock] \in Nat /\ lastBlock \in Block
      /\ Height[lastBlock'] \in Nat /\ lastBlock' \in Block
      /\ it.block \in Block /\ Height[it.block] \in Nat
  BY ItemFacts, TreeAssumption DEF TypeOK
<1>2. KindOf(it) # "none" /\ KindOf(it) # "bare"
  BY DEF KindOf
<1>3. LastBlockKept'
  <2>1. Kept(it)[lastBlock] # "none"
    BY <1>1, KeptFacts, TransitionFacts DEF LastBlockKept
  <2> QED
    BY <1>1, <1>2, <2>1, KeptFacts DEF LastBlockKept
<1>4. NoneAboveTip'
  <2> SUFFICES ASSUME NEW b \in Block, blocks'[b] # "none", b \notin Checkpoint
               PROVE  Height[b] <= Height[lastBlock']
    BY DEF NoneAboveTip
  <2>1. CASE b = it.block
    BY <2>1
  <2>2. CASE b # it.block
    <3>1. Height[b] <= Height[lastBlock] /\ Height[b] \in Nat
      BY <2>2, KeptFacts, TreeAssumption DEF NoneAboveTip
    <3> QED
      BY <1>1, <3>1
  <2> QED
    BY <2>1, <2>2
<1>5. BareAtTransition'
  BY <1>2, KeptFacts DEF BareAtTransition, AtTransition
<1>6. ASSUME NEW a \in Block, blocks[a] # "none", Height[a] >= Transition(Height[lastBlock])
      PROVE  blocks'[a] # "none"
  BY <1>2, <1>6, KeptFacts
<1>7. HighBackToTransition'
  <2> SUFFICES ASSUME NEW b \in Block, blocks'[b] # "none",
                      Height[b] >= Transition(Height[lastBlock'])
               PROVE  BackToTransition(b)'
    BY DEF HighBackToTransition
  <2>1. Height[b] \in Nat /\ Anc[b] \subseteq Block /\ \A a \in Anc[b] : Height[a] \in Nat
    BY TreeAssumption
  <2>2. /\ Transition(Height[lastBlock]) <= Transition(Height[lastBlock'])
        /\ Transition(Height[lastBlock']) <= Transition(Height[b])
        /\ Transition(Height[lastBlock]) \in Nat /\ Transition(Height[lastBlock']) \in Nat
        /\ Transition(Height[b]) \in Nat
    BY <1>1, <2>1, TransitionRises, TransitionFacts, TransitionLatest
  <2>3. CASE b # it.block
    <3>1. blocks[b] # "none" /\ BackToTransition(b)
      BY <2>1, <2>2, <2>3, KeptFacts DEF HighBackToTransition
    <3>2. ASSUME NEW a \in Anc[b], Height[a] >= Transition(Height[b]) PROVE blocks'[a] # "none"
      BY <1>6, <2>1, <2>2, <3>1, <3>2 DEF BackToTransition
    <3> QED
      BY <3>1, <3>2 DEF BackToTransition
  <2>4. CASE b = it.block /\ AtTransition(b)
    BY <2>4, TransitionIsItsOwn DEF BackToTransition
  <2>5. CASE b = it.block /\ ~AtTransition(b)
    <3> DEFINE up == Parent[b]
    <3>1. /\ up \in Block /\ blocks[up] # "none" /\ Height[up] \in Nat
          /\ Height[b] = Height[up] + 1 /\ Anc[b] = {b} \cup Anc[up]
      BY <2>5, AttachedFacts, ItemFacts
    <3> HIDE DEF up
    <3>2. Transition(Height[b]) = Transition(Height[up])
      BY <2>5, <3>1, TransitionSame DEF AtTransition
    <3>3. Height[up] >= Transition(Height[lastBlock])
      BY <2>2, <3>1, <3>2, TransitionFacts
    <3>4. BackToTransition(up)
      BY <3>1, <3>3 DEF HighBackToTransition
    <3>5. ASSUME NEW a \in Anc[b], Height[a] >= Transition(Height[b]) PROVE blocks'[a] # "none"
      <4>1. CASE a = b
        BY <2>5, <4>1
      <4>2. CASE a \in Anc[up]
        BY <1>6, <2>1, <2>2, <3>2, <3>4, <3>5, <4>2 DEF BackToTransition
      <4> QED
        BY <3>1, <4>1, <4>2
    <3> QED
      BY <3>1, <3>2, <3>4, <3>5 DEF BackToTransition
  <2> QED
    BY <2>3, <2>4, <2>5
<1> QED
  BY <1>3, <1>4, <1>5, <1>7

\* Each outcome of peer:relayedBlock: leaves the chain extendable.
LEMMA RelayedBlockExtendable ==
  ASSUME TypeOK, Extendable, Interval > 1, NEW p \in Peer, NEW it \in Item, RelayedBlock(p, it)
  PROVE  Extendable'
<1> USE DEF Extendable
<1>1. /\ Height[lastBlock] \in Nat /\ lastBlock \in Block
      /\ it.block \in Block /\ Height[it.block] \in Nat
  BY ItemFacts, TreeAssumption DEF TypeOK
<1>2. CASE IgnoreHeader(it) \/ ReceiveOrphan(it)
  <2>1. blocks' = blocks /\ lastBlock' = lastBlock
    BY <1>2 DEF IgnoreHeader, ReceiveOrphan
  <2>2. orphans'[lastBlock] = None
    BY <1>1, <1>2 DEF IgnoreHeader, ReceiveOrphan, KeepOrphan, Orphan, LastBlockKept, TypeOK
  <2> QED
    BY <2>1, <2>2 DEF LastBlockKept, NoneAboveTip, BareAtTransition, HighBackToTransition,
                      BackToTransition
<1>3. CASE RejectBlock(p, it) \/ (Verified(it) /\ IgnoreOldFork(it))
  BY <1>3, KeptExtendable DEF RejectBlock, IgnoreOldFork, Verified
<1>4. CASE Verified(it) /\ PostponeFork(p, it)
  <2>1. /\ Attached(it) /\ blocks' = Kept(it) /\ lastBlock' = lastBlock
        /\ orphans' = [orphans EXCEPT ![Parent[it.block]] = it]
        /\ Height[it.block] > Height[lastBlock] + 1
    BY <1>4 DEF Verified, PostponeFork, Postponed, KeepOrphan
  <2>2. Parent[it.block] # lastBlock
    BY <1>1, <2>1, AttachedFacts
  <2>3. orphans'[lastBlock] = None
    BY <1>1, <2>1, <2>2 DEF TypeOK
  <2> QED
    BY <2>1, <2>3, KeptExtendable
<1>5. CASE Verified(it) /\ (ExtendChain(p, it) \/ Reorganize(p, it))
  <2>1. /\ Attached(it) /\ blocks' = Stored(it) /\ lastBlock' = it.block
        /\ orphans' = [orphans EXCEPT ![it.block] = None]
    BY <1>5 DEF Verified, ExtendChain, Reorganize, BecomesLast
  <2>2. orphans'[lastBlock'] = None
    BY <1>1, <2>1 DEF TypeOK
  <2>3. Height[lastBlock] <= Height[lastBlock']
    BY <1>1, <2>1, RelayedBlockRaisesTip
  <2>4. Height[it.block] <= Height[lastBlock']
    BY <1>1, <2>1
  <2> QED
    BY <2>1, <2>2, <2>3, <2>4, StoredExtendable
<1>6. CASE Verified(it) /\ ReplaceBlock(p, it)
  <2>1. Attached(it) /\ blocks' = Stored(it) /\ lastBlock' = lastBlock
    BY <1>6 DEF Verified, ReplaceBlock, BecomesLast
  <2>2. orphans'[lastBlock'] = None
    BY <1>1, <1>6, <2>1 DEF ReplaceBlock, BecomesLast, TypeOK
  <2>3. it.block \notin Checkpoint => Height[it.block] <= Height[lastBlock]
    BY <1>1, <1>6, <2>1, KeptFacts DEF ReplaceBlock, NoneAboveTip
  <2> QED
    BY <1>1, <2>1, <2>2, <2>3, StoredExtendable
<1>7. CASE Verified(it) /\ StoreFork(p, it)
  <2>1. /\ Attached(it) /\ blocks' = Stored(it) /\ lastBlock' = lastBlock /\ orphans' = orphans
        /\ ~(Height[it.block] > Height[lastBlock])
    BY <1>7 DEF Verified, StoreFork, Longer
  <2> QED
    BY <1>1, <2>1, StoredExtendable
<1> QED
  BY <1>2, <1>3, <1>4, <1>5, <1>6, <1>7 DEF RelayedBlock

\* The checkpoints and the genesis block are at transitions.
LEMMA StartsAtTransition == \A b \in Checkpoint \cup {Genesis} : b \in Block /\ AtTransition(b)
<1>1. 0 % Interval = 0
  BY DataAssumption
<1> QED
  BY <1>1, CheckpointAssumption, TreeAssumption DEF AtTransition

LEMMA InitExtendable == Init => Extendable
<1> SUFFICES ASSUME Init PROVE Extendable
  OBVIOUS
<1>1. \A b \in Block : blocks[b] = IF b \in Checkpoint \cup {Genesis} THEN "bare" ELSE "none"
  BY DEF Init, LoadedBlocks, NoEntities
<1>2. StartCheckpoint \in Block /\ lastBlock = StartCheckpoint /\ orphans[lastBlock] = None
  BY CheckpointAssumption, TreeAssumption DEF Init
<1>3. LastBlockKept /\ NoneAboveTip
  BY <1>1, <1>2, CheckpointAssumption, TreeAssumption DEF LastBlockKept, NoneAboveTip
<1>4. BareAtTransition
  BY <1>1, StartsAtTransition DEF BareAtTransition
<1>5. HighBackToTransition
  <2> SUFFICES ASSUME NEW b \in Block, blocks[b] # "none" PROVE BackToTransition(b)
    BY DEF HighBackToTransition
  <2>1. AtTransition(b)
    BY <1>1, StartsAtTransition
  <2> QED
    BY <2>1, TransitionIsItsOwn DEF BackToTransition
<1> QED
  BY <1>2, <1>3, <1>4, <1>5 DEF Extendable

LEMMA ExtendableUntilRescan ==
  ASSUME Interval > 1
  PROVE  Spec => [](rescans = 0 => Extendable)
<1>1. Init => (rescans = 0 => Extendable)
  BY InitExtendable
<1>2. TypeOK /\ (rescans = 0 => Extendable) /\ [Next]_vars => (rescans = 0 => Extendable)'
  <2> SUFFICES ASSUME TypeOK, rescans = 0 => Extendable, [Next]_vars, rescans' = 0
               PROVE  Extendable'
    OBVIOUS
  <2>1. ~(Rescan(NoEntities) \/ RescanRaced(NoEntities))
    BY DEF Rescan, RescanRaced, GoBackTo, TypeOK
  <2>2. ASSUME NEW p \in Peer, NEW it \in Item, RelayedBlock(p, it) PROVE Extendable'
    BY <2>2, RelayedBlockExtendable DEF RelayedBlock
  <2>3. CASE ConnectOrphan
    <3>1. call.peer \in Peer /\ call.item \in Item
      BY <2>3 DEF ConnectOrphan, TypeOK
    <3> QED
      BY <2>2, <2>3, <3>1 DEF ConnectOrphan
  <2>4. CASE UNCHANGED <<blocks, lastBlock, orphans, rescans>>
    BY <2>4 DEF Extendable, LastBlockKept, NoneAboveTip, BareAtTransition, HighBackToTransition,
                BackToTransition
  <2> QED
    BY <2>1, <2>2, <2>3, <2>4
    DEF Next, ReceiveBlock, RelayedTransaction, AcceptVersion, vars, chainVars
<1> QED
  BY <1>1, <1>2, TypeCorrect, PTL DEF Spec

\* Until the user rescans, the tip of the chain is never freed at a difficulty
\* transition: the next block would be an orphan.
THEOREM LastBlockAlwaysKept ==
  ASSUME Interval > 1
  PROVE  Spec => [](rescans = 0 => LastBlockKept)
<1>1. (rescans = 0 => Extendable) => (rescans = 0 => LastBlockKept)
  BY DEF Extendable
<1> QED
  BY <1>1, ExtendableUntilRescan, PTL

\* Walking back from the tip reaches the latest transition.
LEMMA WalkToTransition ==
  ASSUME TypeOK, Extendable
  PROVE  /\ \E a \in Anc[lastBlock] : Height[a] = Transition(Height[lastBlock])
         /\ \A a \in Anc[lastBlock] :
              Height[a] >= Transition(Height[lastBlock]) => a \in Walk(lastBlock, blocks)
<1>1. lastBlock \in Block /\ Height[lastBlock] \in Nat /\ Anc[lastBlock] \subseteq Block
  BY TreeAssumption DEF TypeOK
<1>2. Transition(Height[lastBlock]) \in Nat /\ Transition(Height[lastBlock]) <= Height[lastBlock]
  BY <1>1, TransitionFacts
<1>3. BackToTransition(lastBlock)
  BY <1>1, <1>2 DEF Extendable, LastBlockKept, HighBackToTransition
<1>4. ASSUME NEW a \in Anc[lastBlock], Height[a] >= Transition(Height[lastBlock])
      PROVE  a \in Walk(lastBlock, blocks)
  <2>1. ASSUME NEW c \in Anc[lastBlock]
        PROVE  /\ Height[a] <= Height[c] => blocks[c] # "none"
               /\ Height[a] < Height[c] => blocks[c] # "bare"
    <3>1. Height[c] \in Nat /\ Height[c] <= Height[lastBlock] /\ c \in Block /\ Height[a] \in Nat
      BY <1>1, BranchAssumption, TreeAssumption
    <3>2. Height[a] <= Height[c] => blocks[c] # "none"
      BY <1>2, <1>3, <1>4, <3>1 DEF BackToTransition
    <3>3. blocks[c] = "bare" => Height[c] <= Transition(Height[lastBlock])
      BY <1>1, <3>1, TransitionLatest DEF Extendable, BareAtTransition, AtTransition
    <3> QED
      BY <1>2, <1>4, <3>1, <3>2, <3>3
  <2> QED
    BY <2>1 DEF Walk
<1> QED
  BY <1>3, <1>4 DEF BackToTransition

\* Until the user rescans, the block that the next transition is measured from is
\* found by walking back from the tip: no peer is blamed for its absence.
THEOREM DifficultyAlwaysCheckable ==
  ASSUME Interval > 1
  PROVE  Spec => [](rescans = 0 => DifficultyCheckable)
<1>1. ASSUME TypeOK, Extendable PROVE DifficultyCheckable
  <2>1. Height[lastBlock] \in Nat
    BY <1>1, TreeAssumption DEF TypeOK
  <2>2. PICK a \in Anc[lastBlock] : Height[a] = Transition(Height[lastBlock])
    BY <1>1, WalkToTransition
  <2>3. a \in Walk(lastBlock, blocks)
    BY <1>1, <2>1, <2>2, WalkToTransition, TransitionFacts
  <2>4. AtTransition(a) /\ Height[a] + Interval > Height[lastBlock]
    BY <2>1, <2>2, TransitionFacts, DataAssumption DEF AtTransition
  <2> QED
    BY <2>3, <2>4 DEF DifficultyCheckable
<1>2. TypeOK /\ (rescans = 0 => Extendable) => (rescans = 0 => DifficultyCheckable)
  BY <1>1
<1> QED
  BY <1>2, TypeCorrect, ExtendableUntilRescan, PTL

\* Until the user rescans, an orphan whose parent is the tip is connected to it at
\* once, in whatever order the blocks came.
THEOREM NoOrphanLeftWaiting ==
  ASSUME Interval > 1
  PROVE  Spec => [](rescans = 0 => NoConnectableOrphan)
<1>1. (rescans = 0 => Extendable) => (rescans = 0 => NoConnectableOrphan)
  BY DEF Extendable, NoConnectableOrphan
<1> QED
  BY <1>1, ExtendableUntilRescan, PTL

----------------------------------------------------------------------------
(***************************************************************************)
(* Branches and walks.                                                     *)
(***************************************************************************)
\* A branch has a block at each height.
LEMMA AncestorAt ==
  ASSUME NEW b \in Block, NEW h \in Nat, h <= Height[b]
  PROVE  \E a \in Anc[b] : Height[a] = h
<1> DEFINE S == {Height[a] : a \in {c \in Anc[b] : Height[c] >= h}}
<1>1. b \in Anc[b] /\ Anc[b] \subseteq Block
  BY TreeAssumption
<1>2. S \in SUBSET Nat /\ S # {}
  BY <1>1, TreeAssumption
<1> HIDE DEF S
<1>3. PICK m \in S : \A n \in S : m <= n
  BY <1>2, LeastOf
<1>4. PICK a \in Anc[b] : Height[a] = m /\ Height[a] >= h
  BY <1>3 DEF S
<1>5. CASE m = h
  BY <1>4, <1>5
<1>6. CASE m # h
  <2> DEFINE up == Parent[a]
  <2>1. a \in Block /\ m \in Nat /\ m > h /\ a # Genesis
    BY <1>1, <1>2, <1>4, <1>6, TreeAssumption
  <2>2. /\ up \in Block /\ Height[up] \in Nat /\ Height[a] = Height[up] + 1
        /\ up \in Anc[up] /\ Anc[a] = {a} \cup Anc[up]
    BY <2>1, TreeAssumption
  <2>3. up \in Anc[b] /\ Height[up] >= h
    BY <1>1, <1>4, <2>1, <2>2, BranchAssumption
  <2>4. Height[up] \in S
    BY <2>3 DEF S
  <2> QED
    BY <1>3, <1>4, <2>2, <2>4
<1> QED
  BY <1>5, <1>6

\* Every branch starts at the genesis block, the only one at height 0.
LEMMA GenesisBelow ==
  ASSUME NEW b \in Block
  PROVE  Genesis \in Anc[b] /\ (Height[b] = 0 => b = Genesis)
<1>1. \A a \in Block : Height[a] = 0 => a = Genesis
  BY TreeAssumption
<1>2. Height[b] \in Nat /\ Anc[b] \subseteq Block
  BY TreeAssumption
<1>3. \E a \in Anc[b] : Height[a] = 0
  BY <1>2, AncestorAt
<1> QED
  BY <1>1, <1>2, <1>3

\* What a block on a branch has in common with it.
LEMMA AncestorFacts ==
  ASSUME NEW b \in Block, NEW a \in Anc[b]
  PROVE  /\ a \in Block /\ Height[a] \in Nat /\ Height[a] <= Height[b]
         /\ Anc[a] \subseteq Anc[b] /\ a \in Anc[a]
         /\ \A c \in Anc[b] : Height[c] <= Height[a] => c \in Anc[a]
         /\ \A c \in Anc[b] : Height[c] = Height[a] => c = a
  BY TreeAssumption, BranchAssumption

\* The walk back from b ends at a lowest block o: it is the part of b's branch from o
\* on, and o is the genesis block, or a bare one, or its parent is not there.
LEMMA WalkFacts ==
  ASSUME NEW b \in Block, NEW bl \in [Block -> Kind]
  PROVE  /\ b \in Walk(b, bl) /\ Walk(b, bl) \subseteq Anc[b]
         /\ \A a \in Walk(b, bl) : a = b \/ bl[a] # "none"
         /\ \E o \in Walk(b, bl) :
              /\ \A a \in Anc[b] : a \in Walk(b, bl) <=> Height[a] >= Height[o]
              /\ o = Genesis \/ bl[o] = "bare" \/ bl[Parent[o]] = "none"
<1> DEFINE W == Walk(b, bl)
           H == {Height[a] : a \in W}
           Solid(a) == \A c \in Anc[b] :
                         /\ Height[a] <= Height[c] /\ c # b => bl[c] # "none"
                         /\ Height[a] < Height[c] => bl[c] # "bare"
<1>1. W = {b} \cup {a \in Anc[b] : Solid(a)}
  BY DEF Walk
<1>2. b \in Anc[b] /\ Anc[b] \subseteq Block /\ \A a \in Anc[b] : Height[a] \in Nat
  BY TreeAssumption
<1>3. b \in W /\ W \subseteq Anc[b]
  BY <1>1, <1>2
<1>4. \A a \in W : a = b \/ bl[a] # "none"
  BY <1>1, <1>2
<1>5. Solid(b) \/ \A a \in Anc[b] : Height[a] >= Height[b] => a = b
  BY <1>2, AncestorFacts
<1>6. ASSUME NEW a \in W, NEW c \in Anc[b], Height[c] >= Height[a] PROVE c \in W
  <2>1. CASE a = b
    <3>1. c = b
      BY <1>2, <1>6, <2>1, AncestorFacts
    <3> QED
      BY <1>3, <3>1
  <2>2. CASE a # b
    <3>1. a \in Anc[b] /\ Solid(a)
      BY <1>1, <2>2
    <3>2. Solid(c)
      BY <1>2, <1>6, <3>1
    <3> QED
      BY <1>1, <3>2
  <2> QED
    BY <2>1, <2>2
<1>7. H \in SUBSET Nat /\ H # {}
  BY <1>2, <1>3
<1> HIDE DEF W, H
<1>8. PICK m \in H : \A n \in H : m <= n
  BY <1>7, LeastOf
<1>9. PICK o \in W : Height[o] = m
  BY <1>8 DEF H
<1>10. \A a \in W : Height[a] >= Height[o]
  BY <1>8, <1>9 DEF H
<1>11. \A a \in Anc[b] : a \in W <=> Height[a] >= Height[o]
  BY <1>6, <1>9, <1>10
<1>12. ASSUME o # Genesis, bl[o] # "bare" PROVE bl[Parent[o]] = "none"
  <2> DEFINE up == Parent[o]
  <2>1. o \in Anc[b] /\ o \in Block
    BY <1>2, <1>3, <1>9
  <2>2. up \in Block /\ Height[up] \in Nat /\ Height[o] = Height[up] + 1 /\ up \in Anc[o]
    BY <1>12, <2>1, TreeAssumption
  <2>3. up \in Anc[b] /\ up # b
    BY <2>1, <2>2, AncestorFacts
  <2>4. up \notin W
    BY <1>10, <2>2
  <2>5. ~Solid(up)
    BY <1>1, <2>3, <2>4
  <2>6. PICK c \in Anc[b] : \/ Height[up] <= Height[c] /\ c # b /\ bl[c] = "none"
                            \/ Height[up] < Height[c] /\ bl[c] = "bare"
    BY <2>5
  <2>7. c \in W => (c = b \/ bl[c] # "none") /\ (c # o => bl[c] # "bare")
    <3> SUFFICES ASSUME c \in W, c # o, bl[c] = "bare" PROVE FALSE
      BY <1>4
    <3>1. Height[c] > Height[o]
      BY <1>2, <1>10, <2>1, AncestorFacts
    <3>2. o # b
      BY <2>1, <3>1, <1>2, AncestorFacts
    <3> QED
      BY <1>1, <1>9, <3>1, <3>2
  <2>8. Height[c] \in Nat
    BY <1>2
  <2>9. CASE Height[c] = Height[up]
    <3>1. c = up
      BY <2>3, <2>9, AncestorFacts
    <3> QED
      BY <2>2, <2>6, <2>9, <3>1
  <2>10. CASE Height[c] # Height[up]
    <3>1. Height[c] >= Height[o]
      BY <2>2, <2>6, <2>8, <2>10
    <3>2. c \in W
      BY <1>11, <3>1
    <3> QED
      BY <1>12, <2>6, <2>7, <3>2
  <2> QED
    BY <2>9, <2>10
<1> QED
  BY <1>3, <1>4, <1>9, <1>11, <1>12 DEF W

----------------------------------------------------------------------------
(***************************************************************************)
(* Until the user rescans, a transaction is shown as confirmed only in a   *)
(* block of the main chain.  The hard step is the reorganisation: the code *)
(* walks back from the new tip and from the old one, through what is left  *)
(* in the dictionary, to the block the branches have in common.  A walk    *)
(* ends early at a checkpoint, which both branches go through, or at a gap *)
(* that a transition left, and then forks shorter than an interval have    *)
(* the block above the gap in common.                                      *)
(***************************************************************************)
\* What has no prevBlock comes from checkpoint_array.
BareIsCheckpoint == \A b \in Block : blocks[b] = "bare" => b \in Checkpoint \cup {Genesis}

\* Where the parent of a block is gone in dictionary bl, it was freed at a transition
\* not above the tip's next block; checkpoints never had one.
GapsBelowTransition(bl) ==
  \A b \in Block \ (Checkpoint \cup {Genesis}) :
    bl[b] # "none" /\ bl[Parent[b]] = "none" =>
      \E x \in Block : /\ AtTransition(x) /\ Height[x] <= Height[lastBlock] + 1
                       /\ Height[Parent[b]] + Interval < Height[x]

\* What holds until the user rescans, in support of both theorems.
Traceable ==
  /\ BareIsCheckpoint /\ GapsBelowTransition(blocks)
  /\ Height[StartCheckpoint] <= Height[lastBlock]

\* The parent of the block that is received is not freed.
LEMMA ParentKept ==
  ASSUME TypeOK, NEW it \in Item, Attached(it)
  PROVE  Parent[it.block] \notin Freed(it) /\ it.block \notin Freed(it)
<1>1. Height[Parent[it.block]] \in Nat /\ Height[it.block] = Height[Parent[it.block]] + 1
  BY AttachedFacts
<1> QED
  BY <1>1, DataAssumption DEF Freed

\* What the dictionary has after the handler freed some blocks, and then stored one.
LEMMA DictionaryFacts ==
  ASSUME TypeOK, NEW it \in Item, NEW b \in Block
  PROVE  /\ Kept(it)[b] = IF b \in Freed(it) THEN "none" ELSE blocks[b]
         /\ Stored(it)[b] = IF b = it.block THEN KindOf(it) ELSE Kept(it)[b]
         /\ KindOf(it) \notin {"none", "bare"}
<1>1. Kept(it)[b] = IF b \in Freed(it) THEN "none" ELSE blocks[b]
  BY DEF Kept
<1> QED
  BY <1>1, DictionaryType DEF Stored, KindOf

\* Freeing blocks at a transition leaves gaps below it only.
LEMMA DictionaryGaps ==
  ASSUME TypeOK, NoneAboveTip, Interval > 1, GapsBelowTransition(blocks),
         NEW it \in Item, Attached(it)
  PROVE  GapsBelowTransition(Kept(it)) /\ GapsBelowTransition(Stored(it))
<1> SUFFICES ASSUME NEW bl \in {Kept(it), Stored(it)},
                    NEW b \in Block \ (Checkpoint \cup {Genesis}),
                    bl[b] # "none", bl[Parent[b]] = "none"
             PROVE  \E x \in Block : /\ AtTransition(x) /\ Height[x] <= Height[lastBlock] + 1
                                     /\ Height[Parent[b]] + Interval < Height[x]
  BY DEF GapsBelowTransition
<1>1. b \in Block /\ Parent[b] \in Block /\ it.block \in Block
  BY TreeAssumption, ItemFacts
<1>2. blocks[Parent[it.block]] # "none" /\ Parent[it.block] \notin Freed(it)
  BY ParentKept DEF Attached
<1>3. CASE Parent[b] \in Freed(it)
  <2>1. AtTransition(it.block) /\ Height[Parent[b]] + Interval < Height[it.block]
    BY <1>3 DEF Freed
  <2> QED
    BY <1>1, <2>1, TransitionNearTip
<1>4. CASE Parent[b] \notin Freed(it)
  <2>1. blocks[Parent[b]] = "none"
    BY <1>1, <1>4, DictionaryFacts
  <2>2. b # it.block
    BY <1>2, <2>1
  <2>3. blocks[b] # "none"
    BY <1>1, <2>2, DictionaryFacts
  <2> QED
    BY <1>1, <2>1, <2>3 DEF GapsBelowTransition
<1> QED
  BY <1>3, <1>4

\* Two blocks next to a transition share what is not an interval below it.
LEMMA SharedAboveGap ==
  ASSUME ShallowForks, NEW x \in Block, AtTransition(x), NEW b \in Block, NEW c \in Block,
         Height[b] + 1 >= Height[x], Height[c] + 1 >= Height[x],
         NEW a \in Anc[b], a # Genesis, Height[Parent[a]] + Interval < Height[x]
  PROVE  a \in Anc[c]
<1>1. PICK f \in Anc[x] \cap Anc[b] : Height[f] + Interval >= Height[x]
  BY DEF ShallowForks
<1>2. PICK g \in Anc[x] \cap Anc[c] : Height[g] + Interval >= Height[x]
  BY DEF ShallowForks
<1>3. /\ a \in Block /\ Parent[a] \in Block /\ Height[Parent[a]] \in Nat
      /\ Height[a] = Height[Parent[a]] + 1
  BY TreeAssumption
<1>4. /\ Height[f] \in Nat /\ Height[g] \in Nat /\ Height[x] \in Nat /\ Interval \in Nat
      /\ f \in Block /\ g \in Block
  BY AncestorFacts, TreeAssumption, DataAssumption
<1>5. Height[a] <= Height[f] /\ Height[a] <= Height[g]
  BY <1>1, <1>2, <1>3, <1>4
<1>6. a \in Anc[f]
  BY <1>1, <1>5, AncestorFacts
<1>7. CASE Height[f] <= Height[g]
  <2>1. f \in Anc[g]
    BY <1>1, <1>2, <1>7, AncestorFacts
  <2> QED
    BY <1>2, <1>4, <1>6, <2>1, AncestorFacts
<1>8. CASE Height[g] <= Height[f]
  <2>1. g \in Anc[f]
    BY <1>1, <1>2, <1>8, AncestorFacts
  <2>2. a \in Anc[g]
    BY <1>4, <1>5, <1>6, <2>1, AncestorFacts
  <2> QED
    BY <1>2, <2>2, AncestorFacts
<1> QED
  BY <1>4, <1>7, <1>8

\* Where the walk from one branch ends is on the other one, if that is as high.
LEMMA EndShared ==
  ASSUME TypeOK, ShallowForks, NEW bl \in [Block -> Kind], GapsBelowTransition(bl),
         \A a \in Block : bl[a] = "bare" => a \in Checkpoint \cup {Genesis},
         NEW b \in Block, NEW c \in Block, AgreesWithCheckpoints(c),
         Height[lastBlock] <= Height[b], Height[lastBlock] <= Height[c],
         NEW o \in Anc[b], bl[o] # "none",
         o = Genesis \/ bl[o] = "bare" \/ bl[Parent[o]] = "none",
         o \in Checkpoint => Height[o] <= Height[c]
  PROVE  o \in Anc[c]
<1>1. o \in Block /\ Height[o] \in Nat
  BY AncestorFacts
<1>2. CASE o = Genesis
  BY <1>2, GenesisBelow
<1>3. CASE o \in Checkpoint
  <2>1. PICK a \in Anc[c] : Height[a] = Height[o]
    BY <1>1, <1>3, AncestorAt
  <2>2. a \in Checkpoint
    BY <1>3, <2>1 DEF AgreesWithCheckpoints, CheckpointHeights
  <2> QED
    BY <1>3, <2>1, <2>2, CheckpointAssumption
<1>4. CASE o \notin Checkpoint \cup {Genesis}
  <2>1. bl[Parent[o]] = "none" /\ bl[o] # "none"
    BY <1>1, <1>4
  <2>2. PICK x \in Block : /\ AtTransition(x) /\ Height[x] <= Height[lastBlock] + 1
                           /\ Height[Parent[o]] + Interval < Height[x]
    BY <1>1, <1>4, <2>1 DEF GapsBelowTransition
  <2>3. Height[x] \in Nat /\ Height[lastBlock] \in Nat /\ Height[b] \in Nat /\ Height[c] \in Nat
    BY TreeAssumption DEF TypeOK
  <2>4. Height[b] + 1 >= Height[x] /\ Height[c] + 1 >= Height[x]
    BY <2>2, <2>3
  <2> QED
    BY <1>4, <2>2, <2>4, SharedAboveGap
<1> QED
  BY <1>2, <1>3, <1>4

\* JoinHeights of two walks that end at n and at o.
LEMMA JoinHeightsFacts ==
  ASSUME NEW new \in SUBSET Block, NEW old \in SUBSET Block, NEW n \in new, NEW o \in old,
         \A a \in new : Height[n] <= Height[a], \A a \in old : Height[o] <= Height[a],
         NEW top \in Block, \A a \in new : Height[a] <= Height[top]
  PROVE  /\ new \cap old # {} =>
              \E j \in new \cap old : JoinHeights(new, old) = [b |-> Height[j], b2 |-> Height[j]]
         /\ new \cap old = {} /\ Height[o] <= Height[n] =>
              JoinHeights(new, old) = [b |-> 0, b2 |-> 0]
<1> DEFINE common == new \cap old
           H(S) == {Height[a] : a \in S}
           lowest(S) == CHOOSE h \in H(S) : \A a \in S : h <= Height[a]
           join == CHOOSE h \in H(common) : \A a \in common : h >= Height[a]
<1>1. \A a \in Block : Height[a] \in Nat
  BY TreeAssumption
<1>2. JoinHeights(new, old) = IF common # {} THEN [b |-> join, b2 |-> join]
        ELSE IF lowest(new) < lowest(old) THEN [b |-> lowest(old) - 1, b2 |-> 0]
        ELSE [b |-> 0, b2 |-> 0]
  BY DEF JoinHeights
<1>3. ASSUME common # {} PROVE \E j \in common : join = Height[j]
  <2>1. H(common) \in SUBSET Nat /\ H(common) # {} /\ \A h \in H(common) : h <= Height[top]
    BY <1>1, <1>3
  <2>2. PICK m \in H(common) : \A h \in H(common) : h <= m
    BY <1>1, <2>1, GreatestOf
  <2>3. \A a \in common : m >= Height[a]
    BY <1>1, <2>2
  <2>4. join \in H(common)
    BY <2>2, <2>3
  <2> QED
    BY <2>4
<1>4. ASSUME NEW S \in SUBSET Block, NEW e \in S, \A a \in S : Height[e] <= Height[a]
      PROVE  lowest(S) = Height[e]
  <2>1. \E h \in H(S) : \A a \in S : h <= Height[a]
    BY <1>4
  <2>2. lowest(S) \in H(S) /\ \A a \in S : lowest(S) <= Height[a]
    BY <2>1
  <2>3. PICK d \in S : lowest(S) = Height[d]
    BY <2>2
  <2>4. Height[d] <= Height[e] /\ Height[e] <= Height[d]
    BY <1>4, <2>2, <2>3
  <2> QED
    BY <1>1, <2>3, <2>4
<1>5. lowest(new) = Height[n] /\ lowest(old) = Height[o]
  BY <1>4
<1> HIDE DEF join, lowest, common
<1>6. CASE common # {}
  <2>1. PICK j \in common : join = Height[j]
    BY <1>3, <1>6
  <2>2. JoinHeights(new, old) = [b |-> Height[j], b2 |-> Height[j]]
    BY <1>2, <1>6, <2>1
  <2> QED
    BY <1>6, <2>2 DEF common
<1>7. CASE common = {}
  <2>1. Height[o] <= Height[n] => JoinHeights(new, old) = [b |-> 0, b2 |-> 0]
    BY <1>1, <1>2, <1>5, <1>7
  <2> QED
    BY <1>7, <2>1 DEF common
<1> QED
  BY <1>6, <1>7

\* The walks of a reorganisation.
NewWalk(it) == Walk(it.block, Stored(it))
OldWalk(it) == Walk(lastBlock, Stored(it))

\* The blocks above h on the new branch that hold t, as far as the dictionary knows.
Holding(it, h, t) == {c \in NewWalk(it) : Height[c] > h /\ t \in TxHashes(c, Stored(it))}

\* The block is at most one above the tip: the tip skips none.
SkipsNone(it) == Height[it.block] <= Height[lastBlock] + 1

\* The two walks meet where the branches join, or neither goes below the other's end,
\* and then they meet as well, if the block is right above the tip.
LEMMA WalksMeet ==
  ASSUME TypeOK, Extendable, Traceable, CheckpointsRespected, ShallowForks, Interval > 1,
         NEW it \in Item, Verified(it), Longer(it.block)
  PROVE  \E h \in {0} \cup {Height[j] : j \in NewWalk(it) \cap OldWalk(it)} :
           /\ JoinHeights(NewWalk(it), OldWalk(it)) = [b |-> h, b2 |-> h]
           /\ SkipsNone(it) => \E j \in NewWalk(it) \cap OldWalk(it) : h = Height[j]
<1> DEFINE b == it.block
           bl == Stored(it)
           new == NewWalk(it)
           old == OldWalk(it)
<1>1. /\ b \in Block /\ lastBlock \in Block /\ bl \in [Block -> Kind]
      /\ Height[b] \in Nat /\ Height[lastBlock] \in Nat /\ Height[lastBlock] < Height[b]
  BY ItemFacts, DictionaryType, TreeAssumption DEF TypeOK, Longer
<1>2. GapsBelowTransition(bl)
  BY DictionaryGaps DEF Extendable, Traceable, Verified
<1>3. \A a \in Block : bl[a] = "bare" => a \in Checkpoint \cup {Genesis}
  BY DictionaryFacts DEF Traceable, BareIsCheckpoint
<1>4. AgreesWithCheckpoints(b) /\ AgreesWithCheckpoints(lastBlock)
  BY VerifiedAgrees DEF CheckpointsRespected
<1>5. bl[b] # "none" /\ bl[lastBlock] # "none"
  <2>1. bl[b] # "none"
    BY <1>1, DictionaryFacts
  <2>2. Height[lastBlock] >= Transition(Height[lastBlock])
    BY <1>1, TransitionFacts
  <2>3. lastBlock # b => bl[lastBlock] = blocks[lastBlock]
    BY <1>1, <2>2, KeptFacts DEF Extendable, Verified
  <2> QED
    BY <2>1, <2>3 DEF Extendable, LastBlockKept
<1>18. b # Genesis /\ bl[b] # "bare" /\ bl[Parent[b]] # "none"
  <2>1. Attached(it) /\ b # Genesis
    BY DEF Verified, Item
  <2>2. Parent[b] \in Block /\ Parent[b] # b /\ blocks[Parent[b]] # "none" /\ Parent[b] \notin Freed(it)
    BY <2>1, AttachedFacts, ParentKept
  <2> QED
    BY <1>1, <2>1, <2>2, DictionaryFacts
<1>6. PICK n \in new : /\ \A a \in Anc[b] : a \in new <=> Height[a] >= Height[n]
                       /\ n = Genesis \/ bl[n] = "bare" \/ bl[Parent[n]] = "none"
  BY <1>1, WalkFacts DEF NewWalk
<1>7. PICK o \in old : /\ \A a \in Anc[lastBlock] : a \in old <=> Height[a] >= Height[o]
                       /\ o = Genesis \/ bl[o] = "bare" \/ bl[Parent[o]] = "none"
  BY <1>1, WalkFacts DEF OldWalk
<1>8. /\ new \subseteq Anc[b] /\ old \subseteq Anc[lastBlock]
      /\ bl[n] # "none" /\ bl[o] # "none" /\ b \in new
  BY <1>1, <1>5, <1>6, <1>7, WalkFacts DEF NewWalk, OldWalk
<1>9. Height[o] <= Height[b] /\ Height[o] \in Nat /\ Height[n] \in Nat
  BY <1>1, <1>8, AncestorFacts
<1> HIDE DEF b, bl, new, old
<1>10. Height[lastBlock] <= Height[b] /\ Height[lastBlock] <= Height[lastBlock]
  BY <1>1
<1>11. o \in Anc[b]
  BY <1>1, <1>2, <1>3, <1>4, <1>7, <1>8, <1>9, <1>10, EndShared
<1>12. Height[n] <= Height[o] => new \cap old # {}
  BY <1>6, <1>11
<1>13. SkipsNone(it) => new \cap old # {}
  <2> SUFFICES ASSUME Height[b] <= Height[lastBlock] + 1, Height[o] <= Height[n] PROVE n \in old
    BY <1>9, <1>12 DEF SkipsNone, b
  <2>1. Height[n] <= Height[lastBlock]
    <3>1. n \in Anc[b] /\ n # b
      BY <1>6, <1>8, <1>18
    <3>2. Height[n] <= Height[b] /\ Height[n] # Height[b]
      BY <1>1, <3>1, BranchAssumption, TreeAssumption
    <3> QED
      BY <1>1, <1>9, <3>2
  <2>2. n \in Anc[lastBlock]
    BY <1>1, <1>2, <1>3, <1>4, <1>6, <1>8, <1>10, <2>1, EndShared
  <2> QED
    BY <1>7, <2>2
<1>14. /\ new \in SUBSET Block /\ old \in SUBSET Block
       /\ \A a \in new : Height[n] <= Height[a] /\ Height[a] <= Height[b]
       /\ \A a \in old : Height[o] <= Height[a]
  BY <1>1, <1>6, <1>7, <1>8, AncestorFacts
<1>15. /\ new \cap old # {} =>
            \E j \in new \cap old : JoinHeights(new, old) = [b |-> Height[j], b2 |-> Height[j]]
       /\ new \cap old = {} /\ Height[o] <= Height[n] =>
            JoinHeights(new, old) = [b |-> 0, b2 |-> 0]
  BY <1>1, <1>14, JoinHeightsFacts
<1>16. CASE new \cap old # {}
  <2>1. PICK j \in new \cap old : JoinHeights(new, old) = [b |-> Height[j], b2 |-> Height[j]]
    BY <1>15, <1>16
  <2> QED
    BY <2>1 DEF new, old
<1>17. CASE new \cap old = {}
  BY <1>9, <1>12, <1>13, <1>15, <1>17 DEF new, old
<1> QED
  BY <1>16, <1>17

\* What a reorganisation does: from a block on that both branches have in common, and
\* that the walk meets if the tip skips none, t gets the height of a block of the new branch
\* that holds it, or none.
LEMMA ReorganizeFacts ==
  ASSUME TypeOK, Extendable, Traceable, CheckpointsRespected, ShallowForks, Interval > 1,
         NEW p \in Peer, NEW it \in Item, Verified(it), Reorganize(p, it)
  PROVE  \E j \in Anc[it.block] \cap Anc[lastBlock] :
           /\ SkipsNone(it) => j \in NewWalk(it)
           /\ \A t \in wallet :
                \/ \E c \in Holding(it, Height[j], t) : txHeight'[t] = Height[c]
                \/ /\ Holding(it, Height[j], t) = {}
                   /\ txHeight'[t] = IF AboveJoin(t, Height[j]) THEN TX_UNCONFIRMED
                                     ELSE txHeight[t]
<1>1. it.block \in Block /\ lastBlock \in Block /\ Stored(it) \in [Block -> Kind]
  BY ItemFacts, DictionaryType DEF TypeOK
<1>2. PICK h \in {0} \cup {Height[j] : j \in NewWalk(it) \cap OldWalk(it)} :
           /\ JoinHeights(NewWalk(it), OldWalk(it)) = [b |-> h, b2 |-> h]
           /\ SkipsNone(it) => \E j \in NewWalk(it) \cap OldWalk(it) : h = Height[j]
  BY WalksMeet DEF Reorganize
<1>3. NewWalk(it) \subseteq Anc[it.block] /\ OldWalk(it) \subseteq Anc[lastBlock]
  BY <1>1, WalkFacts DEF NewWalk, OldWalk
<1>4. PICK j \in Anc[it.block] \cap Anc[lastBlock] :
         Height[j] = h /\ (SkipsNone(it) => j \in NewWalk(it))
  <2>1. CASE \E j \in NewWalk(it) \cap OldWalk(it) : h = Height[j]
    BY <1>3, <2>1
  <2>2. CASE h = 0 /\ ~SkipsNone(it)
    BY <1>1, <2>2, GenesisBelow, TreeAssumption
  <2>3. (\E j \in NewWalk(it) \cap OldWalk(it) : h = Height[j]) \/ (h = 0 /\ ~SkipsNone(it))
    BY <1>2
  <2> QED
    BY <2>1, <2>2, <2>3
<1> DEFINE heights == JoinHeights(NewWalk(it), OldWalk(it))
           at(t) == {Height[a] : a \in {c \in NewWalk(it) : Height[c] > heights.b2
                                                            /\ t \in TxHashes(c, Stored(it))}}
           lowest(t) == CHOOSE g \in at(t) : \A k \in at(t) : g <= k
<1>5. txHeight' = [t \in Tx |->
         IF t \notin wallet THEN txHeight[t]
         ELSE IF at(t) # {} THEN lowest(t)
         ELSE IF AboveJoin(t, heights.b) THEN TX_UNCONFIRMED
         ELSE txHeight[t]]
  BY DEF Reorganize, NewWalk, OldWalk
<1>6. ASSUME NEW t \in wallet
      PROVE  \/ \E c \in Holding(it, h, t) : txHeight'[t] = Height[c]
             \/ /\ Holding(it, h, t) = {}
                /\ txHeight'[t] = IF AboveJoin(t, h) THEN TX_UNCONFIRMED ELSE txHeight[t]
  <2>1. t \in Tx
    BY DEF TypeOK
  <2>2. heights.b = h /\ heights.b2 = h
    BY <1>2
  <2>3. at(t) = {Height[a] : a \in Holding(it, h, t)}
    BY <2>2 DEF Holding
  <2>4. Holding(it, h, t) \subseteq Block
    BY <1>1, <1>3, TreeAssumption DEF Holding
  <2> HIDE DEF heights, at
  <2>5. CASE at(t) # {}
    <3>1. at(t) \in SUBSET Nat
      BY <2>3, <2>4, TreeAssumption
    <3>2. \E g \in at(t) : \A k \in at(t) : g <= k
      BY <2>5, <3>1, LeastOf
    <3>3. lowest(t) \in at(t)
      BY <3>2
    <3>4. txHeight'[t] = lowest(t)
      BY <1>5, <2>1, <2>5
    <3> QED
      BY <2>3, <3>3, <3>4
  <2>6. CASE at(t) = {}
    BY <1>5, <2>1, <2>2, <2>3, <2>6
  <2> QED
    BY <2>5, <2>6
<1>7. h = Height[j] /\ (SkipsNone(it) => j \in NewWalk(it))
  BY <1>4
<1> QED
  BY <1>6, <1>7, Zenon

\* The dictionary after peer:relayedBlock:, the wallet, and what becomes of the tip.
LEMMA RelayedBlockChanges ==
  ASSUME TypeOK, NEW p \in Peer, NEW it \in Item, RelayedBlock(p, it)
  PROVE  /\ blocks' = blocks \/ (Attached(it) /\ blocks' \in {Kept(it), Stored(it)})
         /\ wallet' = wallet /\ rescans' = rescans
         /\ lastBlock' = lastBlock \/ Height[lastBlock'] > Height[lastBlock]
         /\ lastBlock' \in {lastBlock, it.block}
  BY RelayedBlockRaisesTip
  DEF RelayedBlock, IgnoreHeader, ReceiveOrphan, RejectBlock, ExtendChain, ReplaceBlock, IgnoreOldFork,
      PostponeFork, StoreFork, Reorganize, BecomesLast, walletVars, Verified

LEMMA RelayedBlockTraceable ==
  ASSUME TypeOK, Extendable, Traceable, Interval > 1, NEW p \in Peer, NEW it \in Item,
         RelayedBlock(p, it)
  PROVE  Traceable'
<1>1. /\ blocks' = blocks \/ (Attached(it) /\ blocks' \in {Kept(it), Stored(it)})
      /\ lastBlock' = lastBlock \/ Height[lastBlock'] > Height[lastBlock]
      /\ lastBlock' \in {lastBlock, it.block}
  BY RelayedBlockChanges
<1>2. /\ lastBlock \in Block /\ lastBlock' \in Block /\ Height[lastBlock] \in Nat
      /\ Height[lastBlock'] \in Nat /\ Height[lastBlock] <= Height[lastBlock']
      /\ Height[StartCheckpoint] \in Nat
  BY <1>1, ItemFacts, TreeAssumption, CheckpointAssumption DEF TypeOK
<1>3. BareIsCheckpoint'
  BY <1>1, DictionaryFacts DEF Traceable, BareIsCheckpoint
<1>4. GapsBelowTransition(blocks')
  BY <1>1, DictionaryGaps DEF Traceable, Extendable
<1>5. GapsBelowTransition(blocks)'
  BY <1>2, <1>4, TreeAssumption DEF GapsBelowTransition, AtTransition
<1> QED
  BY <1>2, <1>3, <1>5 DEF Traceable

LEMMA InitTraceable == Init => Traceable
<1> SUFFICES ASSUME Init PROVE Traceable
  OBVIOUS
<1>1. \A b \in Block : blocks[b] = IF b \in Checkpoint \cup {Genesis} THEN "bare" ELSE "none"
  BY DEF Init, LoadedBlocks, NoEntities
<1>2. Height[StartCheckpoint] <= Height[lastBlock]
  BY CheckpointAssumption, TreeAssumption DEF Init
<1> QED
  BY <1>1, <1>2 DEF Traceable, BareIsCheckpoint, GapsBelowTransition

LEMMA TraceableUntilRescan ==
  ASSUME Interval > 1
  PROVE  Spec => [](rescans = 0 => Traceable)
<1>1. Init => (rescans = 0 => Traceable)
  BY InitTraceable
<1>2. TypeOK /\ (rescans = 0 => Extendable) /\ (rescans = 0 => Traceable) /\ [Next]_vars
        => (rescans = 0 => Traceable)'
  <2> SUFFICES ASSUME TypeOK, rescans = 0 => Extendable /\ Traceable, [Next]_vars, rescans' = 0
               PROVE  Traceable'
    OBVIOUS
  <2>1. ~(Rescan(NoEntities) \/ RescanRaced(NoEntities))
    BY DEF Rescan, RescanRaced, GoBackTo, TypeOK
  <2>2. ASSUME NEW p \in Peer, NEW it \in Item, RelayedBlock(p, it) PROVE Traceable'
    BY <2>2, RelayedBlockTraceable DEF RelayedBlock
  <2>3. CASE ConnectOrphan
    <3>1. call.peer \in Peer /\ call.item \in Item
      BY <2>3 DEF ConnectOrphan, TypeOK
    <3> QED
      BY <2>2, <2>3, <3>1 DEF ConnectOrphan
  <2>4. CASE UNCHANGED <<blocks, lastBlock, rescans>>
    BY <2>4 DEF Traceable, BareIsCheckpoint, GapsBelowTransition, AtTransition
  <2> QED
    BY <2>1, <2>2, <2>3, <2>4
    DEF Next, ReceiveBlock, RelayedTransaction, AcceptVersion, vars, chainVars
<1> QED
  BY <1>1, <1>2, TypeCorrect, ExtendableUntilRescan, PTL DEF Spec

\* peer:relayedBlock: confirms transactions in blocks of the main chain.
LEMMA RelayedBlockConfirms ==
  ASSUME TypeOK, Extendable, Traceable, CheckpointsRespected, ShallowForks, Interval > 1,
         ConfirmedOnMainChain, NEW p \in Peer, NEW it \in Item, RelayedBlock(p, it)
  PROVE  ConfirmedOnMainChain'
<1>1. wallet' = wallet /\ it.block \in Block /\ lastBlock \in Block
  BY RelayedBlockChanges, ItemFacts DEF TypeOK
<1>2. \A t \in wallet : txHeight[t] # TX_UNCONFIRMED =>
        \E a \in Anc[lastBlock] : t \in TxOf[a] /\ Height[a] = txHeight[t]
  BY DEF ConfirmedOnMainChain
<1>3. \A h, txs : SetBlockHeight(h, txs) =
        [t \in Tx |-> IF t \in txs \cap wallet THEN h ELSE txHeight[t]]
  BY DEF SetBlockHeight
<1>4. ItemTxHashes(it) \subseteq TxOf[it.block] /\ wallet \subseteq Tx
  BY DEF ItemTxHashes, TypeOK
<1> SUFFICES ASSUME NEW t \in wallet, txHeight'[t] # TX_UNCONFIRMED
             PROVE  \E a \in Anc[lastBlock'] : t \in TxOf[a] /\ Height[a] = txHeight'[t]
  BY <1>1 DEF ConfirmedOnMainChain, TX_UNCONFIRMED
<1>5. CASE txHeight' = txHeight /\ lastBlock' = lastBlock
  BY <1>2, <1>5
<1>6. CASE /\ it.block \in Anc[lastBlock'] /\ Anc[lastBlock] \subseteq Anc[lastBlock']
           /\ txHeight' = SetBlockHeight(Height[it.block], ItemTxHashes(it))
  <2>1. txHeight'[t] = IF t \in ItemTxHashes(it) THEN Height[it.block] ELSE txHeight[t]
    BY <1>3, <1>4, <1>6
  <2> QED
    BY <1>2, <1>4, <1>6, <2>1
<1>7. CASE Verified(it) /\ Reorganize(p, it)
  <2>1. PICK j \in Anc[it.block] \cap Anc[lastBlock] :
                \/ \E c \in Holding(it, Height[j], t) : txHeight'[t] = Height[c]
                \/ txHeight'[t] = IF AboveJoin(t, Height[j]) THEN TX_UNCONFIRMED
                                  ELSE txHeight[t]
    BY <1>7, ReorganizeFacts
  <2>2. lastBlock' = it.block
    BY <1>7 DEF Reorganize, BecomesLast
  <2>3. CASE \E c \in Holding(it, Height[j], t) : txHeight'[t] = Height[c]
    <3>1. PICK c \in NewWalk(it) : t \in TxHashes(c, Stored(it)) /\ txHeight'[t] = Height[c]
      BY <2>3 DEF Holding
    <3>2. t \in TxOf[c]
      BY <3>1 DEF TxHashes
    <3>3. c \in Anc[it.block]
      BY <1>1, DictionaryType, WalkFacts DEF NewWalk
    <3> QED
      BY <2>2, <3>1, <3>2, <3>3
  <2>4. CASE txHeight'[t] = IF AboveJoin(t, Height[j]) THEN TX_UNCONFIRMED ELSE txHeight[t]
    <3>1. ~(txHeight[t] > Height[j]) /\ txHeight'[t] = txHeight[t]
      BY <2>4 DEF AboveJoin
    <3>2. PICK a \in Anc[lastBlock] : t \in TxOf[a] /\ Height[a] = txHeight[t]
      BY <1>2, <3>1
    <3>3. Height[a] <= Height[j]
      BY <1>1, <3>1, <3>2, AncestorFacts
    <3>4. a \in Anc[it.block]
      BY <1>1, <3>3, AncestorFacts
    <3> QED
      BY <2>2, <3>1, <3>2, <3>4
  <2> QED
    BY <2>1, <2>3, <2>4
<1>8. CASE ExtendChain(p, it)
  BY <1>6, <1>8, ItemFacts, TreeAssumption DEF ExtendChain, BecomesLast
<1>9. CASE ReplaceBlock(p, it)
  <2>1. lastBlock' = lastBlock
    BY <1>9 DEF ReplaceBlock, BecomesLast
  <2>2. Walk(lastBlock, Kept(it)) \subseteq Anc[lastBlock]
    BY <1>1, DictionaryType, WalkFacts
  <2> QED
    BY <1>5, <1>6, <1>9, <2>1, <2>2 DEF ReplaceBlock
<1> QED
  BY <1>5, <1>7, <1>8, <1>9
  DEF RelayedBlock, IgnoreHeader, ReceiveOrphan, RejectBlock, IgnoreOldFork, PostponeFork,
      StoreFork, walletVars

\* Until the user rescans, a transaction shown as confirmed is in the block of the main
\* chain at that height, however deep the reorganisations, if forks are shallow.
THEOREM ConfirmedAlwaysOnMainChain ==
  ASSUME Interval > 1, ShallowForks
  PROVE  Spec => [](rescans = 0 => ConfirmedOnMainChain)
<1>1. Init => (rescans = 0 => ConfirmedOnMainChain)
  BY DEF Init, ConfirmedOnMainChain
<1>2. TypeOK /\ (rescans = 0 => Extendable) /\ (rescans = 0 => Traceable) /\ CheckpointsRespected
        /\ (rescans = 0 => ConfirmedOnMainChain) /\ [Next]_vars
        => (rescans = 0 => ConfirmedOnMainChain)'
  <2> SUFFICES ASSUME TypeOK, rescans = 0 => Extendable /\ Traceable /\ ConfirmedOnMainChain,
                      CheckpointsRespected, [Next]_vars, rescans' = 0
               PROVE  ConfirmedOnMainChain'
    OBVIOUS
  <2>1. ~(Rescan(NoEntities) \/ RescanRaced(NoEntities))
    BY DEF Rescan, RescanRaced, GoBackTo, TypeOK
  <2>2. ASSUME NEW p \in Peer, NEW it \in Item, RelayedBlock(p, it) PROVE ConfirmedOnMainChain'
    BY <2>2, RelayedBlockConfirms DEF RelayedBlock
  <2>3. CASE ConnectOrphan
    <3>1. call.peer \in Peer /\ call.item \in Item
      BY <2>3 DEF ConnectOrphan, TypeOK
    <3> QED
      BY <2>2, <2>3, <3>1 DEF ConnectOrphan
  <2>4. ASSUME NEW t \in Tx, RelayedTransaction(t) PROVE ConfirmedOnMainChain'
    <3>1. /\ wallet' = wallet \cup {t} /\ txHeight' = [txHeight EXCEPT ![t] = TX_UNCONFIRMED]
          /\ lastBlock' = lastBlock /\ rescans' = rescans
          /\ txHeight \in [Tx -> Nat] /\ wallet \subseteq Tx
      BY <2>4 DEF RelayedTransaction, chainVars, TypeOK
    <3>2. ASSUME NEW u \in wallet', txHeight'[u] # TX_UNCONFIRMED
          PROVE  u \in wallet /\ txHeight'[u] = txHeight[u]
      BY <3>1, <3>2
    <3> QED
      BY <3>1, <3>2 DEF ConfirmedOnMainChain, TX_UNCONFIRMED
  <2>5. CASE UNCHANGED <<lastBlock, wallet, txHeight, rescans>>
    BY <2>5 DEF ConfirmedOnMainChain, TX_UNCONFIRMED
  <2> QED
    BY <2>1, <2>2, <2>3, <2>4, <2>5
    DEF Next, ReceiveBlock, AcceptVersion, vars, chainVars, walletVars
<1> QED
  BY <1>1, <1>2, TypeCorrect, ExtendableUntilRescan, TraceableUntilRescan,
     CheckpointsAlwaysRespected, PTL DEF Spec

----------------------------------------------------------------------------
(***************************************************************************)
(* Until the user rescans, no transaction of the main chain is missed nor  *)
(* left unconfirmed: a merkleblock comes after its transactions, even when *)
(* it waits as an orphan, a header is of a block that holds none, and a    *)
(* reorganisation confirms what is on the part of the new branch it walks. *)
(***************************************************************************)
\* The blocks that wait, and those in the dictionary, came after their transactions.
CompleteBlocks ==
  /\ \A b \in Block : orphans[b] # None => Complete(orphans[b])
  /\ call # None => Complete(call.item)
  /\ \A b \in Block : /\ blocks[b] = "merkle" => TxOf[b] \subseteq wallet
                      /\ blocks[b] = "header" => b \in Early

\* The orphans and the tail call after peer:relayedBlock:.
LEMMA RelayedBlockOrphans ==
  ASSUME TypeOK, NEW p \in Peer, NEW it \in Item, RelayedBlock(p, it)
  PROVE  /\ \A b \in Block : orphans'[b] \in {None, it, orphans[b]}
         /\ call' = None \/ \E b \in Block : orphans[b] # None /\ call' = [peer |-> p, item |-> orphans[b]]
<1>1. it.block \in Block /\ lastBlock \in Block /\ orphans \in [Block -> Item \cup {None}]
  BY ItemFacts DEF TypeOK
<1>2. CASE orphans' = orphans /\ call' = None
  BY <1>2
<1>3. CASE orphans' = [orphans EXCEPT ![Parent[it.block]] = it] /\ call' = None
  BY <1>1, <1>3
<1>4. ASSUME NEW b \in Block, BecomesLast(p, b)
      PROVE  /\ \A a \in Block : orphans'[a] \in {None, it, orphans[a]}
             /\ call' = None \/ \E a \in Block : orphans[a] # None /\ call' = [peer |-> p, item |-> orphans[a]]
  <2>1. orphans' = [orphans EXCEPT ![b] = None]
    BY <1>4 DEF BecomesLast
  <2>2. \A a \in Block : orphans'[a] \in {None, it, orphans[a]}
    BY <1>1, <2>1
  <2>3. call' = IF orphans[b] = None THEN None ELSE [peer |-> p, item |-> orphans[b]]
    BY <1>4 DEF BecomesLast
  <2> QED
    BY <2>2, <2>3
<1> QED
  BY <1>1, <1>2, <1>3, <1>4
  DEF RelayedBlock, IgnoreHeader, ReceiveOrphan, RejectBlock, ExtendChain, ReplaceBlock, IgnoreOldFork,
      PostponeFork, StoreFork, Reorganize, KeepOrphan

LEMMA RelayedBlockComplete ==
  ASSUME TypeOK, CompleteBlocks, NEW p \in Peer, NEW it \in Item, Complete(it), RelayedBlock(p, it)
  PROVE  CompleteBlocks'
<1>1. wallet' = wallet
  BY RelayedBlockChanges
<1>2. \A i : Complete(i)' <=> Complete(i)
  BY <1>1 DEF Complete
<1>3. /\ \A b \in Block : orphans'[b] \in {None, it, orphans[b]}
      /\ call' = None \/ \E b \in Block : orphans[b] # None /\ call' = [peer |-> p, item |-> orphans[b]]
  BY RelayedBlockOrphans
<1>4. \A b \in Block : orphans'[b] # None => Complete(orphans'[b])
  BY <1>3 DEF CompleteBlocks
<1>5. call' # None => Complete(call'.item)
  BY <1>3 DEF CompleteBlocks
<1>6. ASSUME NEW b \in Block
      PROVE  /\ blocks'[b] = "merkle" => TxOf[b] \subseteq wallet
             /\ blocks'[b] = "header" => b \in Early
  <2>1. CASE blocks'[b] \in {blocks[b], "none"}
    BY <1>6, <2>1 DEF CompleteBlocks
  <2>2. CASE blocks' = Stored(it) /\ b = it.block /\ Attached(it)
    <3>1. blocks'[b] = KindOf(it)
      BY <2>2, DictionaryFacts
    <3> QED
      BY <2>2, <3>1 DEF KindOf, Attached, TooNew, Complete
  <2>3. blocks' = blocks \/ (Attached(it) /\ blocks' \in {Kept(it), Stored(it)})
    BY RelayedBlockChanges
  <2>4. /\ Kept(it)[b] \in {blocks[b], "none"}
        /\ b # it.block => Stored(it)[b] \in {blocks[b], "none"}
    BY DictionaryFacts
  <2> QED
    BY <2>1, <2>2, <2>3, <2>4
<1> QED
  BY <1>1, <1>2, <1>4, <1>5, <1>6 DEF CompleteBlocks, Complete

LEMMA CompleteBlocksAlways == Spec => []CompleteBlocks
<1>1. Init => CompleteBlocks
  BY DEF Init, CompleteBlocks, LoadedBlocks, NoEntities
<1>2. TypeOK /\ CompleteBlocks /\ [Next]_vars => CompleteBlocks'
  <2> SUFFICES ASSUME TypeOK, CompleteBlocks, [Next]_vars PROVE CompleteBlocks'
    OBVIOUS
  <2>1. ASSUME NEW p \in Peer, NEW it \in Item, ReceiveBlock(p, it) PROVE CompleteBlocks'
    BY <2>1, RelayedBlockComplete DEF ReceiveBlock
  <2>2. CASE ConnectOrphan
    <3>1. call.peer \in Peer /\ call.item \in Item /\ Complete(call.item)
      BY <2>2 DEF ConnectOrphan, TypeOK, CompleteBlocks
    <3> QED
      BY <2>2, <3>1, RelayedBlockComplete DEF ConnectOrphan
  <2>3. CASE UNCHANGED <<blocks, orphans, call>> /\ wallet \subseteq wallet'
    BY <2>3 DEF CompleteBlocks, Complete
  <2> QED
    BY <2>1, <2>2, <2>3
    DEF Next, RelayedTransaction, AcceptVersion, Rescan, RescanRaced, GoBackTo, vars, chainVars,
        walletVars
<1> QED
  BY <1>1, <1>2, TypeCorrect, PTL DEF Spec

\* A block that is in the dictionary, not as a bare checkpoint, and holds a transaction,
\* is a merkleblock.
LEMMA HoldsTransactions ==
  ASSUME NoEarlyTx, CompleteBlocks, TypeOK,
         NEW b \in Block, blocks[b] \notin {"none", "bare"}, TxOf[b] # {}
  PROVE  blocks[b] = "merkle" /\ TxOf[b] \subseteq wallet
<1>1. blocks[b] # "header"
  BY DEF CompleteBlocks, NoEarlyTx
<1>2. blocks[b] \in Kind
  BY DEF TypeOK
<1> QED
  BY <1>1, <1>2 DEF CompleteBlocks, Kind

\* The same for the block that is received.
LEMMA ItemHoldsTransactions ==
  ASSUME NoEarlyTx, NEW it \in Item, Attached(it), Complete(it), TxOf[it.block] # {}
  PROVE  ~it.header /\ TxOf[it.block] \subseteq wallet
  BY ItemFacts DEF Attached, TooNew, NoEarlyTx, Complete

\* What the two theorems assume of the trees.
UsualBranches == ShallowForks /\ OncePerBranch /\ NoEarlyTx

LEMMA ReorganizeConfirmsAll ==
  ASSUME TypeOK, Extendable, Traceable, CheckpointsRespected, CompleteBlocks, UsualBranches,
         Interval > 1, AllConfirmed, NEW p \in Peer, NEW it \in Item, Complete(it), Verified(it),
         Reorganize(p, it), SkipsNone(it)
  PROVE  AllConfirmed'
<1> USE DEF UsualBranches
<1>1. wallet' = wallet /\ lastBlock' = it.block
  BY DEF Reorganize, BecomesLast
<1>2. /\ it.block \in Block /\ lastBlock \in Block /\ Stored(it) \in [Block -> Kind]
      /\ wallet \subseteq Tx
  BY ItemFacts, DictionaryType DEF TypeOK
<1>3. PICK j \in Anc[it.block] \cap Anc[lastBlock] :
         /\ j \in NewWalk(it)
         /\ \A t \in wallet :
              \/ \E c \in Holding(it, Height[j], t) : txHeight'[t] = Height[c]
              \/ /\ Holding(it, Height[j], t) = {}
                 /\ txHeight'[t] = IF AboveJoin(t, Height[j]) THEN TX_UNCONFIRMED
                                   ELSE txHeight[t]
  BY ReorganizeFacts
<1>4. /\ NewWalk(it) \subseteq Anc[it.block]
      /\ \A a \in NewWalk(it) : a = it.block \/ Stored(it)[a] # "none"
      /\ \A a \in Anc[it.block] : Height[a] > Height[j] => a \in NewWalk(it)
  <2>1. PICK o \in NewWalk(it) : \A a \in Anc[it.block] : a \in NewWalk(it) <=> Height[a] >= Height[o]
    BY <1>2, WalkFacts DEF NewWalk
  <2>2. NewWalk(it) \subseteq Anc[it.block] /\ \A a \in NewWalk(it) : a = it.block \/ Stored(it)[a] # "none"
    BY <1>2, WalkFacts DEF NewWalk
  <2>3. \A a \in Anc[it.block] : Height[a] \in Nat
    BY <1>2, AncestorFacts
  <2>4. Height[j] >= Height[o]
    BY <1>3, <2>1
  <2>5. \A a \in Anc[it.block] : Height[a] > Height[j] => Height[a] >= Height[o]
    BY <2>2, <2>3, <2>4
  <2> QED
    BY <2>1, <2>2, <2>5
<1> SUFFICES ASSUME NEW c \in Anc[it.block], NEW t \in TxOf[c]
             PROVE  t \in wallet /\ txHeight'[t] = Height[c]
  BY <1>1 DEF AllConfirmed
<1>5. /\ c \in Block /\ Height[c] \in Nat /\ j \in Block /\ Height[j] \in Nat
  BY <1>2, AncestorFacts
<1>6. \A h : \A a \in Holding(it, h, t) : a = c /\ Height[a] > h
  <2> SUFFICES ASSUME NEW h, NEW a \in Holding(it, h, t) PROVE a = c /\ Height[a] > h
    OBVIOUS
  <2>1. a \in Anc[it.block] /\ t \in TxOf[a] /\ Height[a] > h
    BY <1>4 DEF Holding, TxHashes
  <2> QED
    BY <1>2, <2>1 DEF OncePerBranch
<1>7. CASE Height[c] <= Height[j]
  <2>1. c \in Anc[lastBlock]
    BY <1>2, <1>7, AncestorFacts
  <2>2. t \in wallet /\ txHeight[t] = Height[c]
    BY <2>1 DEF AllConfirmed
  <2>3. Holding(it, Height[j], t) = {}
    BY <1>5, <1>6, <1>7
  <2>4. ~AboveJoin(t, Height[j])
    BY <1>5, <1>7, <2>2 DEF AboveJoin
  <2> QED
    BY <1>3, <2>2, <2>3, <2>4
<1>8. CASE Height[c] > Height[j]
  <2>1. c \in NewWalk(it)
    BY <1>4, <1>8
  <2>2. t \in wallet /\ t \in TxHashes(c, Stored(it))
    <3>1. CASE c = it.block
      <4>1. ~it.header /\ TxOf[c] \subseteq wallet
        BY <3>1, ItemHoldsTransactions DEF Verified
      <4>2. Stored(it)[c] = "merkle"
        BY <1>5, <3>1, <4>1, DictionaryFacts DEF KindOf
      <4> QED
        BY <4>1, <4>2 DEF TxHashes
    <3>2. CASE c # it.block
      <4>1. Stored(it)[c] = blocks[c] /\ blocks[c] # "none"
        BY <1>4, <1>5, <2>1, <3>2, DictionaryFacts
      <4>2. j # it.block
        BY <1>2, <1>5, <1>8, AncestorFacts
      <4>3. Stored(it)[c] # "bare"
        BY <1>3, <1>8, <4>2 DEF NewWalk, Walk
      <4>4. blocks[c] = "merkle" /\ TxOf[c] \subseteq wallet
        BY <1>5, <4>1, <4>3, HoldsTransactions
      <4> QED
        BY <4>1, <4>4 DEF TxHashes
    <3> QED
      BY <3>1, <3>2
  <2>3. c \in Holding(it, Height[j], t)
    BY <1>8, <2>1, <2>2 DEF Holding
  <2> QED
    BY <1>3, <1>6, <2>2, <2>3
<1> QED
  BY <1>5, <1>7, <1>8

LEMMA RelayedBlockConfirmsAll ==
  ASSUME TypeOK, Extendable, Traceable, CheckpointsRespected, CompleteBlocks, UsualBranches,
         Interval > 1, AllConfirmed, NEW p \in Peer, NEW it \in Item, Complete(it),
         RelayedBlock(p, it), Height[lastBlock'] <= Height[lastBlock] + 1
  PROVE  AllConfirmed'
<1>1. wallet' = wallet /\ it.block \in Block /\ lastBlock \in Block /\ wallet \subseteq Tx
  BY RelayedBlockChanges, ItemFacts DEF TypeOK
<1>2. CASE txHeight' = txHeight /\ lastBlock' = lastBlock
  BY <1>1, <1>2 DEF AllConfirmed
<1>3. ASSUME lastBlock' \in Block, it.block \in Anc[lastBlock'],
             Anc[lastBlock'] \subseteq {it.block} \cup Anc[lastBlock], Attached(it),
             it.block \in Anc[lastBlock] \/ it.block = lastBlock',
             txHeight' = SetBlockHeight(Height[it.block], ItemTxHashes(it))
      PROVE  AllConfirmed'
  <2> SUFFICES ASSUME NEW c \in Anc[lastBlock'], NEW t \in TxOf[c]
               PROVE  t \in wallet /\ txHeight'[t] = Height[c]
    BY <1>1 DEF AllConfirmed
  <2>1. txHeight' = [u \in Tx |-> IF u \in ItemTxHashes(it) \cap wallet THEN Height[it.block]
                                  ELSE txHeight[u]]
    BY <1>3 DEF SetBlockHeight
  <2>2. ItemTxHashes(it) = IF it.header THEN {} ELSE TxOf[it.block]
    BY DEF ItemTxHashes
  <2>3. CASE c = it.block
    <3>1. ~it.header /\ TxOf[c] \subseteq wallet
      BY <1>3, <2>3, ItemHoldsTransactions DEF UsualBranches
    <3> QED
      BY <1>1, <2>1, <2>2, <2>3, <3>1
  <2>4. CASE c # it.block
    <3>1. t \in wallet /\ txHeight[t] = Height[c]
      BY <1>3, <2>4 DEF AllConfirmed
    <3>2. t \notin TxOf[it.block]
      BY <1>3, <2>4 DEF UsualBranches, OncePerBranch
    <3> QED
      BY <1>1, <2>1, <2>2, <3>1, <3>2
  <2> QED
    BY <2>3, <2>4
<1>4. CASE Verified(it) /\ ExtendChain(p, it)
  <2>1. /\ lastBlock' = it.block /\ Parent[it.block] = lastBlock
        /\ txHeight' = SetBlockHeight(Height[it.block], ItemTxHashes(it))
    BY <1>4 DEF ExtendChain, BecomesLast
  <2> QED
    BY <1>1, <1>3, <1>4, <2>1, ItemFacts DEF Verified
<1>5. CASE Verified(it) /\ ReplaceBlock(p, it)
  <2>1. lastBlock' = lastBlock
    BY <1>5 DEF ReplaceBlock, BecomesLast
  <2>2. Walk(lastBlock, Kept(it)) \subseteq Anc[lastBlock]
    BY <1>1, DictionaryType, WalkFacts
  <2>3. \/ txHeight' = txHeight
        \/ /\ it.block \in Anc[lastBlock]
           /\ txHeight' = SetBlockHeight(Height[it.block], ItemTxHashes(it))
    BY <1>5, <2>2 DEF ReplaceBlock
  <2> QED
    BY <1>1, <1>2, <1>3, <1>5, <2>1, <2>3 DEF Verified
<1>6. CASE Verified(it) /\ Reorganize(p, it)
  <2>1. SkipsNone(it)
    BY <1>6 DEF Reorganize, BecomesLast, SkipsNone
  <2> QED
    BY <1>6, <2>1, ReorganizeConfirmsAll
<1> QED
  BY <1>2, <1>4, <1>5, <1>6
  DEF RelayedBlock, IgnoreHeader, ReceiveOrphan, RejectBlock, IgnoreOldFork, PostponeFork,
      StoreFork, walletVars

\* The tip skips no block, if the checkpoints above it are in the peer's past when it is
\* behind the peer: a block on top of one of them is postponed.
LEMMA RelayedBlockSkipsNone ==
  ASSUME TypeOK, NoneAboveTip, NEW p \in Peer, NEW it \in Item, RelayedBlock(p, it),
         \A c \in Checkpoint : Height[c] <= Height[lastBlock] \/ Height[c] <= lastblock[p]
  PROVE  Height[lastBlock'] <= Height[lastBlock] + 1
<1>1. lastBlock \in Block /\ Height[lastBlock] \in Nat /\ lastblock[p] \in Nat
  BY TreeAssumption DEF TypeOK
<1>2. CASE lastBlock' = lastBlock
  BY <1>1, <1>2
<1>3. CASE Verified(it) /\ (ExtendChain(p, it) \/ Reorganize(p, it))
  <2>1. /\ Attached(it) /\ lastBlock' = it.block
        /\ Parent[it.block] = lastBlock \/ StoresFork(p, it)
    BY <1>3 DEF Verified, ExtendChain, Reorganize, BecomesLast
  <2>2. /\ Parent[it.block] \in Block /\ blocks[Parent[it.block]] # "none"
        /\ Height[Parent[it.block]] \in Nat /\ Height[it.block] = Height[Parent[it.block]] + 1
    BY <2>1, AttachedFacts
  <2>3. CASE Height[Parent[it.block]] <= Height[lastBlock]
    BY <1>1, <2>1, <2>2, <2>3
  <2>4. CASE Height[Parent[it.block]] > Height[lastBlock]
    <3>1. Parent[it.block] \in Checkpoint
      BY <1>1, <2>2, <2>4 DEF NoneAboveTip
    <3>2. Height[lastBlock] < lastblock[p] /\ Height[it.block] > Height[lastBlock] + 1
      BY <1>1, <2>2, <2>4, <3>1
    <3>3. ~StoresFork(p, it)
      BY <3>2 DEF StoresFork, Postponed
    <3> QED
      BY <1>1, <2>1, <2>4, <3>3
  <2> QED
    BY <1>1, <2>2, <2>3, <2>4
<1> QED
  BY <1>2, <1>3
  DEF RelayedBlock, IgnoreHeader, ReceiveOrphan, RejectBlock, ReplaceBlock, IgnoreOldFork,
      PostponeFork, StoreFork, BecomesLast

\* The tip of a wallet younger than the last checkpoint skips no block, whichever peers
\* serve it: no checkpoint is above the tip.
THEOREM NewWalletSkipsNone ==
  ASSUME Interval > 1, LatestStart
  PROVE  Spec => TipSkipsNone
<1>1. TypeOK /\ (rescans = 0 => Extendable) /\ (rescans = 0 => Traceable) /\ [Next]_vars
        => [rescans' = 0 => Height[lastBlock'] <= Height[lastBlock] + 1]_lastBlock
  <2> SUFFICES ASSUME TypeOK, rescans = 0 => Extendable /\ Traceable, [Next]_vars, rescans' = 0,
                      lastBlock' # lastBlock
               PROVE  Height[lastBlock'] <= Height[lastBlock] + 1
    OBVIOUS
  <2>1. ~(Rescan(NoEntities) \/ RescanRaced(NoEntities))
    BY DEF Rescan, RescanRaced, GoBackTo, TypeOK
  <2>2. ASSUME NEW p \in Peer, NEW it \in Item, RelayedBlock(p, it)
        PROVE  Height[lastBlock'] <= Height[lastBlock] + 1
    <3>1. NoneAboveTip /\ Height[StartCheckpoint] <= Height[lastBlock]
      BY <2>2 DEF RelayedBlock, Extendable, Traceable
    <3>2. \A c \in Checkpoint : Height[c] <= Height[lastBlock]
      BY <3>1, CheckpointAssumption, TreeAssumption DEF LatestStart, TypeOK
    <3> QED
      BY <2>2, <3>1, <3>2, RelayedBlockSkipsNone
  <2>3. CASE ConnectOrphan
    <3>1. call.peer \in Peer /\ call.item \in Item
      BY <2>3 DEF ConnectOrphan, TypeOK
    <3> QED
      BY <2>2, <2>3, <3>1 DEF ConnectOrphan
  <2> QED
    BY <2>1, <2>2, <2>3
    DEF Next, ReceiveBlock, RelayedTransaction, AcceptVersion, vars, chainVars
<1> QED
  BY <1>1, TypeCorrect, ExtendableUntilRescan, TraceableUntilRescan, PTL DEF Spec, TipSkipsNone

\* If the tip skips no block, then until the user rescans every transaction of the main
\* chain's blocks is in the wallet, confirmed at its height: the download misses none,
\* and no reorganisation leaves one unconfirmed.
THEOREM AllAlwaysConfirmed ==
  ASSUME Interval > 1, ShallowForks, OncePerBranch, NoEarlyTx
  PROVE  Spec /\ TipSkipsNone => [](rescans = 0 => AllConfirmed)
<1>1. Init => (rescans = 0 => AllConfirmed)
  BY DEF Init, AllConfirmed, NoEarlyTx
<1>2. TypeOK /\ (rescans = 0 => Extendable) /\ (rescans = 0 => Traceable) /\ CheckpointsRespected
        /\ CompleteBlocks /\ (rescans = 0 => AllConfirmed) /\ [Next]_vars
        /\ [rescans' = 0 => Height[lastBlock'] <= Height[lastBlock] + 1]_lastBlock
        => (rescans = 0 => AllConfirmed)'
  <2> SUFFICES ASSUME TypeOK, rescans = 0 => Extendable /\ Traceable /\ AllConfirmed,
                      CheckpointsRespected, CompleteBlocks, [Next]_vars, rescans' = 0,
                      [rescans' = 0 => Height[lastBlock'] <= Height[lastBlock] + 1]_lastBlock
               PROVE  AllConfirmed'
    OBVIOUS
  <2>0. Height[lastBlock'] <= Height[lastBlock] + 1
    BY TreeAssumption DEF TypeOK
  <2>1. ~(Rescan(NoEntities) \/ RescanRaced(NoEntities))
    BY DEF Rescan, RescanRaced, GoBackTo, TypeOK
  <2>2. ASSUME NEW p \in Peer, NEW it \in Item, Complete(it), RelayedBlock(p, it) PROVE AllConfirmed'
    BY <2>0, <2>2, RelayedBlockConfirmsAll DEF RelayedBlock, UsualBranches
  <2>3. CASE ConnectOrphan
    <3>1. call.peer \in Peer /\ call.item \in Item /\ Complete(call.item)
      BY <2>3 DEF ConnectOrphan, TypeOK, CompleteBlocks
    <3> QED
      BY <2>2, <2>3, <3>1 DEF ConnectOrphan
  <2>4. ASSUME NEW t \in Tx, RelayedTransaction(t) PROVE AllConfirmed'
    <3>1. /\ wallet' = wallet \cup {t} /\ txHeight' = [txHeight EXCEPT ![t] = TX_UNCONFIRMED]
          /\ t \notin wallet /\ lastBlock' = lastBlock /\ rescans' = rescans
          /\ txHeight \in [Tx -> Nat] /\ wallet \subseteq Tx
      BY <2>4 DEF RelayedTransaction, chainVars, TypeOK
    <3>2. \A u \in wallet : u \in wallet' /\ txHeight'[u] = txHeight[u]
      BY <3>1
    <3> QED
      BY <3>1, <3>2 DEF AllConfirmed
  <2>5. CASE UNCHANGED <<lastBlock, wallet, txHeight, rescans>>
    BY <2>5 DEF AllConfirmed
  <2> QED
    BY <2>1, <2>2, <2>3, <2>4, <2>5
    DEF Next, ReceiveBlock, AcceptVersion, vars, chainVars, walletVars
<1> QED
  BY <1>1, <1>2, TypeCorrect, ExtendableUntilRescan, TraceableUntilRescan,
     CheckpointsAlwaysRespected, CompleteBlocksAlways, PTL DEF Spec, TipSkipsNone

\* If the tip skips no block, then until the user rescans the transactions of the
\* merkleblocks the wallet keeps on the main chain are confirmed at the blocks' heights.
THEOREM MainChainAlwaysConfirmed ==
  ASSUME Interval > 1, ShallowForks, OncePerBranch, NoEarlyTx
  PROVE  Spec /\ TipSkipsNone => [](rescans = 0 => MainChainConfirmed)
<1>1. (rescans = 0 => AllConfirmed) => (rescans = 0 => MainChainConfirmed)
  BY DEF AllConfirmed, MainChainConfirmed, TxHashes
<1> QED
  BY <1>1, AllAlwaysConfirmed, PTL

----------------------------------------------------------------------------
(***************************************************************************)
(* What a transition is measured from is found, whatever the interval and  *)
(* after rescans too, if no branch leaves another one long before the      *)
(* latter's transition: a transition then frees whole branches up to the   *)
(* previous one, and all that is left of a branch starts at a transition.  *)
(***************************************************************************)
\* A transition frees a branch up to the previous transition.
LEMMA FreedToTransition ==
  ASSUME TypeOK, NoOldForks, NEW it \in Item, Attached(it), NEW b \in Block \ {Genesis},
         Parent[b] \in Freed(it), b \notin Freed(it), b # it.block
  PROVE  AtTransition(b)
<1> DEFINE bl == [blocks EXCEPT ![it.block] = KindOf(it)]
           top == it.block
<1>1. /\ b \in Block /\ Parent[b] \in Block /\ Height[Parent[b]] \in Nat /\ top \in Block
      /\ Height[b] = Height[Parent[b]] + 1 /\ Height[top] \in Nat /\ bl \in [Block -> Kind]
  BY ItemFacts, TreeAssumption DEF TypeOK
<1>2. AtTransition(top) /\ Parent[b] \in Walk(top, bl) /\ Height[Parent[b]] + Interval < Height[top]
  BY DEF Freed, Path
<1>3. \A a \in Walk(top, bl) : Height[a] + Interval < Height[top] => a \in Freed(it)
  BY <1>2 DEF Freed, Path
<1> HIDE DEF bl, top
<1>4. PICK o \in Walk(top, bl) : \A a \in Anc[top] : a \in Walk(top, bl) <=> Height[a] >= Height[o]
  BY <1>1, WalkFacts
<1>5. Walk(top, bl) \subseteq Anc[top]
  BY <1>1, WalkFacts
<1>6. b \in Anc[top]
  BY <1>1, <1>2, <1>5 DEF NoOldForks
<1>7. Height[o] \in Nat /\ Height[Parent[b]] >= Height[o]
  BY <1>1, <1>2, <1>4, <1>5, AncestorFacts
<1>8. b \in Walk(top, bl)
  BY <1>1, <1>4, <1>6, <1>7
<1>9. Height[b] + Interval = Height[top]
  BY <1>1, <1>2, <1>3, <1>8, DataAssumption
<1>10. Height[top] % Interval = 0
  BY <1>2 DEF AtTransition
<1>11. Height[b] % Interval = 0
  <2>1. Height[b] \in Nat /\ Interval \in Nat \ {0}
    BY <1>1, DataAssumption
  <2>2. (Height[b] + Interval) % Interval = Height[b] % Interval
    BY <2>1, SameRemainder, Zenon
  <2> QED
    BY <1>9, <1>10, <2>2
<1> QED
  BY <1>11 DEF AtTransition

LEMMA RelayedBlockLowest ==
  ASSUME TypeOK, BareIsCheckpoint, LowestAtTransition, NoOldForks, NEW p \in Peer, NEW it \in Item,
         RelayedBlock(p, it)
  PROVE  BareIsCheckpoint' /\ LowestAtTransition'
<1>1. CASE blocks' = blocks
  BY <1>1 DEF BareIsCheckpoint, LowestAtTransition, AtTransition
<1>2. CASE Attached(it) /\ blocks' \in {Kept(it), Stored(it)}
  <2>1. BareIsCheckpoint'
    BY <1>2, DictionaryFacts DEF BareIsCheckpoint
  <2>2. ASSUME NEW b \in Block \ {Genesis},
               blocks'[b] = "bare" \/ (blocks'[b] # "none" /\ blocks'[Parent[b]] = "none")
        PROVE  AtTransition(b)
    <3>1. b \in Block /\ Parent[b] \in Block
      BY TreeAssumption
    <3>2. CASE blocks'[b] = "bare"
      BY <2>1, <3>1, <3>2, StartsAtTransition DEF BareIsCheckpoint
    <3>3. CASE blocks'[b] # "none" /\ blocks'[Parent[b]] = "none"
      <4>1. Parent[b] \in Freed(it) \/ blocks[Parent[b]] = "none"
        BY <1>2, <3>1, <3>3, DictionaryFacts
      <4>2. b # it.block
        BY <1>2, <4>1, ParentKept DEF Attached
      <4>3. b \notin Freed(it) /\ blocks[b] # "none"
        BY <1>2, <3>1, <3>3, <4>2, DictionaryFacts
      <4> QED
        BY <1>2, <4>1, <4>2, <4>3, FreedToTransition DEF LowestAtTransition
    <3> QED
      BY <2>2, <3>2, <3>3
  <2> QED
    BY <2>1, <2>2 DEF LowestAtTransition, AtTransition
<1> QED
  BY <1>1, <1>2, RelayedBlockChanges

\* What is left of any branch starts at a difficulty transition, in whatever order
\* blocks come, and after rescans.
THEOREM LowestAlwaysAtTransition ==
  ASSUME NoOldForks
  PROVE  Spec => []LowestAtTransition
<1> DEFINE Inv == BareIsCheckpoint /\ LowestAtTransition
<1>1. Init => Inv
  <2> SUFFICES ASSUME Init PROVE Inv
    OBVIOUS
  <2>1. \A b \in Block : blocks[b] = IF b \in Checkpoint \cup {Genesis} THEN "bare" ELSE "none"
    BY DEF Init, LoadedBlocks, NoEntities
  <2> QED
    BY <2>1, StartsAtTransition DEF BareIsCheckpoint, LowestAtTransition
<1>2. TypeOK /\ Inv /\ [Next]_vars => Inv'
  <2> SUFFICES ASSUME TypeOK, Inv, [Next]_vars PROVE Inv'
    OBVIOUS
  <2>1. ASSUME NEW p \in Peer, NEW it \in Item, ReceiveBlock(p, it) PROVE Inv'
    BY <2>1, RelayedBlockLowest DEF ReceiveBlock
  <2>2. CASE ConnectOrphan
    <3>1. call.peer \in Peer /\ call.item \in Item
      BY <2>2 DEF ConnectOrphan, TypeOK
    <3> QED
      BY <2>2, <3>1, RelayedBlockLowest DEF ConnectOrphan
  <2>3. CASE blocks' = blocks
    BY <2>3 DEF BareIsCheckpoint, LowestAtTransition, AtTransition
  <2> QED
    BY <2>1, <2>2, <2>3
    DEF Next, RelayedTransaction, AcceptVersion, Rescan, RescanRaced, GoBackTo, vars, chainVars
<1>3. Inv => LowestAtTransition
  OBVIOUS
<1> QED
  BY <1>1, <1>2, <1>3, TypeCorrect, PTL DEF Spec

\* The walk back from a block at a transition reaches the previous one.
LEMMA WalkFindsTransition ==
  ASSUME TypeOK, LowestAtTransition, NEW it \in Item, Attached(it), AtTransition(it.block)
  PROVE  TransitionFound(it)
<1> DEFINE bl == [blocks EXCEPT ![it.block] = KindOf(it)]
           top == it.block
           h == Height[top]
<1>1. /\ top \in Block /\ bl \in [Block -> Kind] /\ h \in Nat /\ h > 0
      /\ bl[top] \notin {"none", "bare"} /\ h % Interval = 0 /\ Interval \in Nat \ {0}
      /\ \A a \in Block : a # top => bl[a] = blocks[a]
  BY ItemFacts, AttachedFacts, DataAssumption DEF TypeOK, AtTransition, KindOf
<1>2. /\ Parent[top] # top /\ bl[Parent[top]] # "none" /\ Parent[top] \in Block
  BY <1>1, AttachedFacts
<1> HIDE DEF bl, top, h
<1>3. PICK o \in Walk(top, bl) :
         /\ \A a \in Anc[top] : a \in Walk(top, bl) <=> Height[a] >= Height[o]
         /\ o = Genesis \/ bl[o] = "bare" \/ bl[Parent[o]] = "none"
  BY <1>1, WalkFacts
<1>4. /\ o \in Anc[top] /\ o \in Block /\ Height[o] \in Nat /\ Height[o] <= h
      /\ o = top \/ bl[o] # "none"
  BY <1>1, <1>3, WalkFacts, AncestorFacts DEF h
<1>5. o # top
  <2>1. Height[Genesis] = 0
    BY TreeAssumption
  <2> QED
    BY <1>1, <1>2, <1>3, <2>1 DEF h
<1>6. Height[o] < h
  BY <1>1, <1>4, <1>5, AncestorFacts, TreeAssumption DEF h
<1>7. Height[o] % Interval = 0
  <2>1. CASE o = Genesis
    BY <2>1, StartsAtTransition DEF AtTransition
  <2>2. CASE o # Genesis
    <3>1. blocks[o] # "none"
      BY <1>1, <1>4, <1>5
    <3>2. bl[Parent[o]] = "none" => blocks[Parent[o]] = "none"
      BY <1>1, <1>4, TreeAssumption
    <3>3. blocks[o] = "bare" \/ blocks[Parent[o]] = "none"
      BY <1>1, <1>3, <1>4, <1>5, <2>2, <3>2
    <3> QED
      BY <1>4, <2>2, <3>1, <3>3 DEF LowestAtTransition, AtTransition
  <2> QED
    BY <2>1, <2>2
<1>8. Height[o] + Interval <= h
  BY <1>1, <1>4, <1>6, <1>7, MultiplesApart
<1>9. PICK a \in Anc[top] : Height[a] = h - Interval
  <2>1. h - Interval \in Nat /\ h - Interval <= Height[top]
    BY <1>1, <1>4, <1>8 DEF h
  <2> QED
    BY <1>1, <2>1, AncestorAt
<1>10. a \in Walk(top, bl) /\ Height[a] + Interval = h
  BY <1>1, <1>3, <1>4, <1>8, <1>9
<1> QED
  BY <1>10 DEF TransitionFound, Path, bl, top, h

\* The block that a transition is measured from is found for every block whose parent
\* the wallet has: no peer is blamed for its absence, not even one on another branch.
THEOREM TransitionAlwaysFound ==
  ASSUME NoOldForks
  PROVE  Spec => [](\A it \in Item : Attached(it) /\ AtTransition(it.block) => TransitionFound(it))
<1>1. TypeOK /\ LowestAtTransition
        => \A it \in Item : Attached(it) /\ AtTransition(it.block) => TransitionFound(it)
  BY WalkFindsTransition
<1> QED
  BY <1>1, TypeCorrect, LowestAlwaysAtTransition, PTL
=============================================================================

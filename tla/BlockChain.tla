----------------------------- MODULE BlockChain -----------------------------
(***************************************************************************)
(* The header chain that BRPeerManager keeps: the `blocks' dictionary, the *)
(* tip `lastBlock', the `orphans' dictionary and `lastOrphan', the heights *)
(* the wallet's transactions get from it.  BlockStore adds the copy that   *)
(* Core Data persists; here the store is empty.                            *)
(*                                                                         *)
(* Every delegate callback of a peer runs on the serial queue q, so        *)
(* peer:relayedBlock: is one step.  The one exception is its tail call on  *)
(* an orphan, which is a step of its own (`call' is the pending call): the *)
(* main thread, and Core Data's queue, run between the two.                *)
(*                                                                         *)
(* Here the peers are arbitrary: any block of the tree may be relayed by   *)
(* any peer at any time, in any order, any number of times, and a peer may *)
(* claim any height.  ChainSync restricts them to the wire protocol.       *)
(***************************************************************************)
EXTENDS Integers, FiniteSets

CONSTANTS
  Block,            \* the block hashes the peers know: a tree
  Genesis,          \* GENESIS_BLOCK_HASH, the root
  Parent,           \* prevBlock of every block but the genesis block
  Height,           \* the depth of a block in the tree
  Anc,              \* the blocks on the path from a block to the root, both included
  Checkpoint,       \* the hashes of checkpoint_array
  StartCheckpoint,  \* the latest of them a week older than earliestKeyTime
  Interval,         \* BLOCK_DIFFICULTY_INTERVAL
  ReferenceHeight,  \* BITCOIN_REFERENCE_BLOCK_HEIGHT
  BadTarget,        \* blocks whose target is wrong for their place in the chain
  Early,            \* blocks at least a week older than earliestKeyTime
  Aged,             \* blocks more than a week old now
  Tx,               \* transactions of the wallet's keys
  TxOf,             \* the ones each block holds (the bloom filter's matches)
  Peer,
  LastblockClaims,  \* the heights a peer's version message may claim
  None,             \* nil
  MaxRescans        \* bound: how often the user rescans

Heights == {Height[b] : b \in Block}

CheckpointHeights == {Height[c] : c \in Checkpoint}

\* Every ancestor of b that is at the height of a checkpoint is that checkpoint.
AgreesWithCheckpoints(b) ==
  \A a \in Anc[b] : Height[a] \in CheckpointHeights => a \in Checkpoint

\* Hashes commit to the previous block, so the blocks are a tree.
ASSUME TreeAssumption ==
  /\ IsFiniteSet(Block) /\ Genesis \in Block
  /\ None \notin Block
  /\ Parent \in [Block -> Block]
  /\ Height \in [Block -> Nat]
  /\ Height[Genesis] = 0
  /\ \A b \in Block \ {Genesis} : Height[b] = Height[Parent[b]] + 1
  /\ Anc \in [Block -> SUBSET Block]
  /\ Anc[Genesis] = {Genesis}
  /\ \A b \in Block \ {Genesis} : Anc[b] = {b} \cup Anc[Parent[b]]

\* A branch is a path: one ancestor at each height, whose ancestors it shares.
ASSUME BranchAssumption ==
  \A b \in Block :
    /\ \A a \in Anc[b] : Anc[a] \subseteq Anc[b] /\ Height[a] <= Height[b]
    /\ \A a, c \in Anc[b] : Height[a] = Height[c] => a = c
    /\ \A a, c \in Anc[b] : Height[a] <= Height[c] => a \in Anc[c]

\* checkpoint_array lists blocks of one branch, at difficulty transitions, and one
\* at a height: `checkpoints' is a dictionary by height.
ASSUME CheckpointAssumption ==
  /\ Checkpoint \subseteq Block \ {Genesis}
  /\ \A c, d \in Checkpoint : Height[c] = Height[d] => c = d
  /\ StartCheckpoint \in (Checkpoint \cup {Genesis}) \cap Early
  /\ \A c \in Checkpoint : Height[c] % Interval = 0 /\ AgreesWithCheckpoints(c)

ASSUME DataAssumption ==
  /\ Interval \in Nat \ {0}
  /\ ReferenceHeight \in Nat
  /\ BadTarget \subseteq Block /\ Early \subseteq Block /\ Aged \subseteq Block
  /\ TxOf \in [Block -> SUBSET Tx]
  /\ LastblockClaims \subseteq Nat
  /\ None \notin Peer
  /\ MaxRescans \in Nat

(***************************************************************************)
(* How much of a block is known: "bare" is a checkpoint (or the genesis    *)
(* block) made from checkpoint_array, which has no prevBlock; "header" has *)
(* no transactions; "merkle" is a merkleblock with its matched ones.       *)
(***************************************************************************)
Kind == {"none", "bare", "header", "merkle"}

\* What peer:relayedBlock: is given: a header message's block or a merkleblock.
Item == [block : Block \ {Genesis}, header : BOOLEAN]

KindOf(it) == IF it.header THEN "header" ELSE "merkle"

VARIABLES
  blocks,       \* the `blocks' dictionary
  lastBlock,    \* the tip of the main chain
  orphans,      \* received blocks by their missing prevBlock
  lastOrphan,   \* the latest orphan received
  call,         \* the tail call of peer:relayedBlock: on an orphan, or None
  lastblock,    \* BRPeer.lastblock, the height in the peer's version message
  misbehavin,   \* misbehavinPeers
  wallet,       \* the wallet's transactions (allTx)
  txHeight,     \* their blockHeight
  rescans       \* how often rescan was called

chainVars == <<blocks, lastBlock, orphans, lastOrphan, call>>
walletVars == <<wallet, txHeight>>
vars == <<chainVars, lastblock, misbehavin, walletVars, rescans>>

----------------------------------------------------------------------------
\* TX_UNCONFIRMED is INT32_MAX: more than any height.
TX_UNCONFIRMED == 1 + Cardinality(Block)

NoEntities == [b \in Block |-> "none"]

\* The dictionary as the `blocks' getter builds it: genesis, checkpoints, entities.
LoadedBlocks(stored) ==
  [b \in Block |-> IF stored[b] # "none" THEN stored[b]
                   ELSE IF b \in Checkpoint \cup {Genesis} THEN "bare" ELSE "none"]

\* The `lastBlock' getter: the highest stored block, or else a checkpoint.
LoadedLastBlock(stored) ==
  LET S == {b \in Block : stored[b] # "none"}
  IN  IF S = {} THEN StartCheckpoint
      ELSE CHOOSE b \in S : \A c \in S : Height[c] <= Height[b]

\* The blocks met by b = self.blocks[b.prevBlock], from b on, in dictionary bl.
Walk(b, bl) ==
  {b} \cup {a \in Anc[b] : \A c \in Anc[b] :
     /\ Height[a] <= Height[c] /\ c # b => bl[c] # "none"
     /\ Height[a] < Height[c] => bl[c] # "bare"}

\* setBlockHeight:forTxHashes: touches the transactions the wallet knows.
SetBlockHeight(h, txs) ==
  [t \in Tx |-> IF t \in txs \cap wallet THEN h ELSE txHeight[t]]

ItemTxHashes(it) == IF it.header THEN {} ELSE TxOf[it.block]

TxHashes(b, bl) == IF bl[b] = "merkle" THEN TxOf[b] ELSE {}

----------------------------------------------------------------------------
(***************************************************************************)
(* peer:relayedBlock:, from its tests down to each of its outcomes.        *)
(***************************************************************************)
\* A header newer than a week before earliestKeyTime is ignored.
TooNew(it) == it.header /\ it.block \notin Early

Orphan(it) == ~TooNew(it) /\ blocks[Parent[it.block]] = "none"

Attached(it) == ~TooNew(it) /\ blocks[Parent[it.block]] # "none"

AtTransition(b) == Height[b] % Interval = 0

\* The path back from the block just received, itself not yet in the dictionary.
Path(it) == Walk(it.block, [blocks EXCEPT ![it.block] = KindOf(it)])

\* The block the difficulty transition is measured from was found.
TransitionFound(it) ==
  \E a \in Path(it) : Height[a] + Interval = Height[it.block]

\* Mutants of Freed: from the new block on, and the transition block too.
FreedFromTip(it) ==
  IF AtTransition(it.block) THEN {a \in Path(it) : Height[a] < Height[it.block]} ELSE {}
FreedWithTransition(it) ==
  IF AtTransition(it.block) THEN {a \in Path(it) : Height[a] + Interval <= Height[it.block]} ELSE {}

\* At a transition the ancestors of the previous transition are dropped.
Freed(it) ==
  IF AtTransition(it.block)
  THEN {a \in Path(it) : Height[a] + Interval < Height[it.block]}
  ELSE {}

Kept(it) ==
  LET freed == Freed(it)
  IN  IF freed = {} THEN blocks
      ELSE [b \in Block |-> IF b \in freed THEN "none" ELSE blocks[b]]

\* And the block is put in the dictionary.
Stored(it) == [Kept(it) EXCEPT ![it.block] = KindOf(it)]

\* verifyDifficultyFromPreviousBlock:andTransitionTime:, no time means NO.
VerifyDifficulty(it) ==
  /\ AtTransition(it.block) => TransitionFound(it)
  /\ it.block \notin BadTarget

\* Mutant of MatchesCheckpoint: only the checkpoint the download starts from counts.
MatchesStart(b) == Height[b] = Height[StartCheckpoint] => b = StartCheckpoint

MatchesCheckpoint(b) == Height[b] \in CheckpointHeights => b \in Checkpoint

Verified(it) ==
  Attached(it) /\ VerifyDifficulty(it) /\ MatchesCheckpoint(it.block)

\* getblocks is sent for an orphan (ChainSync models the request).
AsksForBlocks(p, it) ==
  /\ Orphan(it) /\ it.block \notin Aged
  /\ Height[lastBlock] >= lastblock[p]
  /\ lastOrphan # Parent[it.block]

KeepOrphan(it, orph) ==
  /\ orphans' = [orph EXCEPT ![Parent[it.block]] = it]
  /\ lastOrphan' = it.block

\* Mutants of BecomesLast: the orphan is not tested for nil, or never looked for.
BecomesLastUntested(p, b) ==
  /\ lastBlock' = b
  /\ call' = [peer |-> p, item |-> orphans[b]]
  /\ orphans' = [orphans EXCEPT ![b] = None]
BecomesLastOnly(p, b) == lastBlock' = b /\ call' = None /\ UNCHANGED orphans

\* The block is now lastBlock: an orphan that was waiting for it is next.
BecomesLast(p, b) ==
  /\ lastBlock' = b
  /\ call' = IF orphans[b] = None THEN None ELSE [peer |-> p, item |-> orphans[b]]
  /\ orphans' = [orphans EXCEPT ![b] = None]

IgnoreHeader(it) ==
  /\ TooNew(it)
  /\ call' = None
  /\ UNCHANGED <<blocks, lastBlock, orphans, lastOrphan, misbehavin, walletVars>>

ReceiveOrphan(it) ==
  /\ Orphan(it)
  /\ IF it.block \in Aged THEN UNCHANGED <<orphans, lastOrphan>>
                          ELSE KeepOrphan(it, orphans)
  /\ call' = None
  /\ UNCHANGED <<blocks, lastBlock, misbehavin, walletVars>>

RejectBlock(p, it) ==
  /\ Attached(it) /\ ~Verified(it)
  /\ blocks' = Kept(it)
  /\ misbehavin' = misbehavin \cup {p}
  /\ call' = None
  /\ UNCHANGED <<lastBlock, orphans, lastOrphan, walletVars>>

ExtendChain(p, it) ==
  /\ Parent[it.block] = lastBlock
  /\ blocks' = Stored(it)
  /\ txHeight' = SetBlockHeight(Height[it.block], ItemTxHashes(it))
  /\ BecomesLast(p, it.block)
  /\ UNCHANGED <<lastOrphan, misbehavin, wallet>>

\* A block we have: on the main chain its transactions get its height again.
ReplaceBlock(p, it) ==
  LET onMain == it.block \in Walk(lastBlock, Kept(it))
  IN  /\ Parent[it.block] # lastBlock /\ Kept(it)[it.block] # "none"
      /\ blocks' = Stored(it)
      /\ txHeight' = IF onMain
                     THEN SetBlockHeight(Height[it.block], ItemTxHashes(it))
                     ELSE txHeight
      /\ IF it.block = lastBlock
         THEN BecomesLast(p, it.block)
         ELSE call' = None /\ UNCHANGED <<lastBlock, orphans>>
      /\ UNCHANGED <<lastOrphan, misbehavin, wallet>>

OnFork(it) == Parent[it.block] # lastBlock /\ Kept(it)[it.block] = "none"

TooOldFork(it) == OnFork(it) /\ Height[it.block] <= ReferenceHeight

\* Mutant of Postponed: the block's height is compared with the peer's.
PostponedAbovePeer(p, it) ==
  /\ OnFork(it) /\ ~TooOldFork(it)
  /\ Height[lastBlock] < lastblock[p]
  /\ Height[it.block] > lastblock[p] + 1

\* While the chain is behind the peer, a block further up waits as an orphan.
Postponed(p, it) ==
  /\ OnFork(it) /\ ~TooOldFork(it)
  /\ Height[lastBlock] < lastblock[p]
  /\ Height[it.block] > Height[lastBlock] + 1

IgnoreOldFork(it) ==
  /\ TooOldFork(it)
  /\ blocks' = Kept(it)
  /\ call' = None
  /\ UNCHANGED <<lastBlock, orphans, lastOrphan, misbehavin, walletVars>>

PostponeFork(p, it) ==
  /\ Postponed(p, it)
  /\ blocks' = Kept(it)
  /\ KeepOrphan(it, orphans)
  /\ call' = None
  /\ UNCHANGED <<lastBlock, misbehavin, walletVars>>

StoresFork(p, it) == OnFork(it) /\ ~TooOldFork(it) /\ ~Postponed(p, it)

Longer(b) == Height[b] > Height[lastBlock]

StoreFork(p, it) ==
  /\ StoresFork(p, it) /\ ~Longer(it.block)
  /\ blocks' = Stored(it)
  /\ call' = None
  /\ UNCHANGED <<lastBlock, orphans, lastOrphan, misbehavin, walletVars>>

\* The heights b and b2 end at when they walk back to where the fork joins: the
\* join, or if there is none in the dictionary, where one of them runs out.
JoinHeights(new, old) ==
  LET common == new \cap old
      lowest(S) == CHOOSE h \in {Height[a] : a \in S} : \A a \in S : h <= Height[a]
      join == CHOOSE h \in {Height[a] : a \in common} : \A a \in common : h >= Height[a]
  IN  IF common # {} THEN [b |-> join, b2 |-> join]
      ELSE IF lowest(new) < lowest(old) THEN [b |-> lowest(old) - 1, b2 |-> 0]
      ELSE [b |-> 0, b2 |-> 0]

\* Mutants of AboveJoin, off by one either way.
AboveJoinOrAt(t, h) == txHeight[t] >= h
WellAboveJoin(t, h) == txHeight[t] > h + 1

AboveJoin(t, h) == txHeight[t] > h

Reorganize(p, it) ==
  LET stored == Stored(it)
      new == Walk(it.block, stored)
      heights == JoinHeights(new, Walk(lastBlock, stored))
      at(t) == {Height[a] : a \in {c \in new : Height[c] > heights.b2 /\ t \in TxHashes(c, stored)}}
  IN  /\ StoresFork(p, it) /\ Longer(it.block)
      /\ blocks' = stored
      /\ txHeight' = [t \in Tx |->
           IF t \notin wallet THEN txHeight[t]
           ELSE IF at(t) # {} THEN CHOOSE h \in at(t) : \A g \in at(t) : h <= g
           ELSE IF AboveJoin(t, heights.b) THEN TX_UNCONFIRMED
           ELSE txHeight[t]]
      /\ BecomesLast(p, it.block)
      /\ UNCHANGED <<lastOrphan, misbehavin, wallet>>

RelayedBlock(p, it) ==
  /\ \/ IgnoreHeader(it)
     \/ ReceiveOrphan(it)
     \/ RejectBlock(p, it)
     \/ /\ Verified(it)
        /\ \/ ExtendChain(p, it)
           \/ ReplaceBlock(p, it)
           \/ IgnoreOldFork(it)
           \/ PostponeFork(p, it)
           \/ StoreFork(p, it)
           \/ Reorganize(p, it)
  /\ UNCHANGED <<lastblock, rescans>>

\* The block ends up as lastBlock: the handler goes on to its last two tests.
NewTip(p, it) ==
  /\ Verified(it)
  /\ \/ Parent[it.block] = lastBlock
     \/ it.block = lastBlock /\ Kept(it)[lastBlock] # "none"
     \/ StoresFork(p, it) /\ Longer(it.block)

\* Mutant of Complete: the block is relayed at once.
Incomplete(it) == it \in Item

\* BRPeer relays a merkleblock only after the transactions it matched.
Complete(it) == it.header \/ TxOf[it.block] \subseteq wallet

ReceiveBlock(p, it) == call = None /\ Complete(it) /\ RelayedBlock(p, it)

\* The tail call: the orphan is processed as if the same peer had relayed it.
ConnectOrphan == call # None /\ RelayedBlock(call.peer, call.item)

----------------------------------------------------------------------------
\* peer:relayedTransaction: registers a transaction of ours, unconfirmed.
RelayedTransaction(t) ==
  /\ call = None /\ t \notin wallet
  /\ wallet' = wallet \cup {t}
  /\ txHeight' = [txHeight EXCEPT ![t] = TX_UNCONFIRMED]
  /\ UNCHANGED <<chainVars, lastblock, misbehavin, rescans>>

\* A peer's version message, at each connection.
AcceptVersion(p, h) ==
  /\ lastblock' = [lastblock EXCEPT ![p] = h]
  /\ UNCHANGED <<chainVars, misbehavin, walletVars, rescans>>

\* rescan: back to the latest usable checkpoint that is still in the dictionary.
RescanStart(stored) ==
  LET usable == {c \in Checkpoint : Height[c] <= Height[StartCheckpoint] /\ blocks[c] # "none"}
  IN  IF usable # {} THEN CHOOSE c \in usable : \A d \in usable : Height[d] <= Height[c]
      ELSE IF blocks[Genesis] # "none" THEN Genesis
      ELSE LoadedLastBlock(stored)

GoBackTo(b) ==
  /\ rescans < MaxRescans
  /\ rescans' = rescans + 1
  /\ lastBlock' = b
  /\ UNCHANGED <<blocks, orphans, lastOrphan, call, lastblock, misbehavin, walletVars>>

Rescan(stored) == GoBackTo(RescanStart(stored))

\* It runs on the main thread, and sets _lastBlock to nil first: a getter called
\* on q meanwhile reloads it from Core Data, and the search is then skipped.
RescanRaced(stored) == GoBackTo(LoadedLastBlock(stored))

----------------------------------------------------------------------------
Init ==
  /\ blocks = LoadedBlocks(NoEntities)
  /\ lastBlock = StartCheckpoint
  /\ orphans = [b \in Block |-> None]
  /\ lastOrphan = None
  /\ call = None
  /\ lastblock = [p \in Peer |-> 0]
  /\ misbehavin = {}
  /\ wallet = {}
  /\ txHeight = [t \in Tx |-> TX_UNCONFIRMED]
  /\ rescans = 0

Next ==
  \/ \E p \in Peer, it \in Item : ReceiveBlock(p, it)
  \/ ConnectOrphan
  \/ \E t \in Tx : RelayedTransaction(t)
  \/ \E p \in Peer, h \in LastblockClaims : AcceptVersion(p, h)
  \/ Rescan(NoEntities) \/ RescanRaced(NoEntities)

Spec == Init /\ [][Next]_vars

----------------------------------------------------------------------------
(***************************************************************************)
(* Properties.                                                             *)
(***************************************************************************)
\* The types of the variables.
TypeOK ==
  /\ blocks \in [Block -> Kind]
  /\ lastBlock \in Block
  /\ orphans \in [Block -> Item \cup {None}]
  /\ lastOrphan \in Block \cup {None}
  /\ call \in [peer : Peer, item : Item] \cup {None}
  /\ lastblock \in [Peer -> Nat]
  /\ misbehavin \subseteq Peer
  /\ wallet \subseteq Tx
  /\ txHeight \in [Tx -> Nat]
  /\ rescans \in Nat

\* Nothing peers relay, in whatever order, makes the wallet keep a block of a
\* branch that contradicts a checkpoint, nor follow one: the test in
\* peer:relayedBlock: covers extensions, forks, reconnected orphans and rescans.
CheckpointsRespected ==
  /\ AgreesWithCheckpoints(lastBlock)
  /\ \A b \in Block : blocks[b] # "none" => AgreesWithCheckpoints(b)

\* A transaction shown as confirmed is in the block of the main chain at that
\* height: a reorganisation unconfirms what was above the join and no more.
ConfirmedOnMainChain ==
  \A t \in wallet : txHeight[t] # TX_UNCONFIRMED =>
    \E b \in Anc[lastBlock] : t \in TxOf[b] /\ Height[b] = txHeight[t]

\* A transaction in a merkleblock of the main chain is confirmed at its height:
\* a reorganisation confirms what the fork's stored blocks hold.
MainChainConfirmed ==
  \A b \in Anc[lastBlock] : \A t \in TxHashes(b, blocks) : txHeight[t] = Height[b]

\* The tip of the chain is never among the blocks freed at a transition: the next
\* block would be an orphan, and so would be every one after it.
LastBlockKept == blocks[lastBlock] # "none"

\* What is left of the main chain reaches back to the latest transition, which
\* the next one is measured from: no peer is blamed for its absence.
DifficultyCheckable ==
  \E a \in Walk(lastBlock, blocks) :
    AtTransition(a) /\ Height[a] + Interval > Height[lastBlock]

\* An orphan whose parent is the tip is not left waiting.
NoConnectableOrphan == call = None => orphans[lastBlock] = None

\* A transaction confirmed at a height the main chain has reached again after a
\* rescan is in its block at that height.
ConfirmedBelowTip ==
  \A t \in wallet : txHeight[t] <= Height[lastBlock] =>
    \E b \in Anc[lastBlock] : t \in TxOf[b] /\ Height[b] = txHeight[t]

\* Nothing below the tip is missed: each transaction of the main chain's blocks is in
\* the wallet, confirmed at its height.
AllConfirmed ==
  \A c \in Anc[lastBlock] : \A t \in TxOf[c] : t \in wallet /\ txHeight[t] = Height[c]

\* The branches in the dictionary end at difficulty transitions: what the next one of
\* a branch is measured from is not freed because of another branch.
LowestAtTransition ==
  \A b \in Block \ {Genesis} :
    blocks[b] = "bare" \/ (blocks[b] # "none" /\ blocks[Parent[b]] = "none") => AtTransition(b)

\* Only a rescan moves the tip to a block that is not higher.
TipNeverLower ==
  [][rescans' # rescans \/ Height[lastBlock'] > Height[lastBlock]]_lastBlock

\* The tip skips no block, up to the first rescan: a checkpoint later than the tip is in
\* the dictionary, and a block on top of it waits until the blocks below have come.
TipSkipsNone ==
  [][rescans' = 0 => Height[lastBlock'] <= Height[lastBlock] + 1]_lastBlock

----------------------------------------------------------------------------
(***************************************************************************)
(* What the code takes for granted of the blocks, and some properties      *)
(* depend on.                                                              *)
(***************************************************************************)
\* A block at a transition, and one that is not more than one block lower, have an
\* ancestor in common an interval below: forks are shorter than that.
ShallowForks ==
  \A b, c \in Block : AtTransition(b) /\ Height[c] + 1 >= Height[b] =>
    \E a \in Anc[b] \cap Anc[c] : Height[a] + Interval >= Height[b]

\* No branch leaves another one more than an interval below one of its transitions.
NoOldForks ==
  \A b \in Block : AtTransition(b) =>
    \A a \in Anc[b] : Height[a] + Interval < Height[b] =>
      \A c \in Block \ {Genesis} : Parent[c] = a => c \in Anc[b]

\* A branch holds a transaction once.
OncePerBranch == \A b \in Block : \A a, c \in Anc[b] : TxOf[a] \cap TxOf[c] # {} => a = c

\* The wallet's keys are not used before earliestKeyTime.
NoEarlyTx == \A b \in Early \cup Anc[StartCheckpoint] : TxOf[b] = {}

\* The wallet is younger than the last checkpoint: the download starts there.
LatestStart == \A c \in Checkpoint : Height[c] <= Height[StartCheckpoint]
=============================================================================

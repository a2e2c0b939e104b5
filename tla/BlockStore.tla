------------------------------ MODULE BlockStore ------------------------------
(***************************************************************************)
(* What Core Data persists of the chain and of the wallet's transactions,  *)
(* and what is left of it after a crash: BlockChain with the entities of   *)
(* the managed object context, the store on disk, and the context's queue. *)
(*                                                                         *)
(* Nothing is written where it is decided: the queue q (in a handler) and  *)
(* the main thread (when the app resigns active) submit blocks of code to  *)
(* the context's private queue, which runs them in order, later, and reads *)
(* the `blocks' dictionary when it does.  `calls' holds the calls that a   *)
(* thread has still to make, so that the others run in between.            *)
(*                                                                         *)
(* Saving the context and writing its parent to disk are one step here: a  *)
(* crash between the two loses what a crash before both does.              *)
(***************************************************************************)
EXTENDS BlockChain, Sequences

CONSTANTS
  MaxSaves,     \* bound: saves that are not those at the end of a download
  MaxRestarts,  \* bound: how often the app is killed, and started again
  MaxJobs       \* bound: the length of the context's queue

ASSUME StoreAssumption ==
  /\ MaxSaves \in Nat /\ MaxRestarts \in Nat /\ MaxJobs \in Nat \ {0}
  /\ None \notin Nat

Thread == {"q", "main"}

VARIABLES
  calls,       \* the Core Data calls each thread has still to make
  jobs,        \* the context's queue
  entities,    \* the BRMerkleBlockEntity objects, by blockHash
  hollow,      \* there is one whose blockHash is nil
  txEntities,  \* the blockHeight of each BRTransactionEntity, None where there is none
  hasChanges,  \* what the context says of itself
  disk,        \* the entities in the store
  txDisk,
  saves, restarts

storeVars == <<calls, jobs, entities, hollow, txEntities, hasChanges, disk, txDisk>>
countVars == <<saves, restarts>>
allVars == <<vars, storeVars, countVars>>

----------------------------------------------------------------------------
\* setBlockHeight:forTxHashes: stores the heights that changed, if any did.
HeightsCall ==
  LET changed == {t \in wallet : txHeight'[t] # txHeight[t]}
  IN  IF changed = {} THEN <<>>
      ELSE <<[kind |-> "heights", heights |-> [t \in changed |-> txHeight'[t]]]>>

SaveBlocksCall == <<[kind |-> "saveBlocks"], [kind |-> "saveContext"]>>

\* The download is over: the block is at the height the peer had at connection.
DownloadOver(p, it) == NewTip(p, it) /\ Height[it.block] = lastblock[p]

\* Mutant of HandlerCalls: the chain is saved before the heights of its transactions.
ChainFirst(p, it) == (IF DownloadOver(p, it) THEN SaveBlocksCall ELSE <<>>) \o HeightsCall

\* The Core Data calls of peer:relayedBlock:, in its order.
HandlerCalls(p, it) == HeightsCall \o (IF DownloadOver(p, it) THEN SaveBlocksCall ELSE <<>>)

\* A handler that runs on q, from a state in which the last one is done.
Handles(handler, made) ==
  /\ calls["q"] = <<>>
  /\ handler
  /\ calls' = [calls EXCEPT !["q"] = made]
  /\ UNCHANGED <<jobs, entities, hollow, txEntities, hasChanges, disk, txDisk, countVars>>

StoreReceiveBlock(p, it) == Handles(ReceiveBlock(p, it), HandlerCalls(p, it))

StoreConnectOrphan == Handles(ConnectOrphan, HandlerCalls(call.peer, call.item))

StoreRelayedTransaction(t) ==
  Handles(RelayedTransaction(t), <<[kind |-> "transaction", tx |-> t]>>)

StoreAcceptVersion(p, h) == AcceptVersion(p, h) /\ UNCHANGED <<storeVars, countVars>>

\* rescan, on the main thread.
StoreRescan ==
  /\ calls["main"] = <<>>
  /\ Rescan(entities) \/ RescanRaced(entities)
  /\ UNCHANGED <<storeVars, countVars>>

\* peer:relayedPeers: saves the peers, and with them the whole context.
RelayedPeers ==
  /\ saves < MaxSaves /\ saves' = saves + 1
  /\ calls["q"] = <<>> /\ call = None
  /\ calls' = [calls EXCEPT !["q"] = <<[kind |-> "savePeers"], [kind |-> "saveContext"]>>]
  /\ UNCHANGED <<vars, jobs, entities, hollow, txEntities, hasChanges, disk, txDisk, restarts>>

\* The app resigns active: the main thread saves, whatever q is doing.
ResignActive ==
  /\ saves < MaxSaves /\ saves' = saves + 1
  /\ calls["main"] = <<>>
  /\ calls' = [calls EXCEPT !["main"] = <<[kind |-> "savePeers"]>> \o SaveBlocksCall]
  /\ UNCHANGED <<vars, jobs, entities, hollow, txEntities, hasChanges, disk, txDisk, restarts>>

\* Mutants of BlockHashes: the loop goes one block too far, or it stops at the
\* latest transition and leaves that out.
PastTheEnd == Walk(lastBlock, blocks) \cup {None}
SinceTransition ==
  {b \in Walk(lastBlock, blocks) : Height[lastBlock] - Height[b] < Height[lastBlock] % Interval}

\* The blocks saveBlocks writes: those of the main chain, as it is when it is called.
BlockHashes == Walk(lastBlock, blocks)

\* What the next call of a thread adds to the context's queue.  saveContext does
\* nothing if the context has no changes: it asks at once, not on the queue.
Submitted(c) ==
  CASE c.kind = "saveBlocks" -> <<[kind |-> "writeBlocks", hashes |-> BlockHashes]>>
    [] c.kind = "saveContext" -> IF hasChanges THEN <<[kind |-> "save"]>> ELSE <<>>
    [] OTHER -> <<c>>

Submit(th) ==
  /\ calls[th] # <<>> /\ Len(jobs) < MaxJobs
  /\ jobs' = jobs \o Submitted(Head(calls[th]))
  /\ calls' = [calls EXCEPT ![th] = Tail(@)]
  /\ UNCHANGED <<vars, entities, hollow, txEntities, hasChanges, disk, txDisk, countVars>>

----------------------------------------------------------------------------
(***************************************************************************)
(* The context's queue.                                                    *)
(***************************************************************************)
Job(kind) == jobs # <<>> /\ Head(jobs).kind = kind

Done == jobs' = Tail(jobs) /\ UNCHANGED <<vars, calls, countVars>>

\* The entities become the blocks of those hashes, as the dictionary holds them
\* now; one that was freed since leaves an entity without attributes.
WriteBlocks ==
  /\ Job("writeBlocks")
  /\ LET hashes == Head(jobs).hashes
     IN  /\ entities' = [b \in Block |-> IF b \in hashes THEN blocks[b] ELSE "none"]
         /\ hollow' = (\E b \in hashes : blocks[b] = "none")
  /\ hasChanges' = TRUE
  /\ UNCHANGED <<txEntities, disk, txDisk>> /\ Done

\* registerTransaction: stores the transaction, as it is now.
WriteTransaction ==
  /\ Job("transaction")
  /\ LET t == Head(jobs).tx
     IN  IF txEntities[t] = None
         THEN txEntities' = [txEntities EXCEPT ![t] = txHeight[t]] /\ hasChanges' = TRUE
         ELSE UNCHANGED <<txEntities, hasChanges>>
  /\ UNCHANGED <<entities, hollow, disk, txDisk>> /\ Done

WriteHeights ==
  /\ Job("heights")
  /\ LET h == Head(jobs).heights
         stored == {t \in DOMAIN h : txEntities[t] # None}
     IN  /\ txEntities' = [t \in Tx |-> IF t \in stored THEN h[t] ELSE txEntities[t]]
         /\ hasChanges' = (hasChanges \/ stored # {})
  /\ UNCHANGED <<entities, hollow, disk, txDisk>> /\ Done

WritePeers ==
  /\ Job("savePeers")
  /\ hasChanges' = TRUE
  /\ UNCHANGED <<entities, hollow, txEntities, disk, txDisk>> /\ Done

\* blockHash is mandatory: the context is not saved while an entity has none.
SaveContext ==
  /\ Job("save")
  /\ IF hollow \/ ~hasChanges THEN UNCHANGED <<disk, txDisk, hasChanges>>
     ELSE disk' = entities /\ txDisk' = txEntities /\ hasChanges' = FALSE
  /\ UNCHANGED <<entities, hollow, txEntities>> /\ Done

\* The app is killed at any time, and starts from what is on disk.
Restart ==
  /\ restarts < MaxRestarts /\ restarts' = restarts + 1
  /\ blocks' = LoadedBlocks(disk)
  /\ lastBlock' = LoadedLastBlock(disk)
  /\ orphans' = [b \in Block |-> None] /\ lastOrphan' = None /\ call' = None
  /\ lastblock' = [p \in Peer |-> 0]
  /\ wallet' = {t \in Tx : txDisk[t] # None}
  /\ txHeight' = [t \in Tx |-> IF txDisk[t] = None THEN TX_UNCONFIRMED ELSE txDisk[t]]
  /\ calls' = [th \in Thread |-> <<>>] /\ jobs' = <<>>
  /\ entities' = disk /\ hollow' = FALSE /\ txEntities' = txDisk /\ hasChanges' = FALSE
  /\ UNCHANGED <<disk, txDisk, saves, rescans>>
  /\ misbehavin' \in {{}, misbehavin}

----------------------------------------------------------------------------
StoreInit ==
  /\ Init
  /\ calls = [th \in Thread |-> <<>>] /\ jobs = <<>>
  /\ entities = NoEntities /\ hollow = FALSE
  /\ txEntities = [t \in Tx |-> None] /\ hasChanges = FALSE
  /\ disk = NoEntities /\ txDisk = [t \in Tx |-> None]
  /\ saves = 0 /\ restarts = 0

StoreNext ==
  \/ \E p \in Peer, it \in Item : StoreReceiveBlock(p, it)
  \/ StoreConnectOrphan
  \/ \E t \in Tx : StoreRelayedTransaction(t)
  \/ \E p \in Peer, h \in LastblockClaims : StoreAcceptVersion(p, h)
  \/ StoreRescan
  \/ RelayedPeers \/ ResignActive
  \/ \E th \in Thread : Submit(th)
  \/ WriteBlocks \/ WriteTransaction \/ WriteHeights \/ WritePeers \/ SaveContext
  \/ Restart

StoreSpec == StoreInit /\ [][StoreNext]_allVars

----------------------------------------------------------------------------
\* The types of the store's variables.
StoreTypeOK ==
  /\ entities \in [Block -> Kind] /\ disk \in [Block -> Kind]
  /\ txEntities \in [Tx -> Nat \cup {None}] /\ txDisk \in [Tx -> Nat \cup {None}]
  /\ \A th \in Thread : \A i \in DOMAIN calls[th] :
       calls[th][i].kind \in {"saveBlocks", "saveContext", "savePeers", "heights", "transaction"}
  /\ \A i \in DOMAIN jobs :
       \/ jobs[i].kind \in {"save", "savePeers"}
       \/ jobs[i].kind = "writeBlocks" /\ jobs[i].hashes \subseteq Block
       \/ jobs[i].kind = "transaction" /\ jobs[i].tx \in wallet
       \/ jobs[i].kind = "heights" /\ DOMAIN jobs[i].heights \subseteq wallet
  /\ hollow \in BOOLEAN /\ hasChanges \in BOOLEAN

\* Whenever the app is killed, the chain it starts from reaches back to the latest
\* transition and respects the checkpoints: the download goes on from there.
StoredChainUsable ==
  LET bl == LoadedBlocks(disk)
      b == LoadedLastBlock(disk)
  IN  /\ AgreesWithCheckpoints(b)
      /\ \E a \in Walk(b, bl) : AtTransition(a) /\ Height[a] + Interval > Height[b]

\* A transaction of the chain on disk is confirmed on disk: its block would never
\* be asked for again.
StoredChainConfirmed ==
  \A b \in Walk(LoadedLastBlock(disk), LoadedBlocks(disk)) :
    \A t \in TxHashes(b, disk) : txDisk[t] = Height[b]

\* What the comment on saveContext says: it persists changes.  A write of the chain
\* that waits in the queue is followed by a save, unless saveContext is yet to come.
WritesAreSaved ==
  \A i \in DOMAIN jobs : jobs[i].kind = "writeBlocks" =>
    \/ \E th \in Thread : \E k \in DOMAIN calls[th] : calls[th][k].kind = "saveContext"
    \/ \E j \in i..Len(jobs) : jobs[j].kind = "save"
=============================================================================

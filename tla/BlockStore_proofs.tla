-------------------------- MODULE BlockStore_proofs --------------------------
(***************************************************************************)
(* Proofs about BlockStore: what is on disk, whenever the app is killed.   *)
(* They rest on BlockChain_proofs, whose lemmas are about one call of      *)
(* peer:relayedBlock:, for any tree of blocks.                             *)
(***************************************************************************)
EXTENDS BlockStore, BlockChain_proofs, SharedFacts

----------------------------------------------------------------------------
(***************************************************************************)
(* The types: what the threads have still to call, and what the context's  *)
(* queue holds.  The hashes that saveBlocks found are of one branch, and   *)
(* so are the entities and what is on disk; that is why there is a highest *)
(* one to reload.                                                          *)
(***************************************************************************)
TxHeights == UNION {[S -> Nat] : S \in SUBSET wallet}

Calls ==
  [kind : {"saveBlocks", "saveContext", "savePeers"}]
    \cup [kind : {"transaction"}, tx : wallet] \cup [kind : {"heights"}, heights : TxHeights]

OnBranch(S) == \E b \in Block : S \subseteq Anc[b]

Branches == {S \in SUBSET Block : OnBranch(S)}

Jobs ==
  [kind : {"save", "savePeers"}] \cup [kind : {"writeBlocks"}, hashes : Branches]
    \cup [kind : {"transaction"}, tx : wallet] \cup [kind : {"heights"}, heights : TxHeights]

StoredBlocks(stored) == {b \in Block : stored[b] # "none"}

StoreTypes ==
  /\ TypeOK
  /\ entities \in [Block -> Kind] /\ disk \in [Block -> Kind]
  /\ OnBranch(StoredBlocks(entities)) /\ OnBranch(StoredBlocks(disk))
  /\ txEntities \in [Tx -> Nat \cup {None}] /\ txDisk \in [Tx -> Nat \cup {None}]
  /\ calls \in [Thread -> Seq(Calls)] /\ jobs \in Seq(Jobs)
  /\ hollow \in BOOLEAN /\ hasChanges \in BOOLEAN

\* No transaction is forgotten but in a restart.
LEMMA SetsGrow ==
  ASSUME StoreTypes, wallet \subseteq wallet'
  PROVE  /\ calls \in [Thread -> Seq(Calls')] /\ jobs \in Seq(Jobs')
<1>1. TxHeights \subseteq TxHeights'
  BY DEF TxHeights
<1>2. Calls \subseteq Calls' /\ Jobs \subseteq Jobs'
  BY <1>1 DEF Calls, Jobs
<1>3. jobs \in Seq(Jobs')
  BY <1>2, SeqMonotonic DEF StoreTypes
<1>4. \A th \in Thread : calls[th] \in Seq(Calls')
  BY <1>2, SeqMonotonic DEF StoreTypes
<1> QED
  BY <1>3, <1>4 DEF StoreTypes

\* The highest stored block is the lastBlock that is reloaded.
LEMMA LoadedLastBlockFacts ==
  ASSUME NEW stored, OnBranch(StoredBlocks(stored))
  PROVE  /\ StoredBlocks(stored) = {} => LoadedLastBlock(stored) = StartCheckpoint
         /\ StoredBlocks(stored) # {} =>
              /\ LoadedLastBlock(stored) \in StoredBlocks(stored)
              /\ \A c \in StoredBlocks(stored) : Height[c] <= Height[LoadedLastBlock(stored)]
         /\ LoadedLastBlock(stored) \in Block
<1> DEFINE S == StoredBlocks(stored)
           H == {Height[c] : c \in S}
<1>1. LoadedLastBlock(stored) =
        IF S = {} THEN StartCheckpoint ELSE CHOOSE b \in S : \A c \in S : Height[c] <= Height[b]
  BY DEF LoadedLastBlock, StoredBlocks
<1>2. S \subseteq Block /\ StartCheckpoint \in Block
  BY CheckpointAssumption, TreeAssumption DEF StoredBlocks
<1> HIDE DEF S
<1>3. ASSUME S # {}
      PROVE  \E b \in S : \A c \in S : Height[c] <= Height[b]
  <2>1. PICK top \in Block : S \subseteq Anc[top]
    BY DEF OnBranch, S
  <2>2. H \in SUBSET Nat /\ H # {} /\ Height[top] \in Nat
    BY <1>2, <1>3, TreeAssumption
  <2>3. \A h \in H : h <= Height[top]
    BY <2>1, BranchAssumption
  <2> HIDE DEF H
  <2>4. PICK m \in H : \A h \in H : h <= m
    BY <2>2, <2>3, GreatestOf
  <2> QED
    BY <2>4 DEF H
<1>4. S # {} => /\ LoadedLastBlock(stored) \in S
                /\ \A c \in S : Height[c] <= Height[LoadedLastBlock(stored)]
  BY <1>1, <1>3
<1> QED
  BY <1>1, <1>2, <1>4 DEF S

LEMMA LoadedBlocksType ==
  ASSUME NEW stored \in [Block -> Kind]
  PROVE  LoadedBlocks(stored) \in [Block -> Kind]
  BY DEF LoadedBlocks, Kind

----------------------------------------------------------------------------
\* What peer:relayedBlock: has Core Data do.
LEMMA RelayedBlockWallet ==
  ASSUME NEW p \in Peer, NEW it \in Item, RelayedBlock(p, it)
  PROVE  wallet' = wallet /\ rescans' = rescans
  BY DEF RelayedBlock, IgnoreHeader, ReceiveOrphan, RejectBlock, ExtendChain, ReplaceBlock,
         IgnoreOldFork, PostponeFork, StoreFork, Reorganize, walletVars

LEMMA HandlerCallsType ==
  ASSUME TypeOK, NEW p \in Peer, NEW it \in Item, RelayedBlock(p, it)
  PROVE  HandlerCalls(p, it) \in Seq(Calls')
<1>1. txHeight' \in [Tx -> Nat] /\ wallet' = wallet /\ wallet \subseteq Tx
  BY RelayedBlockType, RelayedBlockWallet DEF TypeOK
<1>2. HeightsCall \in Seq(Calls')
  <2> DEFINE changed == {t \in wallet : txHeight'[t] # txHeight[t]}
             h == [t \in changed |-> txHeight'[t]]
  <2>1. h \in TxHeights'
    <3>1. changed \in SUBSET wallet' /\ \A t \in changed : txHeight'[t] \in Nat
      BY <1>1
    <3> HIDE DEF changed
    <3>2. h \in [changed -> Nat]
      BY <3>1
    <3> HIDE DEF h
    <3> QED
      BY <3>1, <3>2, Zenon DEF TxHeights
  <2>2. HeightsCall = IF changed = {} THEN <<>> ELSE <<[kind |-> "heights", heights |-> h]>>
    BY Zenon DEF HeightsCall
  <2> HIDE DEF h, changed
  <2>3. [kind |-> "heights", heights |-> h] \in Calls'
    BY <2>1 DEF Calls
  <2>4. <<>> \in Seq(Calls') /\ <<[kind |-> "heights", heights |-> h]>> \in Seq(Calls')
    BY <2>3
  <2> QED
    BY <2>2, <2>4
<1>3. SaveBlocksCall \in Seq(Calls') /\ <<>> \in Seq(Calls')
  BY DEF SaveBlocksCall, Calls
<1> HIDE DEF SaveBlocksCall, HeightsCall
<1>4. HandlerCalls(p, it) = HeightsCall \o (IF DownloadOver(p, it) THEN SaveBlocksCall ELSE <<>>)
  BY DEF HandlerCalls
<1> QED
  BY <1>2, <1>3, <1>4

\* A handler on q leaves everything but its calls as it was.
LEMMA HandlesTypes ==
  ASSUME StoreTypes, NEW handler, NEW made, Handles(handler, made), TypeOK',
         wallet \subseteq wallet', made \in Seq(Calls')
  PROVE  StoreTypes'
<1>1. /\ calls' = [calls EXCEPT !["q"] = made]
      /\ UNCHANGED <<jobs, entities, hollow, txEntities, hasChanges, disk, txDisk, countVars>>
  BY DEF Handles
<1>2. calls \in [Thread -> Seq(Calls')] /\ jobs \in Seq(Jobs')
  BY SetsGrow
<1>3. calls' \in [Thread -> Seq(Calls')]
  BY <1>1, <1>2
<1> QED
  BY <1>1, <1>2, <1>3 DEF StoreTypes, OnBranch, StoredBlocks

LEMMA RelayedBlockStoreTypes ==
  ASSUME StoreTypes, NEW p \in Peer, NEW it \in Item, NEW handler,
         handler => RelayedBlock(p, it), Handles(handler, HandlerCalls(p, it))
  PROVE  StoreTypes'
<1>1. RelayedBlock(p, it) /\ TypeOK
  BY DEF Handles, StoreTypes
<1>2. TypeOK' /\ wallet \subseteq wallet' /\ HandlerCalls(p, it) \in Seq(Calls')
  BY <1>1, RelayedBlockType, RelayedBlockWallet, HandlerCallsType
<1> QED
  BY <1>2, HandlesTypes

\* saveBlocks is given blocks of one branch.
LEMMA BlockHashesFacts ==
  ASSUME TypeOK
  PROVE  BlockHashes \in Branches
<1>1. lastBlock \in Block /\ lastBlock \in Anc[lastBlock]
  BY TreeAssumption DEF TypeOK
<1>2. BlockHashes \subseteq Anc[lastBlock]
  BY <1>1 DEF BlockHashes, Walk
<1> QED
  BY <1>1, <1>2, WalkInBlock DEF BlockHashes, Branches, OnBranch

\* A call adds one block of code to the context's queue, or none.
LEMMA SubmittedFacts ==
  ASSUME StoreTypes, NEW c \in Calls
  PROVE  \/ Submitted(c) = <<>>
         \/ \E job \in Jobs : /\ Submitted(c) = <<job>>
                              /\ job.kind = "writeBlocks" => job.hashes = BlockHashes
<1>1. CASE c.kind = "saveBlocks"
  <2>1. [kind |-> "writeBlocks", hashes |-> BlockHashes] \in Jobs
    BY BlockHashesFacts DEF StoreTypes, Jobs
  <2> QED
    BY <1>1, <2>1 DEF Submitted
<1>2. CASE c.kind = "saveContext"
  <2>1. [kind |-> "save"] \in Jobs
    BY DEF Jobs
  <2> QED
    BY <1>2, <2>1 DEF Submitted
<1>3. CASE c.kind # "saveBlocks" /\ c.kind # "saveContext"
  <2>1. Submitted(c) = <<c>>
    BY <1>3 DEF Submitted
  <2>2. c \in Jobs /\ c.kind # "writeBlocks"
    BY <1>3 DEF Calls, Jobs
  <2> QED
    BY <2>1, <2>2
<1> QED
  BY <1>1, <1>2, <1>3

LEMMA SubmitFacts ==
  ASSUME StoreTypes, NEW th \in Thread, Submit(th)
  PROVE  /\ \/ jobs' = jobs
            \/ \E job \in Jobs : /\ jobs' = Append(jobs, job)
                                 /\ job.kind = "writeBlocks" => job.hashes = BlockHashes
         /\ calls' \in [Thread -> Seq(Calls)]
<1>1. calls \in [Thread -> Seq(Calls)] /\ jobs \in Seq(Jobs)
  BY DEF StoreTypes
<1>2. /\ calls[th] # <<>> /\ jobs' = jobs \o Submitted(Head(calls[th]))
      /\ calls' = [calls EXCEPT ![th] = Tail(@)]
  BY DEF Submit
<1>3. Head(calls[th]) \in Calls /\ Tail(calls[th]) \in Seq(Calls)
  BY <1>1, <1>2, TailFacts
<1>4. CASE Submitted(Head(calls[th])) = <<>>
  BY <1>1, <1>2, <1>4
<1>5. ASSUME NEW job \in Jobs, Submitted(Head(calls[th])) = <<job>>
      PROVE  jobs' = Append(jobs, job)
  <2>1. jobs' = jobs \o <<job>>
    BY <1>2, <1>5
  <2> QED
    BY <1>1, <2>1
<1>6. calls' \in [Thread -> Seq(Calls)]
  BY <1>1, <1>2, <1>3
<1> QED
  BY <1>3, <1>4, <1>5, <1>6, SubmittedFacts

\* The jobs of the context's queue, by kind.
LEMMA JobFacts ==
  ASSUME StoreTypes, NEW kind, Job(kind), Done
  PROVE  /\ jobs # <<>> /\ Head(jobs) \in Jobs /\ Head(jobs).kind = kind
         /\ jobs' = Tail(jobs) /\ jobs' \in Seq(Jobs)
         /\ kind = "writeBlocks" => Head(jobs).hashes \in Branches
         /\ kind = "transaction" => Head(jobs).tx \in wallet
         /\ kind = "heights" => Head(jobs).heights \in TxHeights
<1>1. jobs # <<>> /\ Head(jobs).kind = kind /\ jobs' = Tail(jobs) /\ jobs \in Seq(Jobs)
  BY DEF Job, Done, StoreTypes
<1>2. Head(jobs) \in Jobs /\ jobs' \in Seq(Jobs)
  BY <1>1, TailFacts
<1> QED
  BY <1>1, <1>2 DEF Jobs

LEMMA StoreInitTypes == StoreInit => StoreTypes
<1> SUFFICES ASSUME StoreInit PROVE StoreTypes
  OBVIOUS
<1>1. TypeOK
  BY InitType DEF StoreInit
<1>2. entities \in [Block -> Kind] /\ disk \in [Block -> Kind]
  BY DEF StoreInit, NoEntities, Kind
<1>3. OnBranch(StoredBlocks(entities)) /\ OnBranch(StoredBlocks(disk))
  BY TreeAssumption DEF StoreInit, NoEntities, OnBranch, StoredBlocks
<1>4. calls \in [Thread -> Seq(Calls)] /\ jobs \in Seq(Jobs)
  BY DEF StoreInit
<1> QED
  BY <1>1, <1>2, <1>3, <1>4 DEF StoreInit, StoreTypes

\* A step of peers or of the user, on the main thread, that makes no call.
LEMMA UnstoredTypes ==
  ASSUME StoreTypes, TypeOK', UNCHANGED <<wallet, storeVars, countVars>>
  PROVE  StoreTypes'
<1>1. calls' \in [Thread -> Seq(Calls')] /\ jobs' \in Seq(Jobs')
  BY SetsGrow DEF storeVars
<1> QED
  BY <1>1 DEF StoreTypes, storeVars, OnBranch, StoredBlocks

LEMMA RescanTargetFacts ==
  ASSUME StoreTypes, Rescan(entities) \/ RescanRaced(entities)
  PROVE  \E b \in Block : /\ GoBackTo(b)
                          /\ b \in Checkpoint \cup {Genesis} \/ b \in StoredBlocks(entities)
<1>1. OnBranch(StoredBlocks(entities))
  BY DEF StoreTypes
<1>2. /\ LoadedLastBlock(entities) \in Block
      /\ LoadedLastBlock(entities) \in Checkpoint \cup {Genesis} \cup StoredBlocks(entities)
  BY <1>1, LoadedLastBlockFacts, CheckpointAssumption
<1>3. RescanStart(entities) \in Checkpoint \cup {Genesis} \cup StoredBlocks(entities)
  BY <1>2, RescanStartFacts
<1>4. RescanStart(entities) \in Block
  BY <1>3, CheckpointAssumption, TreeAssumption DEF StoredBlocks
<1> QED
  BY <1>2, <1>3, <1>4 DEF Rescan, RescanRaced

\* The context's queue works, and a save writes the entities to disk.
LEMMA QueueTypes ==
  ASSUME StoreTypes, WriteBlocks \/ WriteTransaction \/ WriteHeights \/ WritePeers \/ SaveContext
  PROVE  StoreTypes'
<1> USE DEF StoreTypes
<1>1. /\ TypeOK' /\ wallet' = wallet /\ calls' \in [Thread -> Seq(Calls')]
      /\ UNCHANGED <<vars, calls>> /\ Jobs' = Jobs
  <2>1. Done
    BY DEF WriteBlocks, WriteTransaction, WriteHeights, WritePeers, SaveContext
  <2>2. UNCHANGED vars /\ calls' = calls
    BY <2>1 DEF Done
  <2>3. wallet' = wallet /\ TypeOK'
    BY <2>2 DEF vars, chainVars, walletVars, TypeOK
  <2>4. TxHeights' = TxHeights
    BY <2>3 DEF TxHeights
  <2> QED
    BY <2>2, <2>3, <2>4 DEF Calls, Jobs
<1>2. CASE WriteBlocks
  <2>1. Head(jobs).hashes \in Branches /\ jobs' \in Seq(Jobs)
    BY <1>2, JobFacts DEF WriteBlocks
  <2>2. entities' = [b \in Block |-> IF b \in Head(jobs).hashes THEN blocks[b] ELSE "none"]
    BY <1>2 DEF WriteBlocks
  <2>3. entities' \in [Block -> Kind]
    BY <2>2 DEF TypeOK, Kind
  <2>4. StoredBlocks(entities') \subseteq Head(jobs).hashes
    BY <2>2 DEF StoredBlocks
  <2>5. OnBranch(StoredBlocks(entities'))
    BY <2>1, <2>4 DEF Branches, OnBranch
  <2>6. hollow' \in BOOLEAN /\ hasChanges' \in BOOLEAN /\ UNCHANGED <<txEntities, disk, txDisk>>
    <3>1. hollow' = (\E b \in Head(jobs).hashes : blocks[b] = "none")
      BY <1>2 DEF WriteBlocks
    <3> QED
      BY <1>2, <3>1 DEF WriteBlocks
  <2> QED
    BY <1>1, <2>1, <2>3, <2>5, <2>6 DEF OnBranch, StoredBlocks
<1>3. CASE WriteTransaction
  <2>1. Head(jobs).tx \in wallet /\ jobs' \in Seq(Jobs)
    BY <1>3, JobFacts DEF WriteTransaction
  <2>2. txHeight[Head(jobs).tx] \in Nat
    BY <2>1 DEF TypeOK
  <2>3. txEntities' \in [Tx -> Nat \cup {None}] /\ hasChanges' \in BOOLEAN
    BY <1>3, <2>2 DEF WriteTransaction
  <2> QED
    BY <1>1, <1>3, <2>1, <2>3 DEF WriteTransaction, OnBranch, StoredBlocks
<1>4. CASE WriteHeights
  <2> DEFINE h == Head(jobs).heights
             stored == {t \in DOMAIN h : txEntities[t] # None}
  <2>1. h \in TxHeights /\ jobs' \in Seq(Jobs)
    BY <1>4, JobFacts DEF WriteHeights
  <2>2. PICK S \in SUBSET wallet : h \in [S -> Nat]
    BY <2>1 DEF TxHeights
  <2>3. /\ txEntities' = [t \in Tx |-> IF t \in stored THEN h[t] ELSE txEntities[t]]
        /\ hasChanges' = (hasChanges \/ stored # {})
    BY <1>4 DEF WriteHeights
  <2>4. \A t \in stored : h[t] \in Nat
    BY <2>2
  <2> HIDE DEF stored
  <2>5. txEntities' \in [Tx -> Nat \cup {None}]
    BY <2>3, <2>4
  <2>6. hasChanges' \in BOOLEAN
    BY <2>3
  <2> QED
    BY <1>1, <1>4, <2>1, <2>5, <2>6 DEF WriteHeights, OnBranch, StoredBlocks
<1>5. CASE WritePeers
  <2>1. jobs' \in Seq(Jobs)
    BY <1>5, JobFacts DEF WritePeers
  <2> QED
    BY <1>1, <1>5, <2>1 DEF WritePeers, OnBranch, StoredBlocks
<1>6. CASE SaveContext
  <2>1. jobs' \in Seq(Jobs)
    BY <1>6, JobFacts DEF SaveContext
  <2> QED
    BY <1>1, <1>6, <2>1 DEF SaveContext, OnBranch, StoredBlocks
<1> QED
  BY <1>2, <1>3, <1>4, <1>5, <1>6

LEMMA RestartTypes ==
  ASSUME StoreTypes, Restart
  PROVE  StoreTypes'
<1> USE DEF StoreTypes
<1>1. blocks' \in [Block -> Kind]
  BY LoadedBlocksType DEF Restart
<1>2. lastBlock' \in Block
  BY LoadedLastBlockFacts DEF Restart
<1>3. txHeight' \in [Tx -> Nat]
  BY UnconfirmedIsNat DEF Restart
<1>4. TypeOK'
  <2>1. /\ orphans' \in [Block -> Item \cup {None}] /\ lastOrphan' \in Block \cup {None}
        /\ call' \in [peer : Peer, item : Item] \cup {None} /\ lastblock' \in [Peer -> Nat]
        /\ misbehavin' \subseteq Peer /\ wallet' \subseteq Tx /\ rescans' \in Nat
    BY DEF Restart, TypeOK
  <2> QED
    BY <1>1, <1>2, <1>3, <2>1 DEF TypeOK
<1>5. calls' \in [Thread -> Seq(Calls')] /\ jobs' \in Seq(Jobs')
  BY DEF Restart
<1>6. /\ entities' = disk /\ hollow' = FALSE /\ txEntities' = txDisk /\ hasChanges' = FALSE
      /\ disk' = disk /\ txDisk' = txDisk
  BY DEF Restart
<1> QED
  BY <1>4, <1>5, <1>6 DEF OnBranch, StoredBlocks

LEMMA SubmitTypes ==
  ASSUME StoreTypes, NEW th \in Thread, Submit(th)
  PROVE  StoreTypes'
<1>1. calls' \in [Thread -> Seq(Calls)] /\ jobs' \in Seq(Jobs)
  <2>1. jobs \in Seq(Jobs)
    BY DEF StoreTypes
  <2>2. \A job \in Jobs : Append(jobs, job) \in Seq(Jobs)
    BY <2>1
  <2> QED
    BY <2>1, <2>2, SubmitFacts
<1>2. UNCHANGED <<vars, entities, hollow, txEntities, hasChanges, disk, txDisk>>
  BY DEF Submit
<1>3. wallet' = wallet /\ TypeOK'
  BY <1>2 DEF vars, chainVars, walletVars, TypeOK, StoreTypes
<1>4. Calls' = Calls /\ Jobs' = Jobs
  <2>1. TxHeights' = TxHeights
    BY <1>3 DEF TxHeights
  <2> QED
    BY <1>3, <2>1 DEF Calls, Jobs
<1> QED
  BY <1>1, <1>2, <1>3, <1>4 DEF StoreTypes, OnBranch, StoredBlocks

\* A save that the manager asks for: savePeers and saveContext, and saveBlocks when the
\* app resigns active.
LEMMA SaveCallsTypes ==
  ASSUME StoreTypes, RelayedPeers \/ ResignActive
  PROVE  StoreTypes'
<1>1. /\ UNCHANGED <<vars, jobs, entities, hollow, txEntities, hasChanges, disk, txDisk>>
      /\ \E th \in Thread, made \in Seq(Calls) : calls' = [calls EXCEPT ![th] = made]
  <2>1. CASE RelayedPeers
    <3>1. <<[kind |-> "savePeers"], [kind |-> "saveContext"]>> \in Seq(Calls)
      BY DEF Calls
    <3> QED
      BY <2>1, <3>1 DEF RelayedPeers, Thread
  <2>2. CASE ResignActive
    <3>1. <<[kind |-> "savePeers"]>> \o SaveBlocksCall \in Seq(Calls)
      BY DEF Calls, SaveBlocksCall
    <3> QED
      BY <2>2, <3>1 DEF ResignActive, Thread
  <2> QED
    BY <2>1, <2>2
<1>2. calls' \in [Thread -> Seq(Calls)]
  BY <1>1 DEF StoreTypes
<1>3. wallet' = wallet /\ TypeOK'
  BY <1>1 DEF vars, chainVars, walletVars, TypeOK, StoreTypes
<1>4. Calls' = Calls /\ Jobs' = Jobs
  <2>1. TxHeights' = TxHeights
    BY <1>3 DEF TxHeights
  <2> QED
    BY <1>3, <2>1 DEF Calls, Jobs
<1> QED
  BY <1>1, <1>2, <1>3, <1>4 DEF StoreTypes, OnBranch, StoredBlocks

LEMMA StoreNextTypes == StoreTypes /\ [StoreNext]_allVars => StoreTypes'
<1> SUFFICES ASSUME StoreTypes, [StoreNext]_allVars PROVE StoreTypes'
  OBVIOUS
<1>1. ASSUME NEW p \in Peer, NEW it \in Item, StoreReceiveBlock(p, it) PROVE StoreTypes'
  BY <1>1, RelayedBlockStoreTypes DEF StoreReceiveBlock, ReceiveBlock
<1>2. CASE StoreConnectOrphan
  <2>1. ConnectOrphan
    BY <1>2 DEF StoreConnectOrphan, Handles
  <2>2. call.peer \in Peer /\ call.item \in Item
    BY <2>1 DEF ConnectOrphan, StoreTypes, TypeOK
  <2> QED
    BY <1>2, <2>2, RelayedBlockStoreTypes DEF StoreConnectOrphan, ConnectOrphan
<1>3. ASSUME NEW t \in Tx, StoreRelayedTransaction(t) PROVE StoreTypes'
  <2>1. RelayedTransaction(t) /\ TypeOK
    BY <1>3 DEF StoreRelayedTransaction, Handles, StoreTypes
  <2>2. TypeOK' /\ wallet \subseteq wallet' /\ t \in wallet'
    BY <2>1, RelayedTransactionType DEF RelayedTransaction
  <2>3. <<[kind |-> "transaction", tx |-> t]>> \in Seq(Calls')
    BY <2>2 DEF Calls
  <2> QED
    BY <1>3, <2>2, <2>3, HandlesTypes DEF StoreRelayedTransaction
<1>4. ASSUME NEW p \in Peer, NEW h \in LastblockClaims, StoreAcceptVersion(p, h)
      PROVE  StoreTypes'
  <2>1. TypeOK' /\ wallet' = wallet
    BY <1>4, AcceptVersionType DEF StoreAcceptVersion, StoreTypes, AcceptVersion, walletVars
  <2> QED
    BY <1>4, <2>1, UnstoredTypes DEF StoreAcceptVersion
<1>5. CASE StoreRescan
  <2>1. PICK b \in Block : GoBackTo(b)
    BY <1>5, RescanTargetFacts DEF StoreRescan
  <2>2. TypeOK' /\ wallet' = wallet
    BY <2>1, GoBackToType DEF GoBackTo, StoreTypes, walletVars
  <2> QED
    BY <1>5, <2>2, UnstoredTypes DEF StoreRescan
<1>6. CASE RelayedPeers \/ ResignActive
  BY <1>6, SaveCallsTypes
<1>7. ASSUME NEW th \in Thread, Submit(th) PROVE StoreTypes'
  BY <1>7, SubmitTypes
<1>8. CASE WriteBlocks \/ WriteTransaction \/ WriteHeights \/ WritePeers \/ SaveContext
  BY <1>8, QueueTypes
<1>9. CASE Restart
  BY <1>9, RestartTypes
<1>10. CASE UNCHANGED allVars
  <2>1. UNCHANGED <<vars, storeVars, countVars>>
    BY <1>10 DEF allVars
  <2>2. wallet' = wallet /\ TypeOK'
    BY <2>1 DEF vars, chainVars, walletVars, TypeOK, StoreTypes
  <2> QED
    BY <2>1, <2>2, UnstoredTypes
<1> QED
  BY <1>1, <1>2, <1>3, <1>4, <1>5, <1>6, <1>7, <1>8, <1>9, <1>10 DEF StoreNext

LEMMA StoreTyped == StoreSpec => []StoreTypes
  BY StoreInitTypes, StoreNextTypes, PTL DEF StoreSpec

\* What the threads call and what waits in the context's queue is of the wallet's
\* transactions and of the tree's blocks, through any number of restarts.
THEOREM StoreTypeCorrect == StoreSpec => []StoreTypeOK
<1>1. ASSUME StoreTypes PROVE StoreTypeOK
  <2>1. ASSUME NEW th \in Thread, NEW i \in DOMAIN calls[th]
        PROVE  calls[th][i].kind \in
                 {"saveBlocks", "saveContext", "savePeers", "heights", "transaction"}
    <3>1. calls[th][i] \in Calls
      BY <1>1, IndexFacts DEF StoreTypes
    <3> QED
      BY <3>1 DEF Calls
  <2>2. ASSUME NEW i \in DOMAIN jobs
        PROVE  \/ jobs[i].kind \in {"save", "savePeers"}
               \/ jobs[i].kind = "writeBlocks" /\ jobs[i].hashes \subseteq Block
               \/ jobs[i].kind = "transaction" /\ jobs[i].tx \in wallet
               \/ jobs[i].kind = "heights" /\ DOMAIN jobs[i].heights \subseteq wallet
    <3>1. jobs[i] \in Jobs
      BY <1>1, IndexFacts DEF StoreTypes
    <3>2. \A h \in TxHeights : DOMAIN h \subseteq wallet
      BY DEF TxHeights
    <3> QED
      BY <3>1, <3>2 DEF Jobs, Branches
  <2> QED
    BY <1>1, <2>1, <2>2 DEF StoreTypes, StoreTypeOK
<1> QED
  BY <1>1, StoreTyped, PTL

----------------------------------------------------------------------------
(***************************************************************************)
(* Nothing that contradicts a checkpoint is stored, nor reloaded.          *)
(***************************************************************************)
StoredAgree ==
  /\ CheckpointsRespected
  /\ \A b \in Block : entities[b] # "none" \/ disk[b] # "none" => AgreesWithCheckpoints(b)

LEMMA GoBackToAgrees ==
  ASSUME StoredAgree, NEW b \in Block, GoBackTo(b),
         b \in Checkpoint \cup {Genesis} \/ b \in StoredBlocks(entities)
  PROVE  CheckpointsRespected'
<1>1. AgreesWithCheckpoints(b)
  BY StartAgrees DEF StoredAgree, StoredBlocks
<1> QED
  BY <1>1 DEF GoBackTo, StoredAgree, CheckpointsRespected, AgreesWithCheckpoints

LEMMA RestartAgrees ==
  ASSUME StoreTypes, StoredAgree, Restart
  PROVE  CheckpointsRespected'
<1>1. blocks' = LoadedBlocks(disk) /\ lastBlock' = LoadedLastBlock(disk)
  BY DEF Restart
<1>2. \A b \in Block : blocks'[b] # "none" => disk[b] # "none" \/ b \in Checkpoint \cup {Genesis}
  BY <1>1 DEF LoadedBlocks
<1>3. lastBlock' \in StoredBlocks(disk) \cup Checkpoint \cup {Genesis}
  BY <1>1, LoadedLastBlockFacts, CheckpointAssumption DEF StoreTypes
<1>4. \A b \in StoredBlocks(disk) \cup Checkpoint \cup {Genesis} : AgreesWithCheckpoints(b)
  BY StartAgrees DEF StoredAgree, StoredBlocks
<1> QED
  BY <1>2, <1>3, <1>4 DEF CheckpointsRespected, AgreesWithCheckpoints, StoredBlocks

LEMMA StoreNextAgrees == StoreTypes /\ StoredAgree /\ [StoreNext]_allVars => StoredAgree'
<1> SUFFICES ASSUME StoreTypes, StoredAgree, [StoreNext]_allVars PROVE StoredAgree'
  OBVIOUS
<1> USE DEF AgreesWithCheckpoints
<1>1. ASSUME NEW p \in Peer, NEW it \in Item, RelayedBlock(p, it), UNCHANGED <<entities, disk>>
      PROVE  StoredAgree'
  BY <1>1, RelayedBlockAgrees DEF StoreTypes, StoredAgree
<1>2. ASSUME NEW p \in Peer, NEW it \in Item, StoreReceiveBlock(p, it) PROVE StoredAgree'
  BY <1>1, <1>2 DEF StoreReceiveBlock, Handles, ReceiveBlock
<1>3. CASE StoreConnectOrphan
  <2>1. ConnectOrphan /\ UNCHANGED <<entities, disk>>
    BY <1>3 DEF StoreConnectOrphan, Handles
  <2>2. call.peer \in Peer /\ call.item \in Item
    BY <2>1 DEF ConnectOrphan, StoreTypes, TypeOK
  <2> QED
    BY <1>1, <2>1, <2>2 DEF ConnectOrphan
<1>4. CASE UNCHANGED <<blocks, lastBlock, entities, disk>>
  BY <1>4 DEF StoredAgree, CheckpointsRespected
<1>5. CASE StoreRescan
  <2>1. CheckpointsRespected' /\ UNCHANGED <<entities, disk>>
    BY <1>5, RescanTargetFacts, GoBackToAgrees DEF StoreRescan, storeVars
  <2> QED
    BY <2>1 DEF StoredAgree
<1>6. CASE WriteBlocks
  <2>1. /\ UNCHANGED <<blocks, lastBlock, disk>>
        /\ \A b \in Block : entities'[b] # "none" => blocks[b] # "none"
    BY <1>6 DEF WriteBlocks, Done, vars, chainVars
  <2> QED
    BY <2>1 DEF StoredAgree, CheckpointsRespected
<1>7. CASE SaveContext
  <2>1. UNCHANGED <<blocks, lastBlock, entities>> /\ (disk' = disk \/ disk' = entities)
    BY <1>7 DEF SaveContext, Done, vars, chainVars
  <2> QED
    BY <2>1 DEF StoredAgree, CheckpointsRespected
<1>8. CASE Restart
  <2>1. CheckpointsRespected' /\ entities' = disk /\ disk' = disk
    BY <1>8, RestartAgrees DEF Restart
  <2> QED
    BY <2>1 DEF StoredAgree
<1> QED
  BY <1>2, <1>3, <1>4, <1>5, <1>6, <1>7, <1>8
  DEF StoreNext, StoreRelayedTransaction, RelayedTransaction, StoreAcceptVersion, AcceptVersion,
      Handles, RelayedPeers, ResignActive, Submit, WriteTransaction, WriteHeights, WritePeers, Done,
      allVars, vars, chainVars, storeVars

\* No block of a branch that contradicts a checkpoint is kept, followed or stored,
\* through rescans from what is stored and restarts at any time.
THEOREM StoredChainRespectsCheckpoints == StoreSpec => []CheckpointsRespected
<1>1. StoreInit => StoredAgree
  BY InitAgrees DEF StoreInit, StoredAgree, NoEntities
<1>2. StoredAgree => CheckpointsRespected
  BY DEF StoredAgree
<1> QED
  BY <1>1, <1>2, StoreNextAgrees, StoreTyped, PTL DEF StoreSpec

----------------------------------------------------------------------------
(***************************************************************************)
(* What is on disk, until the user rescans: the end of one branch, from    *)
(* its latest transition on.  saveBlocks finds that much by walking back,  *)
(* since the chain is Extendable; the blocks it found may be freed before  *)
(* they are written, but then an entity has no blockHash and the context   *)
(* is not saved (hollow) until saveBlocks has written others.              *)
(***************************************************************************)
BranchEnd(S) ==
  \E b \in S :
    /\ S \subseteq Anc[b]
    /\ \E a \in S : Height[a] = Transition(Height[b])
    /\ \A a \in Anc[b] : Height[a] >= Transition(Height[b]) => a \in S

Loadable(stored) ==
  /\ StoredBlocks(stored) = {} \/ BranchEnd(StoredBlocks(stored))
  /\ \A b \in Block : stored[b] = "bare" => AtTransition(b)

KeptEntities ==
  /\ Loadable(disk)
  /\ hollow \/ Loadable(entities)
  /\ \A i \in DOMAIN jobs : jobs[i].kind = "writeBlocks" => BranchEnd(jobs[i].hashes)

UsableUntilRescan == rescans = 0 => Extendable /\ KeptEntities

\* The branch whose end is stored is the one that is reloaded.
LEMMA ReloadedBranch ==
  ASSUME NEW stored, BranchEnd(StoredBlocks(stored)), NEW b, b = LoadedLastBlock(stored)
  PROVE  /\ b \in StoredBlocks(stored) /\ b \in Block /\ Height[b] \in Nat
         /\ StoredBlocks(stored) \subseteq Anc[b]
         /\ \E a \in StoredBlocks(stored) : Height[a] = Transition(Height[b])
         /\ \A a \in Anc[b] : Height[a] >= Transition(Height[b]) => stored[a] # "none"
<1> DEFINE S == StoredBlocks(stored)
<1>1. S \subseteq Block
  BY DEF StoredBlocks
<1>2. PICK top \in S : /\ S \subseteq Anc[top]
                       /\ \E a \in S : Height[a] = Transition(Height[top])
                       /\ \A a \in Anc[top] : Height[a] >= Transition(Height[top]) => a \in S
  BY DEF BranchEnd
<1>3. OnBranch(S)
  BY <1>1, <1>2 DEF OnBranch
<1>4. b \in S /\ \A c \in S : Height[c] <= Height[b]
  BY <1>2, <1>3, LoadedLastBlockFacts
<1>5. b = top
  <2>1. top \in Block /\ Height[top] <= Height[b] /\ b \in Anc[top] /\ top \in Anc[top]
    BY <1>1, <1>2, <1>4
  <2>2. Height[b] <= Height[top] /\ Height[b] \in Nat /\ Height[top] \in Nat
    BY <1>1, <1>4, <2>1, BranchAssumption, TreeAssumption
  <2> QED
    BY <2>1, <2>2, BranchAssumption
<1> QED
  BY <1>1, <1>2, <1>4, <1>5, TreeAssumption DEF StoredBlocks

\* The latest transition of a branch is that of its blocks above it.
LEMMA TransitionShared ==
  ASSUME NEW b \in Block, NEW c \in Anc[b], Height[c] >= Transition(Height[b])
  PROVE  Transition(Height[c]) = Transition(Height[b])
<1>1. Height[b] \in Nat /\ Height[c] \in Nat /\ Height[c] <= Height[b]
  BY TreeAssumption, BranchAssumption
<1>2. /\ Transition(Height[b]) \in Nat /\ Transition(Height[b]) % Interval = 0
      /\ Transition(Height[c]) \in Nat
  BY <1>1, TransitionFacts
<1>3. Transition(Height[c]) <= Transition(Height[b])
  BY <1>1, TransitionRises
<1>4. Transition(Height[b]) <= Transition(Height[c])
  BY <1>1, <1>2, TransitionLatest
<1> QED
  BY <1>2, <1>3, <1>4

\* Whatever is loaded can be extended.
LEMMA ReloadedExtendable ==
  ASSUME NEW stored \in [Block -> Kind], Loadable(stored),
         blocks' = LoadedBlocks(stored), lastBlock' = LoadedLastBlock(stored),
         orphans' = [b \in Block |-> None]
  PROVE  Extendable'
<1>1. \A b \in Block : blocks'[b] = IF stored[b] # "none" THEN stored[b]
                                    ELSE IF b \in Checkpoint \cup {Genesis} THEN "bare" ELSE "none"
  BY DEF LoadedBlocks
<1>2. BareAtTransition'
  BY <1>1, StartsAtTransition DEF Loadable, BareAtTransition, AtTransition
<1>3. \A b \in Block : stored[b] = "none" /\ blocks'[b] # "none" =>
         b \in Checkpoint \cup {Genesis} /\ AtTransition(b)
  BY <1>1, StartsAtTransition
<1>4. ASSUME NEW b \in Block, stored[b] = "none", blocks'[b] # "none"
      PROVE  BackToTransition(b)'
  BY <1>3, <1>4, TransitionIsItsOwn DEF BackToTransition
<1>5. CASE StoredBlocks(stored) = {}
  <2>1. \A b \in Block : stored[b] = "none"
    BY <1>5 DEF StoredBlocks
  <2>2. lastBlock' = StartCheckpoint
    BY <1>5 DEF LoadedLastBlock, StoredBlocks
  <2>3. StartCheckpoint \in Block /\ StartCheckpoint \in Checkpoint \cup {Genesis}
    BY CheckpointAssumption, TreeAssumption
  <2>4. LastBlockKept' /\ NoneAboveTip'
    BY <1>1, <2>1, <2>2, <2>3, TreeAssumption DEF LastBlockKept, NoneAboveTip
  <2>5. HighBackToTransition'
    BY <1>4, <2>1 DEF HighBackToTransition
  <2>6. orphans'[lastBlock'] = None
    BY <2>2, <2>3
  <2> QED
    BY <1>2, <2>4, <2>5, <2>6 DEF Extendable
<1>6. CASE BranchEnd(StoredBlocks(stored))
  <2> DEFINE b == lastBlock'
  <2>1. /\ b \in StoredBlocks(stored) /\ b \in Block /\ Height[b] \in Nat
        /\ StoredBlocks(stored) \subseteq Anc[b]
        /\ \E a \in StoredBlocks(stored) : Height[a] = Transition(Height[b])
        /\ \A a \in Anc[b] : Height[a] >= Transition(Height[b]) => stored[a] # "none"
    BY <1>6, ReloadedBranch
  <2> HIDE DEF b
  <2>2. blocks'[b] # "none" /\ orphans'[b] = None
    BY <1>1, <2>1 DEF StoredBlocks
  <2>3. ASSUME NEW c \in Block, blocks'[c] # "none", c \notin Checkpoint
        PROVE  Height[c] <= Height[b]
    <3>1. CASE stored[c] # "none"
      BY <2>1, <3>1, BranchAssumption DEF StoredBlocks
    <3>2. CASE stored[c] = "none"
      BY <1>3, <2>1, <2>3, <3>2, TreeAssumption
    <3> QED
      BY <3>1, <3>2
  <2>4. ASSUME NEW c \in Block, stored[c] # "none", Height[c] >= Transition(Height[b])
        PROVE  BackToTransition(c)'
    <3>1. c \in Anc[b] /\ Anc[c] \subseteq Anc[b] /\ Anc[b] \subseteq Block
      BY <2>1, <2>4, BranchAssumption, TreeAssumption DEF StoredBlocks
    <3>2. Transition(Height[c]) = Transition(Height[b])
      BY <2>1, <2>4, <3>1, TransitionShared
    <3>3. PICK a \in StoredBlocks(stored) : Height[a] = Transition(Height[b])
      BY <2>1
    <3>4. a \in Anc[c]
      BY <2>1, <2>4, <3>1, <3>3, BranchAssumption, TreeAssumption
    <3>5. ASSUME NEW d \in Anc[c], Height[d] >= Transition(Height[c]) PROVE blocks'[d] # "none"
      BY <1>1, <2>1, <3>1, <3>2, <3>5
    <3> QED
      BY <3>2, <3>3, <3>4, <3>5 DEF BackToTransition
  <2>5. LastBlockKept' /\ NoneAboveTip' /\ orphans'[lastBlock'] = None
    BY <2>2, <2>3 DEF LastBlockKept, NoneAboveTip, b
  <2>6. HighBackToTransition'
    <3> SUFFICES ASSUME NEW c \in Block, blocks'[c] # "none",
                        Height[c] >= Transition(Height[b])
                 PROVE  BackToTransition(c)'
      BY DEF HighBackToTransition, b
    <3> QED
      BY <1>4, <2>4
  <2> QED
    BY <1>2, <2>5, <2>6 DEF Extendable
<1> QED
  BY <1>5, <1>6 DEF Loadable

\* And it reaches back to its latest transition.
LEMMA ReloadedReachesTransition ==
  ASSUME NEW stored \in [Block -> Kind], Loadable(stored), NEW b, b = LoadedLastBlock(stored)
  PROVE  \E a \in Walk(b, LoadedBlocks(stored)) :
           AtTransition(a) /\ Height[a] + Interval > Height[b]
<1>1. \A c \in Block : stored[c] # "none" => LoadedBlocks(stored)[c] = stored[c]
  BY DEF LoadedBlocks
<1>2. CASE StoredBlocks(stored) = {}
  <2>1. b = StartCheckpoint
    BY <1>2 DEF LoadedLastBlock, StoredBlocks
  <2>2. b \in Block /\ AtTransition(b)
    BY <2>1, StartsAtTransition, CheckpointAssumption
  <2>3. b \in Walk(b, LoadedBlocks(stored)) /\ Height[b] \in Nat
    BY <2>2, TreeAssumption DEF Walk
  <2> QED
    BY <2>2, <2>3, DataAssumption
<1>3. CASE BranchEnd(StoredBlocks(stored))
  <2>1. /\ b \in Block /\ Height[b] \in Nat
        /\ StoredBlocks(stored) \subseteq Anc[b]
        /\ \A a \in Anc[b] : Height[a] >= Transition(Height[b]) => stored[a] # "none"
    BY <1>3, ReloadedBranch
  <2>2. PICK a \in StoredBlocks(stored) : Height[a] = Transition(Height[b])
    BY <1>3, ReloadedBranch
  <2>3. AtTransition(a) /\ Height[a] + Interval > Height[b] /\ Height[a] \in Nat
    BY <2>1, <2>2, TransitionFacts, DataAssumption DEF AtTransition
  <2>4. ASSUME NEW c \in Anc[b]
        PROVE  /\ Height[a] <= Height[c] => LoadedBlocks(stored)[c] # "none"
               /\ Height[a] < Height[c] => LoadedBlocks(stored)[c] # "bare"
    <3>1. Height[c] \in Nat /\ Height[c] <= Height[b] /\ c \in Block
      BY <2>1, BranchAssumption, TreeAssumption
    <3>2. Height[a] <= Height[c] => stored[c] # "none"
      BY <2>1, <2>2
    <3>3. stored[c] = "bare" => Height[c] <= Height[a]
      BY <2>1, <2>2, <3>1, TransitionLatest DEF Loadable, AtTransition
    <3> QED
      BY <1>1, <2>3, <3>1, <3>2, <3>3
  <2>5. a \in Walk(b, LoadedBlocks(stored))
    BY <2>1, <2>4 DEF Walk
  <2> QED
    BY <2>3, <2>5
<1> QED
  BY <1>2, <1>3 DEF Loadable

LEMMA BlockHashesEnd ==
  ASSUME TypeOK, Extendable
  PROVE  BranchEnd(BlockHashes)
<1>1. lastBlock \in Block /\ Height[lastBlock] \in Nat /\ lastBlock \in Anc[lastBlock]
  BY TreeAssumption DEF TypeOK
<1>2. lastBlock \in BlockHashes /\ BlockHashes \subseteq Anc[lastBlock]
  BY <1>1 DEF BlockHashes, Walk
<1>3. PICK a \in Anc[lastBlock] : Height[a] = Transition(Height[lastBlock])
  BY WalkToTransition
<1>4. \A c \in Anc[lastBlock] :
        Height[c] >= Transition(Height[lastBlock]) => c \in BlockHashes
  BY WalkToTransition DEF BlockHashes
<1>5. a \in BlockHashes
  BY <1>1, <1>3, <1>4, TransitionFacts
<1> QED
  BY <1>2, <1>3, <1>4, <1>5 DEF BranchEnd

\* The context's queue goes on: what is written is a branch's end or hollow.
LEMMA QueueKeeps ==
  ASSUME StoreTypes, Extendable, KeptEntities,
         WriteBlocks \/ WriteTransaction \/ WriteHeights \/ WritePeers \/ SaveContext
  PROVE  KeptEntities'
<1>1. jobs # <<>> /\ jobs' = Tail(jobs) /\ jobs \in Seq(Jobs)
  BY DEF WriteBlocks, WriteTransaction, WriteHeights, WritePeers, SaveContext, Job, Done, StoreTypes
<1>2. \A i \in DOMAIN jobs' : jobs'[i].kind = "writeBlocks" => BranchEnd(jobs'[i].hashes)
  BY <1>1, TailFacts DEF KeptEntities
<1>3. CASE WriteBlocks
  <2> DEFINE hashes == Head(jobs).hashes
  <2>1. /\ entities' = [b \in Block |-> IF b \in hashes THEN blocks[b] ELSE "none"]
        /\ hollow' = (\E b \in hashes : blocks[b] = "none")
        /\ disk' = disk
    BY <1>3 DEF WriteBlocks
  <2>2. BranchEnd(hashes)
    BY <1>1, <1>3, TailFacts DEF KeptEntities, WriteBlocks, Job
  <2>3. hashes \subseteq Block
    BY <1>3, JobFacts DEF WriteBlocks, Branches
  <2> HIDE DEF hashes
  <2>4. hollow' \/ StoredBlocks(entities') = hashes
    BY <2>1, <2>3 DEF StoredBlocks
  <2>5. \A b \in Block : entities'[b] = "bare" => AtTransition(b)
    BY <2>1 DEF Extendable, BareAtTransition
  <2>6. hollow' \/ Loadable(entities')
    BY <2>2, <2>4, <2>5 DEF Loadable
  <2> QED
    BY <1>2, <2>1, <2>6 DEF KeptEntities, Loadable, StoredBlocks, BranchEnd, Transition, AtTransition
<1>4. CASE SaveContext
  <2>1. /\ disk' = disk \/ (~hollow /\ disk' = entities)
        /\ UNCHANGED <<entities, hollow>>
    BY <1>4 DEF SaveContext
  <2> QED
    BY <1>2, <2>1 DEF KeptEntities, Loadable, StoredBlocks, BranchEnd, Transition, AtTransition
<1>5. CASE WriteTransaction \/ WriteHeights \/ WritePeers
  <2>1. UNCHANGED <<entities, hollow, disk>>
    BY <1>5 DEF WriteTransaction, WriteHeights, WritePeers
  <2> QED
    BY <1>2, <2>1 DEF KeptEntities, Loadable, StoredBlocks, BranchEnd, Transition, AtTransition
<1> QED
  BY <1>3, <1>4, <1>5

LEMMA SubmitKeeps ==
  ASSUME StoreTypes, Extendable, KeptEntities, NEW th \in Thread, Submit(th)
  PROVE  KeptEntities'
<1>1. UNCHANGED <<entities, hollow, disk>>
  BY DEF Submit
<1>2. BranchEnd(BlockHashes) /\ jobs \in Seq(Jobs)
  BY BlockHashesEnd DEF StoreTypes
<1>3. \A i \in DOMAIN jobs' : jobs'[i].kind = "writeBlocks" => BranchEnd(jobs'[i].hashes)
  <2>1. CASE jobs' = jobs
    BY <2>1 DEF KeptEntities
  <2>2. ASSUME NEW job \in Jobs, jobs' = Append(jobs, job),
               job.kind = "writeBlocks" => job.hashes = BlockHashes
        PROVE  \A i \in DOMAIN jobs' : jobs'[i].kind = "writeBlocks" => BranchEnd(jobs'[i].hashes)
    BY <1>2, <2>2, AppendFacts DEF KeptEntities
  <2> QED
    BY <2>1, <2>2, SubmitFacts
<1> QED
  BY <1>1, <1>3 DEF KeptEntities, Loadable, StoredBlocks, BranchEnd, Transition, AtTransition

LEMMA RestartKeeps ==
  ASSUME StoreTypes, KeptEntities, Restart
  PROVE  Extendable' /\ KeptEntities'
<1>1. Extendable'
  BY ReloadedExtendable DEF Restart, StoreTypes, KeptEntities
<1>2. entities' = disk /\ disk' = disk /\ jobs' = <<>>
  BY DEF Restart
<1> QED
  BY <1>1, <1>2 DEF KeptEntities, Loadable, StoredBlocks, BranchEnd, Transition, AtTransition

LEMMA SameDictionaryExtendable ==
  ASSUME Extendable, UNCHANGED <<blocks, lastBlock, orphans>>
  PROVE  Extendable'
  BY DEF Extendable, LastBlockKept, NoneAboveTip, BareAtTransition, HighBackToTransition,
         BackToTransition

LEMMA SameStoreKeeps ==
  ASSUME KeptEntities, UNCHANGED <<jobs, entities, hollow, disk>>
  PROVE  KeptEntities'
  BY DEF KeptEntities, Loadable, StoredBlocks, BranchEnd, Transition, AtTransition

LEMMA StoreInitUsable == StoreInit => UsableUntilRescan
<1> SUFFICES ASSUME StoreInit PROVE Extendable /\ KeptEntities
  BY DEF UsableUntilRescan
<1>1. Extendable
  BY InitExtendable DEF StoreInit
<1>2. Loadable(NoEntities)
  BY DEF Loadable, StoredBlocks, NoEntities
<1> QED
  BY <1>1, <1>2 DEF StoreInit, KeptEntities

LEMMA StoreNextUsable ==
  ASSUME Interval > 1
  PROVE  StoreTypes /\ UsableUntilRescan /\ [StoreNext]_allVars => UsableUntilRescan'
<1> SUFFICES ASSUME StoreTypes, UsableUntilRescan, [StoreNext]_allVars, rescans' = 0
             PROVE  Extendable' /\ KeptEntities'
  BY DEF UsableUntilRescan
<1>1. TypeOK
  BY DEF StoreTypes
<1>2. ASSUME NEW p \in Peer, NEW it \in Item, RelayedBlock(p, it),
             UNCHANGED <<jobs, entities, hollow, disk>>
      PROVE  Extendable' /\ KeptEntities'
  <2>1. Extendable /\ KeptEntities
    BY <1>2, RelayedBlockWallet DEF UsableUntilRescan
  <2> QED
    BY <1>1, <1>2, <2>1, RelayedBlockExtendable, SameStoreKeeps
<1>3. ASSUME NEW p \in Peer, NEW it \in Item, StoreReceiveBlock(p, it)
      PROVE  Extendable' /\ KeptEntities'
  BY <1>2, <1>3 DEF StoreReceiveBlock, Handles, ReceiveBlock
<1>4. CASE StoreConnectOrphan
  <2>1. ConnectOrphan /\ UNCHANGED <<jobs, entities, hollow, disk>>
    BY <1>4 DEF StoreConnectOrphan, Handles
  <2>2. call.peer \in Peer /\ call.item \in Item
    BY <1>1, <2>1 DEF ConnectOrphan, TypeOK
  <2> QED
    BY <1>2, <2>1, <2>2 DEF ConnectOrphan
<1>5. CASE UNCHANGED <<blocks, lastBlock, orphans, rescans, jobs, entities, hollow, disk>>
  BY <1>5, SameDictionaryExtendable, SameStoreKeeps DEF UsableUntilRescan
<1>6. ~StoreRescan
  <2>1. StoreRescan => rescans' = rescans + 1 /\ rescans \in Nat
    BY <1>1, RescanTargetFacts DEF StoreRescan, GoBackTo, TypeOK
  <2> QED
    BY <2>1
<1>7. ASSUME NEW th \in Thread, Submit(th) PROVE Extendable' /\ KeptEntities'
  <2>1. UNCHANGED <<blocks, lastBlock, orphans, rescans>>
    BY <1>7 DEF Submit, vars, chainVars
  <2> QED
    BY <1>7, <2>1, SameDictionaryExtendable, SubmitKeeps DEF UsableUntilRescan
<1>8. CASE WriteBlocks \/ WriteTransaction \/ WriteHeights \/ WritePeers \/ SaveContext
  <2>1. UNCHANGED <<blocks, lastBlock, orphans, rescans>>
    BY <1>8 DEF WriteBlocks, WriteTransaction, WriteHeights, WritePeers, SaveContext, Done,
                vars, chainVars
  <2> QED
    BY <1>8, <2>1, SameDictionaryExtendable, QueueKeeps DEF UsableUntilRescan
<1>9. CASE Restart
  <2>1. rescans' = rescans
    BY <1>9 DEF Restart
  <2> QED
    BY <1>9, <2>1, RestartKeeps DEF UsableUntilRescan
<1> QED
  BY <1>3, <1>4, <1>5, <1>6, <1>7, <1>8, <1>9
  DEF StoreNext, StoreRelayedTransaction, RelayedTransaction, StoreAcceptVersion, AcceptVersion,
      Handles, RelayedPeers, ResignActive, allVars, vars, chainVars, storeVars

\* Whenever the app is killed, until the user rescans, the chain it starts from agrees
\* with the checkpoints and reaches back to its latest transition: the download goes on
\* from there, wherever q, the main thread and the context's queue were.
THEOREM StoredChainAlwaysUsable ==
  ASSUME Interval > 1
  PROVE  StoreSpec => [](rescans = 0 => StoredChainUsable)
<1>1. StoreInit => StoredAgree
  BY InitAgrees DEF StoreInit, StoredAgree, NoEntities
<1>2. StoreInit => UsableUntilRescan
  BY StoreInitUsable
<1>3. StoreTypes /\ StoredAgree /\ UsableUntilRescan => (rescans = 0 => StoredChainUsable)
  <2> SUFFICES ASSUME StoreTypes, StoredAgree, KeptEntities PROVE StoredChainUsable
    BY DEF UsableUntilRescan
  <2> DEFINE b == LoadedLastBlock(disk)
  <2>1. b \in StoredBlocks(disk) \cup Checkpoint \cup {Genesis}
    BY LoadedLastBlockFacts, CheckpointAssumption DEF StoreTypes
  <2>2. AgreesWithCheckpoints(b)
    BY <2>1, StartAgrees DEF StoredAgree, StoredBlocks
  <2>3. \E a \in Walk(b, LoadedBlocks(disk)) : AtTransition(a) /\ Height[a] + Interval > Height[b]
    BY ReloadedReachesTransition DEF StoreTypes, KeptEntities
  <2> QED
    BY <2>2, <2>3 DEF StoredChainUsable
<1> QED
  BY <1>1, <1>2, <1>3, StoreTyped, StoreNextAgrees, StoreNextUsable, PTL DEF StoreSpec
----------------------------------------------------------------------------
(***************************************************************************)
(* What is on disk is confirmed on disk, if the context is saved at the    *)
(* end of a download only.  q submits the heights of a block's             *)
(* transactions before the chain that ends in it, and the context's queue  *)
(* keeps that order; but it runs late, when the dictionary and the heights *)
(* have changed again.  So the argument is about what the queue has still  *)
(* to do: the value a transaction's entity will have when the queue has    *)
(* come to its n-th block of code.                                         *)
(***************************************************************************)
Registers(job, t) == job.kind = "transaction" /\ job.tx = t

SetsHeight(job, t) == job.kind = "heights" /\ t \in DOMAIN job.heights

\* t has an entity when the queue comes to its n-th block of code.
Registered(js, values, t, n) ==
  values[t] # None \/ \E k \in DOMAIN js : k < n /\ Registers(js[k], t)

Untouched(js, t, i, n) ==
  \A k \in DOMAIN js : i < k /\ k < n => ~Registers(js[k], t) /\ ~SetsHeight(js[k], t)

\* And its height is then v.
WillBe(js, values, t, v, n) ==
  \/ values[t] = v /\ Untouched(js, t, 0, n)
  \/ \E i \in DOMAIN js :
       /\ i < n /\ Registered(js, values, t, i) /\ Untouched(js, t, i, n)
       /\ SetsHeight(js[i], t) /\ js[i].heights[t] = v

\* The queue comes one further when its first block of code has run.
LEMMA PoppedRegistered ==
  ASSUME NEW S, NEW js \in Seq(S), js # <<>>, NEW values, NEW after, NEW t, NEW n \in Nat,
         values[t] # None \/ Registers(js[1], t) => after[t] # None,
         Registered(js, values, t, n)
  PROVE  Registered(Tail(js), after, t, n - 1)
<1>1. CASE values[t] # None
  BY <1>1 DEF Registered
<1>2. ASSUME NEW k \in DOMAIN js, k < n, Registers(js[k], t)
      PROVE  Registered(Tail(js), after, t, n - 1)
  <2>1. CASE k = 1
    BY <1>2, <2>1 DEF Registered
  <2>2. CASE k # 1
    <3>1. k - 1 \in DOMAIN Tail(js) /\ Tail(js)[k - 1] = js[k] /\ k \in Nat
      BY <2>2, TailFacts, IndexFacts
    <3>2. k - 1 < n - 1
      BY <1>2, <3>1
    <3> QED
      BY <1>2, <3>1, <3>2 DEF Registered
  <2> QED
    BY <2>1, <2>2
<1> QED
  BY <1>1, <1>2 DEF Registered

LEMMA PoppedUntouched ==
  ASSUME NEW S, NEW js \in Seq(S), js # <<>>, NEW t, NEW i \in Nat, NEW n \in Nat,
         Untouched(js, t, i + 1, n)
  PROVE  Untouched(Tail(js), t, i, n - 1)
<1> SUFFICES ASSUME NEW k \in DOMAIN Tail(js), i < k, k < n - 1
             PROVE  ~Registers(Tail(js)[k], t) /\ ~SetsHeight(Tail(js)[k], t)
  BY DEF Untouched
<1>1. k + 1 \in DOMAIN js /\ Tail(js)[k] = js[k + 1] /\ Tail(js) \in Seq(S)
  BY TailFacts
<1>2. k \in Nat
  BY <1>1, IndexFacts
<1>3. i + 1 < k + 1 /\ k + 1 < n
  BY <1>2
<1> QED
  BY <1>1, <1>3 DEF Untouched

LEMMA PoppedWillBe ==
  ASSUME NEW S, NEW js \in Seq(S), js # <<>>, NEW values, NEW after, NEW t, NEW v,
         NEW n \in Nat, n > 1,
         values[t] # None \/ Registers(js[1], t) => after[t] # None,
         ~Registers(js[1], t) /\ ~SetsHeight(js[1], t) => after[t] = values[t],
         SetsHeight(js[1], t) /\ values[t] # None => after[t] = js[1].heights[t],
         WillBe(js, values, t, v, n)
  PROVE  WillBe(Tail(js), after, t, v, n - 1)
<1>1. 1 \in DOMAIN js /\ DOMAIN js \subseteq Nat \ {0}
  BY TailFacts, IndexFacts
<1>2. CASE values[t] = v /\ Untouched(js, t, 0, n)
  <2>1. after[t] = v
    BY <1>1, <1>2 DEF Untouched
  <2>2. Untouched(js, t, 0 + 1, n)
    BY <1>1, <1>2 DEF Untouched
  <2>3. Untouched(Tail(js), t, 0, n - 1)
    BY <2>2, PoppedUntouched
  <2> QED
    BY <2>1, <2>3 DEF WillBe
<1>3. ASSUME NEW i \in DOMAIN js, i < n, Registered(js, values, t, i), Untouched(js, t, i, n),
             SetsHeight(js[i], t), js[i].heights[t] = v
      PROVE  WillBe(Tail(js), after, t, v, n - 1)
  <2>0. i \in Nat /\ i - 1 \in Nat /\ (i - 1) + 1 = i
    BY <1>1
  <2>1. Untouched(js, t, (i - 1) + 1, n)
    BY <1>3, <2>0
  <2>2. Untouched(Tail(js), t, i - 1, n - 1)
    BY <2>0, <2>1, PoppedUntouched
  <2>3. CASE i = 1
    <3>1. values[t] # None
      BY <1>1, <1>3, <2>3 DEF Registered
    <3>2. after[t] = v
      BY <1>3, <2>3, <3>1
    <3> QED
      BY <2>2, <2>3, <3>2 DEF WillBe
  <2>4. CASE i # 1
    <3>1. i - 1 \in DOMAIN Tail(js) /\ Tail(js)[i - 1] = js[i]
      BY <2>4, TailFacts
    <3>2. Registered(Tail(js), after, t, i - 1)
      BY <1>3, <2>0, PoppedRegistered
    <3>3. i - 1 < n - 1
      BY <1>3, <2>0
    <3> QED
      BY <1>3, <2>2, <3>1, <3>2, <3>3 DEF WillBe
  <2> QED
    BY <2>3, <2>4
<1> QED
  BY <1>2, <1>3 DEF WillBe

\* A block of code at the end of the queue changes nothing of what comes before it.
LEMMA AppendedKeeps ==
  ASSUME NEW S, NEW js \in Seq(S), NEW job \in S, NEW values, NEW t, NEW n \in Nat,
         n <= Len(js) + 1
  PROVE  /\ Registered(js, values, t, n) => Registered(Append(js, job), values, t, n)
         /\ \A v : WillBe(js, values, t, v, n) => WillBe(Append(js, job), values, t, v, n)
<1> DEFINE more == Append(js, job)
<1>1. /\ \A i \in DOMAIN js : i \in DOMAIN more /\ more[i] = js[i] /\ i \in Nat
      /\ \A i \in DOMAIN more : i \in Nat /\ (i < n => i \in DOMAIN js)
      /\ Len(js) \in Nat
  BY AppendFacts, IndexFacts
<1> HIDE DEF more
<1>2. \A k \in Nat : k <= n /\ Registered(js, values, t, k) => Registered(more, values, t, k)
  BY <1>1 DEF Registered
<1>3. \A i \in Nat : Untouched(js, t, i, n) => Untouched(more, t, i, n)
  BY <1>1 DEF Untouched
<1>4. ASSUME NEW v, WillBe(js, values, t, v, n) PROVE WillBe(more, values, t, v, n)
  <2>1. CASE values[t] = v /\ Untouched(js, t, 0, n)
    BY <1>3, <2>1 DEF WillBe
  <2>2. ASSUME NEW i \in DOMAIN js, i < n, Registered(js, values, t, i), Untouched(js, t, i, n),
               SetsHeight(js[i], t), js[i].heights[t] = v
        PROVE  WillBe(more, values, t, v, n)
    <3>1. i \in DOMAIN more /\ more[i] = js[i] /\ i \in Nat /\ i <= n
      BY <1>1, <2>2
    <3>2. Registered(more, values, t, i) /\ Untouched(more, t, i, n)
      BY <1>2, <1>3, <2>2, <3>1
    <3> QED
      BY <2>2, <3>1, <3>2 DEF WillBe
  <2> QED
    BY <1>4, <2>1, <2>2 DEF WillBe
<1> QED
  BY <1>2, <1>4 DEF more

\* What the queue will have done when it comes to its end, with another block of code.
LEMMA AppendedEnd ==
  ASSUME NEW S, NEW js \in Seq(S), NEW job \in S, NEW values, NEW t, NEW n, n = Len(js) + 1
  PROVE  /\ Registered(js, values, t, n) \/ Registers(job, t)
              => Registered(Append(js, job), values, t, n + 1)
         /\ \A v : /\ ~Registers(job, t) /\ ~SetsHeight(job, t) /\ WillBe(js, values, t, v, n)
                      => WillBe(Append(js, job), values, t, v, n + 1)
                   /\ SetsHeight(job, t) /\ job.heights[t] = v /\ Registered(js, values, t, n)
                      => WillBe(Append(js, job), values, t, v, n + 1)
<1> DEFINE more == Append(js, job)
<1>1. /\ \A i \in DOMAIN more : i \in Nat /\ (i < n + 1 => i < n \/ i = n)
      /\ n \in Nat /\ n \in DOMAIN more /\ more[n] = job
  BY AppendFacts, IndexFacts
<1>2. n <= Len(js) + 1
  BY <1>1
<1>3. /\ Registered(js, values, t, n) => Registered(more, values, t, n)
      /\ \A v : WillBe(js, values, t, v, n) => WillBe(more, values, t, v, n)
  BY <1>1, <1>2, AppendedKeeps
<1> HIDE DEF more
<1>4. Registered(more, values, t, n) \/ Registers(job, t) => Registered(more, values, t, n + 1)
  BY <1>1 DEF Registered
<1>5. ASSUME NEW i \in Nat, ~Registers(job, t), ~SetsHeight(job, t), Untouched(more, t, i, n)
      PROVE  Untouched(more, t, i, n + 1)
  BY <1>1, <1>5 DEF Untouched
<1>6. ASSUME NEW v, ~Registers(job, t), ~SetsHeight(job, t), WillBe(more, values, t, v, n)
      PROVE  WillBe(more, values, t, v, n + 1)
  <2>1. CASE values[t] = v /\ Untouched(more, t, 0, n)
    BY <1>5, <1>6, <2>1 DEF WillBe
  <2>2. ASSUME NEW i \in DOMAIN more, i < n, Registered(more, values, t, i),
               Untouched(more, t, i, n), SetsHeight(more[i], t), more[i].heights[t] = v
        PROVE  WillBe(more, values, t, v, n + 1)
    <3>1. i \in Nat /\ i < n + 1
      BY <1>1, <2>2
    <3>2. Untouched(more, t, i, n + 1)
      BY <1>5, <1>6, <2>2, <3>1
    <3> QED
      BY <2>2, <3>1, <3>2 DEF WillBe
  <2> QED
    BY <1>6, <2>1, <2>2 DEF WillBe
<1>7. ASSUME NEW v, SetsHeight(job, t), job.heights[t] = v, Registered(more, values, t, n)
      PROVE  WillBe(more, values, t, v, n + 1)
  <2>1. Untouched(more, t, n, n + 1) /\ n < n + 1
    BY <1>1 DEF Untouched
  <2> QED
    BY <1>1, <1>7, <2>1 DEF WillBe
<1> QED
  BY <1>3, <1>4, <1>6, <1>7 DEF more
----------------------------------------------------------------------------
\* TX_UNCONFIRMED is no block's height.
LEMMA HeightBelowUnconfirmed ==
  ASSUME NEW b \in Block
  PROVE  Height[b] \in Nat /\ Height[b] # TX_UNCONFIRMED
<1> DEFINE h == Height[b]
           f == [a \in Anc[b] |-> Height[a]]
<1>1. h \in Nat /\ Anc[b] \in SUBSET Block /\ IsFiniteSet(Block) /\ Cardinality(Block) \in Nat
  BY TreeAssumption, FS_CardinalityType
<1>2. IsFiniteSet(Anc[b]) /\ Cardinality(Anc[b]) <= Cardinality(Block)
  BY <1>1, FS_Subset
<1>3. \A a \in Anc[b] : Height[a] \in 0..h
  BY AncestorFacts
<1>4. \A i \in 0..h : \E a \in Anc[b] : Height[a] = i
  BY <1>1, AncestorAt
<1>5. f \in Surjection(Anc[b], 0..h)
  BY <1>3, <1>4 DEF Surjection
<1> HIDE DEF f, h
<1>6. Cardinality(0..h) <= Cardinality(Anc[b])
  BY <1>2, <1>5, FS_Surjection
<1>7. Cardinality(0..h) = h + 1
  BY <1>1, FS_Interval
<1>8. Cardinality(Anc[b]) \in Nat
  BY <1>2, FS_CardinalityType
<1> QED
  BY <1>1, <1>2, <1>6, <1>7, <1>8 DEF h, TX_UNCONFIRMED

\* The blocks of one branch from some block on, whose parent is gone for good: it was
\* freed at a transition near the top, or is that of a checkpoint.
Rooted(S) ==
  \E top \in S :
    /\ S \subseteq Anc[top] /\ Height[StartCheckpoint] <= Height[top]
    /\ \A b \in S \ (Checkpoint \cup {Genesis}) : Parent[b] \notin S =>
         \E x \in Block : /\ AtTransition(x) /\ Height[x] <= Height[top] + 1
                          /\ Height[Parent[b]] + Interval < Height[x]

\* Only checkpoints are bare, and only early blocks are headers.
KindsKept(stored) ==
  \A b \in Block : /\ stored[b] = "bare" => b \in Checkpoint \cup {Genesis}
                   /\ stored[b] = "header" => b \in Early

StoredRooted(stored) == StoredBlocks(stored) = {} \/ Rooted(StoredBlocks(stored))

\* The heights confirm what is on the branch that is stored.
Confirming(stored, heights) ==
  \A b \in StoredBlocks(stored) : \A c \in Anc[b] : \A t \in TxOf[c] : heights[t] = Height[c]

HeadCall(kind) == calls["q"] # <<>> /\ calls["q"][1].kind = kind

\* The order of a handler's calls.
CallsInOrder ==
  /\ calls["main"] = <<>>
  /\ \A i \in DOMAIN calls["q"] :
       /\ calls["q"][i].kind # "savePeers"
       /\ calls["q"][i].kind \in {"heights", "transaction"} => i = 1
       /\ calls["q"][i].kind = "saveContext" /\ i # 1 => calls["q"][i - 1].kind = "saveBlocks"

\* The heights of the wallet's transactions are in their entities, or on the way there.
HeightsOnTheWay ==
  /\ HeadCall("heights") =>
       \A t \in DOMAIN calls["q"][1].heights : calls["q"][1].heights[t] = txHeight[t]
  /\ HeadCall("transaction") => txHeight[calls["q"][1].tx] = TX_UNCONFIRMED
  /\ \A t \in wallet :
       /\ \/ Registered(jobs, txEntities, t, Len(jobs) + 1)
          \/ HeadCall("transaction") /\ calls["q"][1].tx = t
       /\ \/ txHeight[t] = TX_UNCONFIRMED
          \/ WillBe(jobs, txEntities, t, txHeight[t], Len(jobs) + 1)
          \/ HeadCall("heights") /\ t \in DOMAIN calls["q"][1].heights

\* When the queue comes to writing a chain, it has stored the chain's heights.
BlocksOnTheWay ==
  \A i \in DOMAIN jobs : jobs[i].kind = "writeBlocks" =>
    /\ Rooted(jobs[i].hashes)
    /\ \A b \in jobs[i].hashes : \A c \in Anc[b] : \A t \in TxOf[c] :
         WillBe(jobs, txEntities, t, Height[c], i)

EntitiesConfirmed == hollow \/ Confirming(entities, txEntities)

\* The context is saved right after a chain is written.
SavesFollowBlocks ==
  /\ \A i \in DOMAIN jobs : jobs[i].kind = "save" =>
       IF i = 1 THEN EntitiesConfirmed ELSE jobs[i - 1].kind = "writeBlocks"
  /\ HeadCall("saveContext") =>
       IF jobs = <<>> THEN EntitiesConfirmed ELSE jobs[Len(jobs)].kind = "writeBlocks"

StoredSound ==
  /\ KindsKept(entities) /\ (hollow \/ StoredRooted(entities))
  /\ KindsKept(disk) /\ StoredRooted(disk) /\ Confirming(disk, txDisk)

StoreSound ==
  CallsInOrder /\ HeightsOnTheWay /\ BlocksOnTheWay /\ SavesFollowBlocks /\ StoredSound

ChainSound == Traceable /\ CompleteBlocks /\ AllConfirmed

\* saveBlocks finds the tip's branch, as far back as it is known.
LEMMA BlockHashesRooted ==
  ASSUME TypeOK, Traceable, LastBlockKept
  PROVE  Rooted(BlockHashes)
<1>1. lastBlock \in Block /\ blocks \in [Block -> Kind]
  BY DEF TypeOK
<1>2. PICK o \in BlockHashes :
         /\ \A a \in Anc[lastBlock] : a \in BlockHashes <=> Height[a] >= Height[o]
         /\ o = Genesis \/ blocks[o] = "bare" \/ blocks[Parent[o]] = "none"
  BY <1>1, WalkFacts DEF BlockHashes
<1>3. /\ lastBlock \in BlockHashes /\ BlockHashes \subseteq Anc[lastBlock]
      /\ \A a \in BlockHashes : a = lastBlock \/ blocks[a] # "none"
  BY <1>1, WalkFacts DEF BlockHashes
<1>4. ASSUME NEW b \in BlockHashes \ (Checkpoint \cup {Genesis}), Parent[b] \notin BlockHashes
      PROVE  b = o
  <2>1. b \in Anc[lastBlock] /\ b \in Block /\ b # Genesis /\ o \in Anc[lastBlock]
    BY <1>1, <1>3, <1>4, AncestorFacts
  <2>2. /\ Parent[b] \in Anc[b] /\ Parent[b] \in Block /\ Height[Parent[b]] \in Nat
        /\ Height[b] = Height[Parent[b]] + 1
    BY <2>1, TreeAssumption
  <2>3. Parent[b] \in Anc[lastBlock] /\ Height[o] \in Nat
    BY <1>1, <2>1, <2>2, AncestorFacts
  <2>4. Height[b] >= Height[o] /\ ~(Height[Parent[b]] >= Height[o])
    BY <1>2, <1>4, <2>1, <2>3
  <2> QED
    BY <1>1, <2>1, <2>2, <2>3, <2>4, AncestorFacts
<1>5. ASSUME NEW b \in BlockHashes \ (Checkpoint \cup {Genesis}), Parent[b] \notin BlockHashes
      PROVE  \E x \in Block : /\ AtTransition(x) /\ Height[x] <= Height[lastBlock] + 1
                              /\ Height[Parent[b]] + Interval < Height[x]
  <2>1. b = o /\ b \in Block
    BY <1>1, <1>3, <1>4, <1>5, AncestorFacts
  <2>2. blocks[Parent[b]] = "none"
    BY <1>2, <2>1, <1>5 DEF Traceable, BareIsCheckpoint
  <2>3. blocks[b] # "none"
    BY <1>3, <1>5 DEF LastBlockKept
  <2> QED
    BY <1>5, <2>1, <2>2, <2>3 DEF Traceable, GapsBelowTransition
<1> QED
  BY <1>3, <1>5 DEF Rooted, Traceable
\* The chain that is reloaded ends in the block that was the tip when it was saved.
LEMMA ReloadedTop ==
  ASSUME NEW stored, Rooted(StoredBlocks(stored)), NEW b, b = LoadedLastBlock(stored)
  PROVE  /\ b \in StoredBlocks(stored) /\ b \in Block
         /\ StoredBlocks(stored) \subseteq Anc[b] /\ Height[StartCheckpoint] <= Height[b]
         /\ \A c \in StoredBlocks(stored) \ (Checkpoint \cup {Genesis}) :
              Parent[c] \notin StoredBlocks(stored) =>
                \E x \in Block : /\ AtTransition(x) /\ Height[x] <= Height[b] + 1
                                 /\ Height[Parent[c]] + Interval < Height[x]
<1> DEFINE S == StoredBlocks(stored)
<1>1. S \subseteq Block
  BY DEF StoredBlocks
<1>2. PICK top \in S :
         /\ S \subseteq Anc[top] /\ Height[StartCheckpoint] <= Height[top]
         /\ \A c \in S \ (Checkpoint \cup {Genesis}) : Parent[c] \notin S =>
              \E x \in Block : /\ AtTransition(x) /\ Height[x] <= Height[top] + 1
                               /\ Height[Parent[c]] + Interval < Height[x]
  BY DEF Rooted
<1>3. OnBranch(S)
  BY <1>1, <1>2 DEF OnBranch
<1>4. b \in S /\ \A c \in S : Height[c] <= Height[b]
  BY <1>2, <1>3, LoadedLastBlockFacts
<1>5. b = top
  <2>1. top \in Block /\ Height[top] <= Height[b] /\ b \in Anc[top] /\ top \in Anc[top]
    BY <1>1, <1>2, <1>4, TreeAssumption
  <2>2. Height[b] <= Height[top] /\ Height[b] \in Nat /\ Height[top] \in Nat
    BY <1>1, <1>4, <2>1, AncestorFacts, TreeAssumption
  <2>3. Height[b] = Height[top]
    BY <2>1, <2>2
  <2> QED
    BY <2>1, <2>3, AncestorFacts
<1> QED
  BY <1>1, <1>2, <1>4, <1>5

\* The app starts again with what is confirmed on disk.
LEMMA RestartSound ==
  ASSUME StoreTypes, StoredSound, NoEarlyTx, Restart
  PROVE  ChainSound' /\ StoreSound'
<1>1. /\ blocks' = LoadedBlocks(disk) /\ lastBlock' = LoadedLastBlock(disk)
      /\ orphans' = [b \in Block |-> None] /\ call' = None
      /\ wallet' = {t \in Tx : txDisk[t] # None}
      /\ txHeight' = [t \in Tx |-> IF txDisk[t] = None THEN TX_UNCONFIRMED ELSE txDisk[t]]
      /\ calls' = [th \in Thread |-> <<>>] /\ jobs' = <<>>
      /\ entities' = disk /\ hollow' = FALSE /\ txEntities' = txDisk
      /\ disk' = disk /\ txDisk' = txDisk
  BY DEF Restart
<1>2. /\ TxOf \in [Block -> SUBSET Tx] /\ None \notin Nat
      /\ StartCheckpoint \in Block /\ Height[StartCheckpoint] \in Nat
  BY DataAssumption, StoreAssumption, CheckpointAssumption, TreeAssumption
<1>3. \A b \in Block : blocks'[b] = IF disk[b] # "none" THEN disk[b]
                                    ELSE IF b \in Checkpoint \cup {Genesis} THEN "bare" ELSE "none"
  BY <1>1 DEF LoadedBlocks
<1>4. \A b \in Block : disk[b] # "none" => \A c \in Anc[b] : \A t \in TxOf[c] :
        t \in Tx /\ txDisk[t] = Height[c] /\ t \in wallet' /\ txHeight'[t] = Height[c]
  <2> SUFFICES ASSUME NEW b \in Block, NEW c \in Anc[b], NEW t \in TxOf[c], disk[b] # "none"
               PROVE  /\ t \in Tx /\ txDisk[t] = Height[c]
                      /\ t \in wallet' /\ txHeight'[t] = Height[c]
    OBVIOUS
  <2>1. c \in Block /\ Height[c] \in Nat /\ t \in Tx
    BY <1>2, AncestorFacts
  <2>2. txDisk[t] = Height[c]
    BY DEF StoredSound, Confirming, StoredBlocks
  <2> QED
    BY <1>1, <1>2, <2>1, <2>2
<1>5. ASSUME StoredBlocks(disk) = {}
      PROVE  Traceable' /\ AllConfirmed'
  <2>1. \A b \in Block : disk[b] = "none"
    BY <1>5 DEF StoredBlocks
  <2>2. lastBlock' = StartCheckpoint
    BY <1>1, <2>1 DEF LoadedLastBlock
  <2>3. Traceable'
    BY <1>2, <1>3, <2>1, <2>2 DEF Traceable, BareIsCheckpoint, GapsBelowTransition
  <2>4. AllConfirmed'
    BY <2>2 DEF AllConfirmed, NoEarlyTx
  <2> QED
    BY <2>3, <2>4
<1>6. ASSUME Rooted(StoredBlocks(disk))
      PROVE  Traceable' /\ AllConfirmed'
  <2> DEFINE b == lastBlock'
  <2>1. /\ b \in StoredBlocks(disk) /\ b \in Block
        /\ StoredBlocks(disk) \subseteq Anc[b] /\ Height[StartCheckpoint] <= Height[b]
        /\ \A c \in StoredBlocks(disk) \ (Checkpoint \cup {Genesis}) :
             Parent[c] \notin StoredBlocks(disk) =>
               \E x \in Block : /\ AtTransition(x) /\ Height[x] <= Height[b] + 1
                                /\ Height[Parent[c]] + Interval < Height[x]
    BY <1>1, <1>6, ReloadedTop
  <2> HIDE DEF b
  <2>2. BareIsCheckpoint'
    BY <1>3 DEF BareIsCheckpoint, StoredSound, KindsKept
  <2>3. ASSUME NEW c \in Block \ (Checkpoint \cup {Genesis}), blocks'[c] # "none",
               blocks'[Parent[c]] = "none"
        PROVE  \E x \in Block : /\ AtTransition(x) /\ Height[x] <= Height[b] + 1
                                /\ Height[Parent[c]] + Interval < Height[x]
    <3>1. c \in Block /\ Parent[c] \in Block
      BY TreeAssumption
    <3>2. disk[c] # "none" /\ disk[Parent[c]] = "none"
      BY <1>3, <2>3, <3>1
    <3> QED
      BY <2>1, <3>1, <3>2 DEF StoredBlocks
  <2>4. Traceable'
    BY <2>1, <2>2, <2>3 DEF Traceable, GapsBelowTransition, AtTransition, b
  <2>5. AllConfirmed'
    BY <1>4, <2>1 DEF AllConfirmed, StoredBlocks, b
  <2> QED
    BY <2>4, <2>5
<1>7. CompleteBlocks'
  <2>1. \A b \in Block : blocks'[b] = "merkle" => TxOf[b] \subseteq wallet'
    <3> SUFFICES ASSUME NEW b \in Block, blocks'[b] = "merkle", NEW t \in TxOf[b]
                 PROVE  t \in wallet'
      OBVIOUS
    <3>1. disk[b] = "merkle" /\ b \in Anc[b]
      BY <1>3, TreeAssumption
    <3> QED
      BY <1>4, <3>1
  <2>2. \A b \in Block : blocks'[b] = "header" => b \in Early
    BY <1>3 DEF StoredSound, KindsKept
  <2>3. \A b \in Block : orphans'[b] = None
    BY <1>1
  <2> QED
    BY <1>1, <2>1, <2>2, <2>3 DEF CompleteBlocks
<1>8. calls'["q"] = <<>> /\ calls'["main"] = <<>> /\ Len(jobs') = 0 /\ DOMAIN jobs' = {}
  BY <1>1 DEF Thread
<1>9. HeightsOnTheWay'
  <2>1. ASSUME NEW t \in wallet'
        PROVE  /\ Registered(jobs', txEntities', t, 0 + 1)
               /\ WillBe(jobs', txEntities', t, txHeight'[t], 0 + 1)
    <3>1. txEntities'[t] # None /\ txEntities'[t] = txHeight'[t]
      BY <1>1, <2>1
    <3> QED
      BY <1>8, <3>1 DEF Registered, WillBe, Untouched
  <2> QED
    BY <1>8, <2>1 DEF HeightsOnTheWay, HeadCall
<1>10. CallsInOrder' /\ BlocksOnTheWay' /\ SavesFollowBlocks'
  BY <1>8 DEF CallsInOrder, BlocksOnTheWay, SavesFollowBlocks, HeadCall
<1>11. StoredSound'
  BY <1>1 DEF StoredSound
<1> QED
  BY <1>5, <1>6, <1>7, <1>9, <1>10, <1>11 DEF ChainSound, StoreSound, StoredSound, StoredRooted
\* What a handler leaves the thread q to call: the heights that changed come first.
LEMMA HandlerCallsFacts ==
  ASSUME TypeOK, NEW p \in Peer, NEW it \in Item, NEW made, made = HandlerCalls(p, it)
  PROVE  /\ \A i \in DOMAIN made :
              /\ made[i].kind \in {"heights", "saveBlocks", "saveContext"}
              /\ made[i].kind = "heights" => i = 1
              /\ made[i].kind = "saveContext" => i # 1 /\ made[i - 1].kind = "saveBlocks"
         /\ \A t \in wallet : txHeight'[t] # txHeight[t] =>
              made # <<>> /\ made[1].kind = "heights" /\ t \in DOMAIN made[1].heights
         /\ made # <<>> /\ made[1].kind = "heights" =>
              \A t \in DOMAIN made[1].heights : made[1].heights[t] = txHeight'[t]
<1> DEFINE changed == {t \in wallet : txHeight'[t] # txHeight[t]}
           h == [t \in changed |-> txHeight'[t]]
           first == [kind |-> "heights", heights |-> h]
           blocksCall == [kind |-> "saveBlocks"]
           saveCall == [kind |-> "saveContext"]
<1>1. /\ DOMAIN h = changed /\ \A t \in changed : h[t] = txHeight'[t]
      /\ first.kind = "heights" /\ first.heights = h
      /\ blocksCall.kind = "saveBlocks" /\ saveCall.kind = "saveContext"
  OBVIOUS
<1>2. HeightsCall = IF changed = {} THEN <<>> ELSE <<first>>
  BY Zenon DEF HeightsCall
<1>3. SaveBlocksCall = <<blocksCall, saveCall>>
  BY DEF SaveBlocksCall
<1>4. made = HeightsCall \o (IF DownloadOver(p, it) THEN SaveBlocksCall ELSE <<>>)
  BY DEF HandlerCalls
<1> HIDE DEF first, blocksCall, saveCall, h
<1>5. CASE changed = {}
  <2>1. made = <<>> \/ made = <<blocksCall, saveCall>>
    BY <1>2, <1>3, <1>4, <1>5
  <2>2. \A i \in DOMAIN made : (i = 1 /\ made[i] = blocksCall) \/ (i = 2 /\ made[i] = saveCall /\ made[1] = blocksCall)
    BY <2>1
  <2>3. made # <<>> => made[1] = blocksCall
    BY <2>1
  <2> QED
    BY <1>1, <1>5, <2>2, <2>3
<1>6. CASE changed # {}
  <2>0. <<first>> \o <<>> = <<first>>
    OBVIOUS
  <2>1. made = <<first>> \/ made = <<first, blocksCall, saveCall>>
    BY <1>2, <1>3, <1>4, <1>6, <2>0, InFrontOfTwo, Zenon
  <2>2. made # <<>> /\ made[1] = first
    BY <2>1
  <2>3. \A i \in DOMAIN made : \/ i = 1
                               \/ i = 2 /\ made[i] = blocksCall
                               \/ i = 3 /\ made[i] = saveCall /\ made[2] = blocksCall
    BY <2>1
  <2>4. \A t \in wallet : txHeight'[t] # txHeight[t] => t \in changed
    OBVIOUS
  <2> HIDE DEF changed
  <2> QED
    BY <1>1, <2>2, <2>3, <2>4
<1> QED
  BY <1>5, <1>6

\* A handler has q call what puts the heights it changed on their way.
LEMMA HandlesSound ==
  ASSUME StoreSound, NEW handler, NEW made, Handles(handler, made), StoreTypes,
         \A i \in DOMAIN made :
           /\ made[i].kind # "savePeers"
           /\ made[i].kind \in {"heights", "transaction"} => i = 1
           /\ made[i].kind = "saveContext" => i # 1 /\ made[i - 1].kind = "saveBlocks",
         made # <<>> => 1 \in DOMAIN made,
         made # <<>> /\ made[1].kind = "heights" =>
           \A t \in DOMAIN made[1].heights : made[1].heights[t] = txHeight'[t],
         made # <<>> /\ made[1].kind = "transaction" => txHeight'[made[1].tx] = TX_UNCONFIRMED,
         \A t \in wallet : txHeight'[t] # txHeight[t] =>
           made # <<>> /\ made[1].kind = "heights" /\ t \in DOMAIN made[1].heights,
         \A t \in wallet' \ wallet :
           /\ txHeight'[t] = TX_UNCONFIRMED
           /\ made # <<>> /\ made[1].kind = "transaction" /\ made[1].tx = t
  PROVE  StoreSound'
<1>1. /\ calls["q"] = <<>> /\ calls' = [calls EXCEPT !["q"] = made]
      /\ UNCHANGED <<jobs, entities, hollow, txEntities, hasChanges, disk, txDisk>>
  BY DEF Handles
<1>2. calls'["q"] = made /\ calls'["main"] = calls["main"]
  BY <1>1 DEF StoreTypes, Thread
<1>3. CallsInOrder'
  BY <1>2 DEF CallsInOrder, StoreSound
<1>4. HeightsOnTheWay'
  <2>1. ASSUME NEW t \in wallet
        PROVE  /\ Registered(jobs, txEntities, t, Len(jobs) + 1)
               /\ txHeight[t] = TX_UNCONFIRMED \/ WillBe(jobs, txEntities, t, txHeight[t], Len(jobs) + 1)
    BY <1>1 DEF StoreSound, HeightsOnTheWay, HeadCall
  <2> QED
    BY <1>1, <1>2, <2>1 DEF HeightsOnTheWay, HeadCall
<1>5. BlocksOnTheWay' /\ StoredSound'
  BY <1>1 DEF StoreSound, BlocksOnTheWay, StoredSound
<1>6. SavesFollowBlocks'
  BY <1>1, <1>2 DEF StoreSound, SavesFollowBlocks, EntitiesConfirmed, HeadCall
<1> QED
  BY <1>3, <1>4, <1>5, <1>6 DEF StoreSound
\* q hands its next call to the context's queue; the others come after it.
LEMMA SubmitFollows ==
  ASSUME StoreTypes, CallsInOrder, NEW th \in Thread, Submit(th)
  PROVE  /\ calls["q"] # <<>> /\ 1 \in DOMAIN calls["q"] /\ calls["q"][1] \in Calls
         /\ calls'["q"] = Tail(calls["q"]) /\ CallsInOrder'
         /\ jobs' = jobs \o Submitted(calls["q"][1])
         /\ ~HeadCall("heights")' /\ ~HeadCall("transaction")'
         /\ HeadCall("saveContext")' => calls["q"][1].kind = "saveBlocks"
         /\ UNCHANGED <<vars, entities, hollow, txEntities, hasChanges, disk, txDisk>>
<1>1. /\ calls[th] # <<>> /\ calls' = [calls EXCEPT ![th] = Tail(@)]
      /\ jobs' = jobs \o Submitted(Head(calls[th]))
      /\ UNCHANGED <<vars, entities, hollow, txEntities, hasChanges, disk, txDisk>>
  BY DEF Submit
<1>2. th = "q" /\ "q" \in Thread /\ "main" \in Thread
  BY <1>1 DEF CallsInOrder, Thread
<1>3. calls["q"] \in Seq(Calls) /\ calls["q"] # <<>>
  BY <1>1, <1>2 DEF StoreTypes
<1>4. calls'["q"] = Tail(calls["q"]) /\ calls'["main"] = calls["main"]
  BY <1>1, <1>2 DEF StoreTypes
<1>5. /\ Head(calls["q"]) = calls["q"][1] /\ 1 \in DOMAIN calls["q"] /\ calls["q"][1] \in Calls
      /\ \A i \in DOMAIN calls'["q"] : i + 1 \in DOMAIN calls["q"] /\ calls'["q"][i] = calls["q"][i + 1]
  BY <1>3, <1>4, TailFacts
<1>6. DOMAIN calls'["q"] \subseteq Nat \ {0} /\ (calls'["q"] # <<>> => 1 \in DOMAIN calls'["q"])
  BY <1>3, <1>4
<1>7. ASSUME NEW i \in DOMAIN calls'["q"]
      PROVE  /\ calls'["q"][i].kind \notin {"savePeers", "heights", "transaction"}
             /\ calls'["q"][i].kind = "saveContext" => calls["q"][i].kind = "saveBlocks"
  <2>1. i \in Nat /\ i # 0 /\ i + 1 # 1 /\ (i + 1) - 1 = i
    BY <1>6
  <2> QED
    BY <1>5, <2>1 DEF CallsInOrder
<1>8. ASSUME NEW i \in DOMAIN calls'["q"], i # 1 PROVE calls["q"][i] = calls'["q"][i - 1]
  <2>1. i \in Nat /\ i - 1 \in DOMAIN calls'["q"] /\ (i - 1) + 1 = i
    BY <1>3, <1>4, <1>6, <1>8
  <2> QED
    BY <1>5, <2>1
<1>9. CallsInOrder'
  BY <1>4, <1>7, <1>8 DEF CallsInOrder
<1> QED
  BY <1>1, <1>2, <1>3, <1>4, <1>5, <1>6, <1>7, <1>9 DEF HeadCall

\* What the block of code does that a call of q adds to the context's queue.
LEMMA SubmittedJobs ==
  ASSUME StoreTypes, NEW c \in Calls
  PROVE  \/ Submitted(c) = <<>> /\ c.kind = "saveContext"
         \/ \E job \in Jobs :
              /\ Submitted(c) = <<job>>
              /\ c.kind = "saveBlocks" => job.kind = "writeBlocks" /\ job.hashes = BlockHashes
              /\ c.kind # "saveBlocks" => job.kind # "writeBlocks"
              /\ job.kind = "save" <=> c.kind = "saveContext"
              /\ c.kind \in {"heights", "transaction"} => job = c
              /\ job.kind \in {"heights", "transaction"} => job = c
<1>1. CASE c.kind = "saveBlocks"
  <2>1. [kind |-> "writeBlocks", hashes |-> BlockHashes] \in Jobs
    BY BlockHashesFacts DEF StoreTypes, Jobs
  <2> QED
    BY <1>1, <2>1 DEF Submitted
<1>2. CASE c.kind = "saveContext"
  <2>1. [kind |-> "save"] \in Jobs
    BY DEF Jobs
  <2> QED
    BY <1>2, <2>1 DEF Submitted
<1>3. CASE c.kind # "saveBlocks" /\ c.kind # "saveContext"
  <2>1. Submitted(c) = <<c>>
    BY <1>3 DEF Submitted
  <2>2. c \in Jobs /\ c.kind \in {"savePeers", "heights", "transaction"}
    BY <1>3 DEF Calls, Jobs
  <2> QED
    BY <2>1, <2>2
<1> QED
  BY <1>1, <1>2, <1>3

LEMMA SubmitSound ==
  ASSUME StoreTypes, ChainSound, StoreSound, LastBlockKept, NEW th \in Thread, Submit(th)
  PROVE  StoreSound'
<1> DEFINE c == calls["q"][1]
           n == Len(jobs) + 1
<1>1. /\ HeadCall(c.kind) /\ c \in Calls /\ jobs \in Seq(Jobs) /\ CallsInOrder'
      /\ jobs' = jobs \o Submitted(c)
      /\ ~HeadCall("heights")' /\ ~HeadCall("transaction")'
      /\ HeadCall("saveContext")' => c.kind = "saveBlocks"
      /\ UNCHANGED <<entities, hollow, txEntities, disk, txDisk, wallet, txHeight>>
  BY SubmitFollows DEF StoreSound, StoreTypes, HeadCall, vars, walletVars
<1>2. n \in Nat /\ n <= Len(jobs) + 1
  BY <1>1, IndexFacts
<1>3. \A kind : HeadCall(kind) => kind = c.kind
  BY DEF HeadCall
<1>4. StoredSound'
  BY <1>1 DEF StoreSound, StoredSound
<1>5. CASE Submitted(c) = <<>> /\ c.kind = "saveContext"
  <2>1. jobs' = jobs
    BY <1>1, <1>5
  <2>2. HeightsOnTheWay'
    BY <1>1, <1>3, <1>5, <2>1 DEF StoreSound, HeightsOnTheWay
  <2>3. BlocksOnTheWay'
    BY <1>1, <2>1 DEF StoreSound, BlocksOnTheWay
  <2>4. SavesFollowBlocks'
    BY <1>1, <1>5, <2>1 DEF StoreSound, SavesFollowBlocks, EntitiesConfirmed
  <2> QED
    BY <1>1, <1>4, <2>2, <2>3, <2>4 DEF StoreSound
<1>6. ASSUME NEW job \in Jobs, Submitted(c) = <<job>>,
             c.kind = "saveBlocks" => job.kind = "writeBlocks" /\ job.hashes = BlockHashes,
             c.kind # "saveBlocks" => job.kind # "writeBlocks",
             job.kind = "save" <=> c.kind = "saveContext",
             c.kind \in {"heights", "transaction"} => job = c,
             job.kind \in {"heights", "transaction"} => job = c
      PROVE  StoreSound'
  <2> DEFINE more == Append(jobs, job)
  <2>1. jobs' = more /\ Len(more) = n
    BY <1>1, <1>6
  <2>2. /\ more[n] = job /\ n \in DOMAIN more
        /\ \A i \in DOMAIN more : i \in Nat /\ i # 0 /\ (i = n \/ (i \in DOMAIN jobs /\ more[i] = jobs[i] /\ i <= n))
        /\ \A i \in DOMAIN jobs : more[i] = jobs[i]
        /\ more # <<>>
    BY <1>1, <1>2, AppendFacts, IndexFacts
  <2>3. HeightsOnTheWay'
    <3>1. ASSUME NEW t \in wallet
          PROVE  /\ Registered(more, txEntities, t, n + 1)
                 /\ \/ txHeight[t] = TX_UNCONFIRMED
                    \/ WillBe(more, txEntities, t, txHeight[t], n + 1)
      <4>1. /\ Registered(jobs, txEntities, t, n) \/ (c.kind = "transaction" /\ c.tx = t)
            /\ \/ txHeight[t] = TX_UNCONFIRMED
               \/ WillBe(jobs, txEntities, t, txHeight[t], n)
               \/ c.kind = "heights" /\ t \in DOMAIN c.heights
        BY <1>3 DEF StoreSound, HeightsOnTheWay
      <4>2. Registered(more, txEntities, t, n + 1)
        BY <1>1, <1>6, <4>1, AppendedEnd DEF Registers
      <4>3. CASE c.kind = "heights" /\ t \in DOMAIN c.heights
        <5>1. c.heights[t] = txHeight[t] /\ SetsHeight(job, t) /\ job = c
          BY <1>1, <1>6, <4>3 DEF StoreSound, HeightsOnTheWay, SetsHeight
        <5>2. Registered(jobs, txEntities, t, n)
          BY <4>1, <4>3
        <5> QED
          BY <1>1, <4>2, <5>1, <5>2, AppendedEnd
      <4>4. CASE c.kind = "transaction" /\ c.tx = t
        BY <1>1, <4>2, <4>4 DEF StoreSound, HeightsOnTheWay
      <4>5. CASE /\ ~(c.kind = "heights" /\ t \in DOMAIN c.heights)
                 /\ ~(c.kind = "transaction" /\ c.tx = t)
        <5>1. ~Registers(job, t) /\ ~SetsHeight(job, t)
          BY <1>6, <4>5 DEF Registers, SetsHeight
        <5> QED
          BY <1>1, <4>1, <4>2, <4>5, <5>1, AppendedEnd
      <4> QED
        BY <4>3, <4>4, <4>5
    <3> HIDE DEF more
    <3> QED
      BY <1>1, <2>1, <3>1 DEF HeightsOnTheWay
  <2>4. BlocksOnTheWay'
    <3> SUFFICES ASSUME NEW i \in DOMAIN more, more[i].kind = "writeBlocks"
                 PROVE  /\ Rooted(more[i].hashes)
                        /\ \A b \in more[i].hashes : \A a \in Anc[b] : \A t \in TxOf[a] :
                             WillBe(more, txEntities, t, Height[a], i)
      BY <1>1, <2>1 DEF BlocksOnTheWay
    <3>1. i \in Nat /\ i <= n
      BY <1>2, <2>2
    <3>2. \A t, v : WillBe(jobs, txEntities, t, v, i) => WillBe(more, txEntities, t, v, i)
      BY <1>1, <3>1, AppendedKeeps
    <3>3. CASE i \in DOMAIN jobs
      <4>1. more[i] = jobs[i]
        BY <2>2, <3>3
      <4> HIDE DEF more
      <4> QED
        BY <3>2, <3>3, <4>1 DEF StoreSound, BlocksOnTheWay
    <3>4. CASE i = n
      <4>1. c.kind = "saveBlocks" /\ more[i].hashes = BlockHashes
        BY <1>6, <2>2, <3>4
      <4>2. TypeOK /\ Traceable /\ AllConfirmed /\ lastBlock \in Block
        BY DEF StoreTypes, ChainSound, TypeOK
      <4>3. Rooted(BlockHashes)
        BY <4>2, BlockHashesRooted
      <4>4. BlockHashes \subseteq Anc[lastBlock]
        BY <4>2, WalkFacts DEF BlockHashes, TypeOK
      <4> HIDE DEF more
      <4>5. ASSUME NEW b \in BlockHashes, NEW a \in Anc[b], NEW t \in TxOf[a]
            PROVE  WillBe(more, txEntities, t, Height[a], i)
        <5>1. a \in Anc[lastBlock] /\ a \in Block
          BY <4>2, <4>4, AncestorFacts
        <5>2. t \in wallet /\ txHeight[t] = Height[a]
          BY <4>2, <5>1 DEF AllConfirmed
        <5>3. Height[a] # TX_UNCONFIRMED
          BY <5>1, HeightBelowUnconfirmed
        <5>4. WillBe(jobs, txEntities, t, Height[a], n)
          BY <1>3, <4>1, <5>2, <5>3 DEF StoreSound, HeightsOnTheWay
        <5> QED
          BY <3>2, <3>4, <5>4
      <4> QED
        BY <4>1, <4>3, <4>5
    <3> QED
      BY <2>2, <3>3, <3>4
  <2>5. SavesFollowBlocks'
    <3>1. ASSUME NEW i \in DOMAIN more, more[i].kind = "save"
          PROVE  IF i = 1 THEN EntitiesConfirmed ELSE more[i - 1].kind = "writeBlocks"
      <4>1. CASE i \in DOMAIN jobs
        <5>1. more[i] = jobs[i] /\ (i # 1 => i - 1 \in DOMAIN jobs)
          BY <1>1, <2>2, <4>1
        <5>2. i # 1 => more[i - 1] = jobs[i - 1]
          BY <2>2, <5>1
        <5> HIDE DEF more
        <5> QED
          BY <3>1, <4>1, <5>1, <5>2 DEF StoreSound, SavesFollowBlocks
      <4>2. CASE i = n
        <5>1. HeadCall("saveContext")
          BY <1>1, <1>6, <2>2, <3>1, <4>2
        <5>2. IF jobs = <<>> THEN EntitiesConfirmed ELSE jobs[Len(jobs)].kind = "writeBlocks"
          BY <5>1 DEF StoreSound, SavesFollowBlocks
        <5>3. jobs = <<>> <=> i = 1
          BY <1>1, <4>2, IndexFacts
        <5>4. jobs # <<>> => i - 1 = Len(jobs) /\ i - 1 \in DOMAIN jobs
          BY <1>1, <4>2, IndexFacts
        <5>5. jobs # <<>> => more[i - 1] = jobs[i - 1]
          BY <2>2, <5>4
        <5> HIDE DEF more
        <5> QED
          BY <5>2, <5>3, <5>4, <5>5
      <4> QED
        BY <2>2, <4>1, <4>2
    <3>2. HeadCall("saveContext")' => more[Len(more)].kind = "writeBlocks"
      BY <1>1, <1>6, <2>1, <2>2
    <3> HIDE DEF more
    <3> QED
      BY <1>1, <2>1, <2>2, <3>1, <3>2 DEF SavesFollowBlocks, EntitiesConfirmed
  <2> QED
    BY <1>1, <1>4, <2>3, <2>4, <2>5 DEF StoreSound
<1> QED
  BY <1>1, <1>5, <1>6, SubmittedJobs
\* What the entities of the transactions are after the queue's first block of code.
LEMMA QueueStep ==
  ASSUME StoreTypes,
         WriteBlocks \/ WriteTransaction \/ WriteHeights \/ WritePeers \/ SaveContext
  PROVE  /\ jobs \in Seq(Jobs) /\ jobs # <<>> /\ jobs' = Tail(jobs) /\ UNCHANGED <<vars, calls>>
         /\ jobs[1].kind = "writeBlocks" => WriteBlocks
         /\ jobs[1].kind = "save" => SaveContext
         /\ \A t \in Tx :
              /\ txEntities[t] # None \/ Registers(jobs[1], t) => txEntities'[t] # None
              /\ ~Registers(jobs[1], t) /\ ~SetsHeight(jobs[1], t) => txEntities'[t] = txEntities[t]
              /\ SetsHeight(jobs[1], t) /\ txEntities[t] # None
                   => txEntities'[t] = jobs[1].heights[t]
<1>1. jobs \in Seq(Jobs) /\ jobs # <<>> /\ jobs' = Tail(jobs) /\ UNCHANGED <<vars, calls>>
  BY DEF WriteBlocks, WriteTransaction, WriteHeights, WritePeers, SaveContext, Job, Done, StoreTypes
<1>2. Head(jobs) = jobs[1] /\ jobs[1] \in Jobs
  BY <1>1, TailFacts
<1>3. /\ txEntities \in [Tx -> Nat \cup {None}] /\ txHeight \in [Tx -> Nat] /\ wallet \subseteq Tx
      /\ None \notin Nat
  BY StoreAssumption DEF StoreTypes, TypeOK
<1>4. CASE WriteTransaction
  <2>1. jobs[1].kind = "transaction"
    BY <1>2, <1>4 DEF WriteTransaction, Job
  <2>2. jobs[1].tx \in Tx
    BY <1>2, <1>3, <2>1 DEF Jobs
  <2>3. IF txEntities[jobs[1].tx] = None
        THEN txEntities' = [txEntities EXCEPT ![jobs[1].tx] = txHeight[jobs[1].tx]]
        ELSE txEntities' = txEntities
    BY <1>2, <1>4 DEF WriteTransaction
  <2> QED
    BY <1>1, <1>3, <2>1, <2>2, <2>3 DEF Registers, SetsHeight
<1>5. CASE WriteHeights
  <2> DEFINE h == jobs[1].heights
  <2>1. jobs[1].kind = "heights"
    BY <1>2, <1>5 DEF WriteHeights, Job
  <2>2. h \in TxHeights
    BY <1>2, <2>1 DEF Jobs
  <2>3. \A t \in DOMAIN h : h[t] \in Nat
    BY <2>2 DEF TxHeights
  <2>4. \A t \in Tx : txEntities'[t] = IF t \in DOMAIN h /\ txEntities[t] # None THEN h[t]
                                       ELSE txEntities[t]
    BY <1>2, <1>5 DEF WriteHeights
  <2> QED
    BY <1>1, <1>3, <2>1, <2>3, <2>4 DEF Registers, SetsHeight
<1>6. CASE WriteBlocks \/ WritePeers \/ SaveContext
  <2>1. jobs[1].kind \in {"writeBlocks", "savePeers", "save"} /\ txEntities' = txEntities
    BY <1>2, <1>6 DEF WriteBlocks, WritePeers, SaveContext, Job
  <2>2. /\ jobs[1].kind = "writeBlocks" => WriteBlocks
        /\ jobs[1].kind = "save" => SaveContext
    BY <1>2, <1>6 DEF WriteBlocks, WritePeers, SaveContext, Job
  <2> QED
    BY <1>1, <2>1, <2>2 DEF Registers, SetsHeight
<1> QED
  BY <1>4, <1>5, <1>6

LEMMA QueueSound ==
  ASSUME StoreTypes, ChainSound, StoreSound,
         WriteBlocks \/ WriteTransaction \/ WriteHeights \/ WritePeers \/ SaveContext
  PROVE  StoreSound'
<1> DEFINE rest == Tail(jobs)
           n == Len(jobs) + 1
<1>1. /\ jobs \in Seq(Jobs) /\ jobs # <<>> /\ jobs' = rest
      /\ UNCHANGED <<calls, wallet, txHeight, blocks>>
  BY QueueStep DEF vars, chainVars, walletVars
<1>2. /\ n \in Nat /\ n > 1 /\ Len(rest) + 1 = n - 1 /\ 1 \in DOMAIN jobs
      /\ \A i \in DOMAIN rest : i \in Nat /\ i # 0 /\ i + 1 \in DOMAIN jobs /\ rest[i] = jobs[i + 1]
      /\ rest \in Seq(Jobs)
  BY <1>1, TailFacts, IndexFacts
<1>3. ASSUME NEW t \in Tx, NEW k \in Nat
      PROVE  /\ Registered(jobs, txEntities, t, k) => Registered(rest, txEntities', t, k - 1)
             /\ \A v : k > 1 /\ WillBe(jobs, txEntities, t, v, k) => WillBe(rest, txEntities', t, v, k - 1)
  <2>1. /\ txEntities[t] # None \/ Registers(jobs[1], t) => txEntities'[t] # None
        /\ ~Registers(jobs[1], t) /\ ~SetsHeight(jobs[1], t) => txEntities'[t] = txEntities[t]
        /\ SetsHeight(jobs[1], t) /\ txEntities[t] # None => txEntities'[t] = jobs[1].heights[t]
    BY QueueStep
  <2>2. Registered(jobs, txEntities, t, k) => Registered(rest, txEntities', t, k - 1)
    BY <1>1, <2>1, PoppedRegistered
  <2>3. ASSUME NEW v, k > 1, WillBe(jobs, txEntities, t, v, k)
        PROVE  WillBe(rest, txEntities', t, v, k - 1)
    BY <1>1, <2>1, <2>3, PoppedWillBe
  <2> QED
    BY <2>2, <2>3
<1>4. CallsInOrder'
  BY <1>1 DEF StoreSound, CallsInOrder
<1>5. HeightsOnTheWay'
  <2>1. ASSUME NEW t \in wallet
        PROVE  /\ \/ Registered(rest, txEntities', t, Len(rest) + 1)
                  \/ HeadCall("transaction") /\ calls["q"][1].tx = t
               /\ \/ txHeight[t] = TX_UNCONFIRMED
                  \/ WillBe(rest, txEntities', t, txHeight[t], Len(rest) + 1)
                  \/ HeadCall("heights") /\ t \in DOMAIN calls["q"][1].heights
    <3>1. t \in Tx
      BY DEF StoreTypes, TypeOK
    <3>2. /\ \/ Registered(jobs, txEntities, t, n)
             \/ HeadCall("transaction") /\ calls["q"][1].tx = t
          /\ \/ txHeight[t] = TX_UNCONFIRMED
             \/ WillBe(jobs, txEntities, t, txHeight[t], n)
             \/ HeadCall("heights") /\ t \in DOMAIN calls["q"][1].heights
      BY DEF StoreSound, HeightsOnTheWay
    <3> HIDE DEF rest, n
    <3> QED
      BY <1>2, <1>3, <3>1, <3>2
  <2> HIDE DEF rest
  <2> QED
    BY <1>1, <2>1 DEF StoreSound, HeightsOnTheWay, HeadCall
<1>6. BlocksOnTheWay'
  <2> SUFFICES ASSUME NEW i \in DOMAIN rest, rest[i].kind = "writeBlocks"
               PROVE  /\ Rooted(rest[i].hashes)
                      /\ \A b \in rest[i].hashes : \A c \in Anc[b] : \A t \in TxOf[c] :
                           WillBe(rest, txEntities', t, Height[c], i)
    BY <1>1 DEF BlocksOnTheWay
  <2>1. /\ i + 1 \in DOMAIN jobs /\ rest[i] = jobs[i + 1] /\ i + 1 \in Nat /\ i + 1 > 1
        /\ (i + 1) - 1 = i
    BY <1>2
  <2> HIDE DEF rest
  <2>2. rest[i].hashes \subseteq Block
    <3>1. rest[i] \in Jobs
      BY <1>2, IndexFacts
    <3> QED
      BY <3>1 DEF Jobs, Branches
  <2>3. ASSUME NEW b \in rest[i].hashes, NEW c \in Anc[b], NEW t \in TxOf[c]
        PROVE  WillBe(rest, txEntities', t, Height[c], i)
    <3>1. WillBe(jobs, txEntities, t, Height[c], i + 1)
      BY <2>1 DEF StoreSound, BlocksOnTheWay
    <3>2. t \in Tx
      BY <2>2, AncestorFacts, DataAssumption
    <3>3. WillBe(rest, txEntities', t, Height[c], (i + 1) - 1)
      BY <1>3, <2>1, <3>1, <3>2
    <3> QED
      BY <2>1, <3>3
  <2> QED
    BY <2>1, <2>3 DEF StoreSound, BlocksOnTheWay
<1>7. ASSUME jobs[1].kind = "writeBlocks"
      PROVE  EntitiesConfirmed' /\ KindsKept(entities') /\ (hollow' \/ StoredRooted(entities'))
             /\ UNCHANGED <<disk, txDisk>>
  <2> DEFINE hashes == jobs[1].hashes
  <2>1. Head(jobs) = jobs[1] /\ WriteBlocks
    BY <1>1, <1>7, QueueStep, TailFacts
  <2>2. /\ entities' = [b \in Block |-> IF b \in hashes THEN blocks[b] ELSE "none"]
        /\ hollow' = (\E b \in hashes : blocks[b] = "none")
        /\ UNCHANGED <<txEntities, disk, txDisk>>
    BY <2>1 DEF WriteBlocks
  <2>3. Rooted(hashes) /\ hashes \subseteq Block
    <3>1. jobs[1] \in Jobs
      BY <1>1, TailFacts
    <3> QED
      BY <1>2, <1>7, <3>1 DEF StoreSound, BlocksOnTheWay, Jobs, Branches
  <2>4. \A b \in hashes : \A c \in Anc[b] : \A t \in TxOf[c] : txEntities[t] = Height[c]
    <3> SUFFICES ASSUME NEW b \in hashes, NEW c \in Anc[b], NEW t \in TxOf[c]
                 PROVE  txEntities[t] = Height[c]
      OBVIOUS
    <3>1. WillBe(jobs, txEntities, t, Height[c], 1)
      BY <1>2, <1>7 DEF StoreSound, BlocksOnTheWay
    <3>2. \A i \in DOMAIN jobs : ~(i < 1)
      BY <1>1, IndexFacts
    <3> QED
      BY <3>1, <3>2 DEF WillBe
  <2> HIDE DEF hashes
  <2>5. \A b \in Block : entities'[b] # "none" => b \in hashes /\ entities'[b] = blocks[b]
    BY <2>2
  <2>6. EntitiesConfirmed'
    BY <2>2, <2>4, <2>5 DEF EntitiesConfirmed, Confirming, StoredBlocks
  <2>7. KindsKept(entities')
    BY <2>5 DEF KindsKept, ChainSound, Traceable, BareIsCheckpoint, CompleteBlocks
  <2>8. hollow' \/ StoredBlocks(entities') = hashes
    BY <2>2, <2>3 DEF StoredBlocks
  <2> QED
    BY <2>2, <2>3, <2>6, <2>7, <2>8 DEF StoredRooted
<1>8. SavesFollowBlocks'
  <2>1. ASSUME NEW i \in DOMAIN rest, rest[i].kind = "save"
        PROVE  IF i = 1 THEN EntitiesConfirmed' ELSE rest[i - 1].kind = "writeBlocks"
    <3>1. i \in Nat /\ i # 0 /\ i + 1 \in DOMAIN jobs /\ jobs[i + 1].kind = "save" /\ (i + 1) - 1 = i
          /\ i + 1 # 1
      BY <1>2, <2>1
    <3>2. jobs[i].kind = "writeBlocks"
      BY <3>1 DEF StoreSound, SavesFollowBlocks
    <3>3. i # 1 => i - 1 \in DOMAIN rest /\ (i - 1) + 1 = i
      BY <1>2, <3>1
    <3>4. i # 1 => rest[i - 1] = jobs[i]
      BY <1>2, <3>3
    <3> QED
      BY <1>7, <3>2, <3>4
  <2>2. ASSUME HeadCall("saveContext")
        PROVE  IF rest = <<>> THEN EntitiesConfirmed' ELSE rest[Len(rest)].kind = "writeBlocks"
    <3>1. jobs[Len(jobs)].kind = "writeBlocks"
      BY <1>1, <2>2 DEF StoreSound, SavesFollowBlocks
    <3>2. rest = <<>> => Len(jobs) = 1
      BY <1>1, <1>2, IndexFacts
    <3>3. rest # <<>> => Len(rest) \in DOMAIN rest /\ Len(rest) + 1 = Len(jobs)
      BY <1>1, <1>2, IndexFacts
    <3>4. rest # <<>> => rest[Len(rest)] = jobs[Len(jobs)]
      BY <1>2, <3>3
    <3> QED
      BY <1>7, <3>1, <3>2, <3>4
  <2> HIDE DEF rest
  <2> QED
    BY <1>1, <2>1, <2>2 DEF SavesFollowBlocks, HeadCall
<1>9. StoredSound'
  <2>1. CASE WriteBlocks
    <3>1. jobs[1].kind = "writeBlocks"
      BY <1>1, <2>1, TailFacts DEF WriteBlocks, Job
    <3> QED
      BY <1>7, <3>1 DEF StoreSound, StoredSound
  <2>2. CASE SaveContext
    <3>1. jobs[1].kind = "save"
      BY <1>1, <2>2, TailFacts DEF SaveContext, Job
    <3>2. EntitiesConfirmed
      BY <1>2, <3>1 DEF StoreSound, SavesFollowBlocks
    <3>3. /\ UNCHANGED <<entities, hollow, txEntities>>
          /\ \/ UNCHANGED <<disk, txDisk>>
             \/ ~hollow /\ disk' = entities /\ txDisk' = txEntities
      BY <2>2 DEF SaveContext
    <3> QED
      BY <3>2, <3>3 DEF StoreSound, StoredSound, EntitiesConfirmed
  <2>3. CASE WriteTransaction \/ WriteHeights \/ WritePeers
    <3>1. UNCHANGED <<entities, hollow, disk, txDisk>>
      BY <2>3 DEF WriteTransaction, WriteHeights, WritePeers
    <3> QED
      BY <3>1 DEF StoreSound, StoredSound
  <2> QED
    BY <2>1, <2>2, <2>3
<1> QED
  BY <1>4, <1>5, <1>6, <1>8, <1>9 DEF StoreSound
\* peer:relayedBlock: keeps the chain sound, and puts on their way the heights it sets.
LEMMA RelayedBlockSound ==
  ASSUME StoreTypes, Extendable, CheckpointsRespected, ChainSound, StoreSound, UsualBranches,
         Interval > 1, NEW p \in Peer, NEW it \in Item, Complete(it), RelayedBlock(p, it),
         LatestStart \/ Height[lastBlock'] <= Height[lastBlock] + 1,
         NEW handler, Handles(handler, HandlerCalls(p, it))
  PROVE  ChainSound' /\ StoreSound'
<1> DEFINE made == HandlerCalls(p, it)
<1>1. TypeOK /\ wallet' = wallet
  BY RelayedBlockWallet DEF StoreTypes
<1>2. Height[lastBlock'] <= Height[lastBlock] + 1
  <2> SUFFICES ASSUME LatestStart PROVE Height[lastBlock'] <= Height[lastBlock] + 1
    OBVIOUS
  <2>1. NoneAboveTip /\ Height[StartCheckpoint] <= Height[lastBlock] /\ lastBlock \in Block
    BY <1>1 DEF Extendable, ChainSound, Traceable, TypeOK
  <2>2. \A c \in Checkpoint : Height[c] <= Height[lastBlock]
    BY <2>1, CheckpointAssumption, TreeAssumption DEF LatestStart
  <2> QED
    BY <1>1, <2>1, <2>2, RelayedBlockSkipsNone
<1>7. ChainSound'
  BY <1>1, <1>2, RelayedBlockTraceable, RelayedBlockComplete, RelayedBlockConfirmsAll DEF ChainSound
<1>3. Handles(handler, made)
  OBVIOUS
<1>4. made # <<>> => 1 \in DOMAIN made
  <2>1. made \in Seq(Calls')
    BY <1>1, HandlerCallsType
  <2> HIDE DEF made
  <2> QED
    BY <2>1
<1>5. /\ \A i \in DOMAIN made :
           /\ made[i].kind \in {"heights", "saveBlocks", "saveContext"}
           /\ made[i].kind = "heights" => i = 1
           /\ made[i].kind = "saveContext" => i # 1 /\ made[i - 1].kind = "saveBlocks"
      /\ \A t \in wallet : txHeight'[t] # txHeight[t] =>
           made # <<>> /\ made[1].kind = "heights" /\ t \in DOMAIN made[1].heights
      /\ made # <<>> /\ made[1].kind = "heights" =>
           \A t \in DOMAIN made[1].heights : made[1].heights[t] = txHeight'[t]
  BY <1>1, HandlerCallsFacts
<1> HIDE DEF made
<1>6. StoreSound'
  BY <1>1, <1>3, <1>4, <1>5, HandlesSound
<1> QED
  BY <1>6, <1>7

\* A transaction is stored before it is confirmed.
LEMMA RelayedTransactionSound ==
  ASSUME StoreTypes, ChainSound, StoreSound, NEW t \in Tx, StoreRelayedTransaction(t)
  PROVE  ChainSound' /\ StoreSound'
<1> DEFINE made == <<[kind |-> "transaction", tx |-> t]>>
<1>1. /\ t \notin wallet /\ wallet' = wallet \cup {t} /\ wallet \subseteq Tx
      /\ txHeight' = [txHeight EXCEPT ![t] = TX_UNCONFIRMED] /\ txHeight \in [Tx -> Nat]
      /\ UNCHANGED <<blocks, lastBlock, orphans, call>>
  BY DEF StoreRelayedTransaction, Handles, RelayedTransaction, chainVars, StoreTypes, TypeOK
<1>2. /\ txHeight'[t] = TX_UNCONFIRMED
      /\ \A u \in wallet : u \in wallet' /\ txHeight'[u] = txHeight[u]
  BY <1>1
<1>3. Traceable'
  BY <1>1 DEF ChainSound, Traceable, BareIsCheckpoint, GapsBelowTransition, AtTransition
<1>4. CompleteBlocks'
  BY <1>1 DEF ChainSound, CompleteBlocks, Complete
<1>5. AllConfirmed'
  BY <1>1, <1>2 DEF ChainSound, AllConfirmed
<1>6. StoreSound'
  <2>1. Handles(RelayedTransaction(t), made)
    BY DEF StoreRelayedTransaction
  <2>2. /\ DOMAIN made = {1} /\ made # <<>> /\ made[1].kind = "transaction" /\ made[1].tx = t
    OBVIOUS
  <2> HIDE DEF made
  <2> QED
    BY <1>1, <1>2, <2>1, <2>2, HandlesSound
<1> QED
  BY <1>3, <1>4, <1>5, <1>6 DEF ChainSound

\* Nothing of what the argument is about changes.
LEMMA SameSound ==
  ASSUME ChainSound, StoreSound,
         UNCHANGED <<blocks, lastBlock, orphans, call, walletVars, storeVars>>
  PROVE  ChainSound' /\ StoreSound'
<1> USE DEF walletVars, storeVars
<1>1. Traceable'
  BY DEF ChainSound, Traceable, BareIsCheckpoint, GapsBelowTransition, AtTransition
<1>2. CompleteBlocks' /\ AllConfirmed'
  BY DEF ChainSound, CompleteBlocks, Complete, AllConfirmed
<1>3. CallsInOrder' /\ HeightsOnTheWay' /\ BlocksOnTheWay'
  BY DEF StoreSound, CallsInOrder, HeightsOnTheWay, BlocksOnTheWay, HeadCall
<1>4. SavesFollowBlocks' /\ StoredSound'
  BY DEF StoreSound, SavesFollowBlocks, EntitiesConfirmed, HeadCall, StoredSound
<1> QED
  BY <1>1, <1>2, <1>3, <1>4 DEF ChainSound, StoreSound

SoundUntilDisturbed == saves \in Nat /\ (rescans = 0 /\ saves = 0 => ChainSound /\ StoreSound)

LEMMA StoreInitSound ==
  ASSUME NoEarlyTx, StoreInit
  PROVE  ChainSound /\ StoreSound
<1>1. Init
  BY DEF StoreInit
<1>2. Traceable
  BY <1>1, InitTraceable
<1>3. CompleteBlocks /\ AllConfirmed
  BY <1>1 DEF Init, CompleteBlocks, LoadedBlocks, NoEntities, AllConfirmed, NoEarlyTx
<1>4. /\ calls["q"] = <<>> /\ calls["main"] = <<>> /\ DOMAIN jobs = {} /\ wallet = {}
  BY <1>1 DEF StoreInit, Init, Thread
<1>5. CallsInOrder /\ HeightsOnTheWay /\ BlocksOnTheWay /\ SavesFollowBlocks
  BY <1>4 DEF CallsInOrder, HeightsOnTheWay, BlocksOnTheWay, SavesFollowBlocks, HeadCall
<1>6. StoredSound
  BY DEF StoreInit, NoEntities, StoredSound, KindsKept, StoredRooted, Confirming, StoredBlocks
<1> QED
  BY <1>2, <1>3, <1>5, <1>6 DEF ChainSound, StoreSound

LEMMA StoreNextSound ==
  ASSUME Interval > 1, UsualBranches
  PROVE  StoreTypes /\ StoredAgree /\ UsableUntilRescan /\ SoundUntilDisturbed
           /\ [StoreNext]_allVars
           /\ (LatestStart \/ [rescans' = 0 => Height[lastBlock'] <= Height[lastBlock] + 1]_lastBlock)
           => SoundUntilDisturbed'
<1>0. saves \in Nat /\ [StoreNext]_allVars => saves' \in Nat
  <2> SUFFICES ASSUME saves \in Nat, [StoreNext]_allVars PROVE saves' \in Nat
    OBVIOUS
  <2>1. /\ \A p \in Peer, it \in Item : StoreReceiveBlock(p, it) => saves' = saves
        /\ StoreConnectOrphan => saves' = saves
        /\ \A t \in Tx : StoreRelayedTransaction(t) => saves' = saves
        /\ \A p \in Peer, h \in LastblockClaims : StoreAcceptVersion(p, h) => saves' = saves
    BY DEF StoreReceiveBlock, StoreConnectOrphan, StoreRelayedTransaction, StoreAcceptVersion, Handles,
           countVars
  <2>2. \A th \in Thread : Submit(th) => saves' = saves
    BY DEF Submit, countVars
  <2>3. WriteBlocks \/ WriteTransaction \/ WriteHeights \/ WritePeers \/ SaveContext => saves' = saves
    BY DEF WriteBlocks, WriteTransaction, WriteHeights, WritePeers, SaveContext, Done, countVars
  <2>4. RelayedPeers \/ ResignActive => saves' = saves + 1
    BY DEF RelayedPeers, ResignActive
  <2>5. StoreRescan \/ Restart \/ UNCHANGED allVars => saves' = saves
    BY DEF StoreRescan, Restart, allVars, countVars
  <2> QED
    BY <2>1, <2>2, <2>3, <2>4, <2>5 DEF StoreNext
<1> SUFFICES ASSUME StoreTypes, StoredAgree, UsableUntilRescan, SoundUntilDisturbed,
                    [StoreNext]_allVars, rescans' = 0, saves' = 0,
                    LatestStart \/ [rescans' = 0 => Height[lastBlock'] <= Height[lastBlock] + 1]_lastBlock
             PROVE  ChainSound' /\ StoreSound'
  BY <1>0 DEF SoundUntilDisturbed
<1>1. TypeOK /\ CheckpointsRespected
  BY DEF StoreTypes, StoredAgree
<1>2. rescans = 0 /\ saves = 0 => Extendable /\ LastBlockKept /\ ChainSound /\ StoreSound
  BY DEF UsableUntilRescan, SoundUntilDisturbed, Extendable
<1>12. LatestStart \/ Height[lastBlock'] <= Height[lastBlock] + 1
  BY <1>1, TreeAssumption DEF TypeOK
<1>3. ASSUME NEW p \in Peer, NEW it \in Item, StoreReceiveBlock(p, it)
      PROVE  ChainSound' /\ StoreSound'
  <2>1. RelayedBlock(p, it) /\ Complete(it) /\ UNCHANGED <<rescans, saves>>
    BY <1>3 DEF StoreReceiveBlock, Handles, ReceiveBlock, RelayedBlock, countVars
  <2> QED
    BY <1>1, <1>2, <1>3, <1>12, <2>1, RelayedBlockSound DEF StoreReceiveBlock
<1>4. CASE StoreConnectOrphan
  <2>1. ConnectOrphan /\ UNCHANGED <<rescans, saves>>
    BY <1>4 DEF StoreConnectOrphan, Handles, ConnectOrphan, RelayedBlock, countVars
  <2>2. call.peer \in Peer /\ call.item \in Item /\ Complete(call.item) /\ RelayedBlock(call.peer, call.item)
    BY <1>1, <1>2, <2>1 DEF ConnectOrphan, TypeOK, ChainSound, CompleteBlocks
  <2> QED
    BY <1>1, <1>2, <1>4, <1>12, <2>1, <2>2, RelayedBlockSound DEF StoreConnectOrphan
<1>5. ASSUME NEW t \in Tx, StoreRelayedTransaction(t) PROVE ChainSound' /\ StoreSound'
  <2>1. UNCHANGED <<rescans, saves>>
    BY <1>5 DEF StoreRelayedTransaction, Handles, RelayedTransaction, countVars
  <2> QED
    BY <1>2, <1>5, <2>1, RelayedTransactionSound
<1>6. CASE UNCHANGED <<blocks, lastBlock, orphans, call, walletVars, storeVars, rescans, saves>>
  BY <1>2, <1>6, SameSound
<1>7. ~StoreRescan
  <2>1. StoreRescan => rescans' = rescans + 1 /\ rescans \in Nat
    BY <1>1, RescanTargetFacts DEF StoreRescan, GoBackTo, TypeOK
  <2> QED
    BY <2>1
<1>8. ~RelayedPeers /\ ~ResignActive
  BY DEF SoundUntilDisturbed, RelayedPeers, ResignActive
<1>9. ASSUME NEW th \in Thread, Submit(th) PROVE ChainSound' /\ StoreSound'
  <2>1. UNCHANGED <<blocks, lastBlock, orphans, call, walletVars, rescans, saves>>
    BY <1>9 DEF Submit, vars, chainVars, countVars
  <2>2. StoreSound'
    BY <1>2, <1>9, <2>1, SubmitSound
  <2>3. Traceable'
    BY <1>2, <2>1 DEF ChainSound, Traceable, BareIsCheckpoint, GapsBelowTransition, AtTransition
  <2>4. CompleteBlocks' /\ AllConfirmed'
    BY <1>2, <2>1 DEF ChainSound, CompleteBlocks, Complete, AllConfirmed, walletVars
  <2> QED
    BY <2>2, <2>3, <2>4 DEF ChainSound
<1>10. CASE WriteBlocks \/ WriteTransaction \/ WriteHeights \/ WritePeers \/ SaveContext
  <2>1. UNCHANGED <<blocks, lastBlock, orphans, call, walletVars, rescans, saves>>
    BY <1>10 DEF WriteBlocks, WriteTransaction, WriteHeights, WritePeers, SaveContext, Done,
                 vars, chainVars, countVars
  <2>2. StoreSound'
    BY <1>2, <1>10, <2>1, QueueSound
  <2>3. Traceable'
    BY <1>2, <2>1 DEF ChainSound, Traceable, BareIsCheckpoint, GapsBelowTransition, AtTransition
  <2>4. CompleteBlocks' /\ AllConfirmed'
    BY <1>2, <2>1 DEF ChainSound, CompleteBlocks, Complete, AllConfirmed, walletVars
  <2> QED
    BY <2>2, <2>3, <2>4 DEF ChainSound
<1>11. CASE Restart
  <2>1. UNCHANGED <<rescans, saves>>
    BY <1>11 DEF Restart
  <2> QED
    BY <1>2, <1>11, <2>1, RestartSound DEF StoreSound, UsualBranches
<1> QED
  BY <1>3, <1>4, <1>5, <1>6, <1>7, <1>8, <1>9, <1>10, <1>11
  DEF StoreNext, StoreAcceptVersion, AcceptVersion, allVars, vars, chainVars, storeVars, countVars

\* The app may be killed at any time, and started again, any number of times: the
\* transactions of the chain it starts from are confirmed on disk.  Until the user
\* rescans, and while the context is saved only at the end of a download, the heights of
\* a block's transactions reach the disk no later than the block: in a wallet younger
\* than the last checkpoint, and in any other as long as its tip skips no block.
THEOREM StoredChainAlwaysConfirmed ==
  ASSUME Interval > 1, ShallowForks, OncePerBranch, NoEarlyTx
  PROVE  StoreSpec /\ (LatestStart \/ TipSkipsNone) =>
           [](rescans = 0 /\ saves = 0 =>
                StoredChainConfirmed /\ AllConfirmed /\ MainChainConfirmed)
<1>1. StoreInit => StoredAgree
  BY InitAgrees DEF StoreInit, StoredAgree, NoEntities
<1>2. StoreInit => UsableUntilRescan
  BY StoreInitUsable
<1>3. StoreInit => SoundUntilDisturbed
  <2> SUFFICES ASSUME StoreInit PROVE SoundUntilDisturbed
    OBVIOUS
  <2>1. saves \in Nat
    BY DEF StoreInit
  <2> QED
    BY <2>1, StoreInitSound DEF SoundUntilDisturbed
<1>4. UsualBranches
  BY DEF UsualBranches
<1>5. StoreTypes /\ SoundUntilDisturbed =>
        (rescans = 0 /\ saves = 0 => StoredChainConfirmed /\ AllConfirmed /\ MainChainConfirmed)
  <2> SUFFICES ASSUME StoreTypes, ChainSound, StoreSound
               PROVE  StoredChainConfirmed /\ AllConfirmed /\ MainChainConfirmed
    BY DEF SoundUntilDisturbed
  <2>1. AllConfirmed
    BY DEF ChainSound
  <2>2. MainChainConfirmed
    BY <2>1 DEF AllConfirmed, MainChainConfirmed, TxHashes
  <2>3. ASSUME NEW b \in Walk(LoadedLastBlock(disk), LoadedBlocks(disk)), NEW t \in TxHashes(b, disk)
        PROVE  txDisk[t] = Height[b]
    <3>1. LoadedLastBlock(disk) \in Block /\ LoadedBlocks(disk) \in [Block -> Kind]
      BY LoadedLastBlockFacts, LoadedBlocksType DEF StoreTypes
    <3>2. b \in Block /\ b \in Anc[b]
      BY <3>1, WalkFacts, AncestorFacts
    <3>3. disk[b] = "merkle" /\ t \in TxOf[b]
      BY DEF TxHashes
    <3> QED
      BY <3>2, <3>3 DEF StoreSound, StoredSound, Confirming, StoredBlocks
  <2> QED
    BY <2>1, <2>2, <2>3 DEF StoredChainConfirmed
<1>6. StoreTypes /\ StoredAgree /\ UsableUntilRescan /\ SoundUntilDisturbed /\ LatestStart
        /\ [StoreNext]_allVars => (SoundUntilDisturbed /\ LatestStart)'
  BY <1>4, StoreNextSound DEF LatestStart
<1>7. StoreTypes /\ StoredAgree /\ UsableUntilRescan /\ SoundUntilDisturbed /\ [StoreNext]_allVars
        /\ [rescans' = 0 => Height[lastBlock'] <= Height[lastBlock] + 1]_lastBlock
        => SoundUntilDisturbed'
  BY <1>4, StoreNextSound
<1>8. StoreSpec => [](StoreTypes /\ StoredAgree /\ UsableUntilRescan)
  BY <1>1, <1>2, StoreTyped, StoreNextAgrees, StoreNextUsable, PTL DEF StoreSpec
<1>9. StoreSpec /\ LatestStart =>
        [](rescans = 0 /\ saves = 0 => StoredChainConfirmed /\ AllConfirmed /\ MainChainConfirmed)
  BY <1>3, <1>5, <1>6, <1>8, PTL DEF StoreSpec
<1>10. StoreSpec /\ TipSkipsNone =>
         [](rescans = 0 /\ saves = 0 => StoredChainConfirmed /\ AllConfirmed /\ MainChainConfirmed)
  BY <1>3, <1>5, <1>7, <1>8, PTL DEF StoreSpec, TipSkipsNone
<1> QED
  BY <1>9, <1>10, PTL
=============================================================================

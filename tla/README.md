# AegisWallet: specifications, model checking and proofs

AegisWallet is an iOS bitcoin wallet of the SPV kind (a fork of breadwallet): it keeps block
headers only, downloads the transactions of its own keys through bloom filters, and persists
what it learns with Core Data.  This directory holds TLA+ modules that model its core, TLC
configurations that check them on small instances, and theorems proved with TLAPS.

Paths below are relative to `src/Aegis Bitcoin Wallet/Aegis Bitcoin Wallet/`; `N` or `N-M`
after a file are its lines.  `PROJECT.json` maps every definition to the lines it models.

## 1. The system

Threads: the *main thread* (user interface, timers, notifications); the serial queue *q* of
`BRPeerManager`, on which every delegate callback of every peer runs; a *run loop per peer*,
which reads and writes its socket; and the private serial *queue of the managed object
context*, on which Core Data is written.  There are almost no locks: what runs on q is
serialised, and everything else is interleaved.

| Component | State | Operations | Hard behaviour |
|---|---|---|---|
| Header chain, `BRPeerManager.m`, `BRMerkleBlock.m` | `blocks`, `lastBlock`, `orphans`, `lastOrphan` | `peer:relayedBlock:`, `rescan` | forks, orphans, reorganisation, freed blocks at difficulty transitions, blocks out of order |
| Chain download, `BRPeerManager.m`, `BRPeer.m` | `downloadPeer`, `connected`, `taskId`, each peer's wire | `peerConnected:`, `blockLocatorArray`, `getblocks`, `getheaders`, `acceptInvMessage:`, `acceptHeadersMessage:`, `syncTimeout`, `syncStopped` | lost connections, headers before blocks, a chain that grows or is left meanwhile, a download that must complete |
| Persistence, `NSManagedObject+Sugar.m`, the `*Entity.m` files | entities in the context, the store | `saveBlocks`, `savePeers`, `saveContext`, `setBlockHeight:forTxHashes:` | queued writes that read live state, crash between any two steps |
| Connections, `BRPeerManager.m`, `BRPeer.m` | `connectedPeers`, `peers`, `misbehavinPeers`, `connectFailures`, a peer's `status` | `connect`, handshake, `disconnectWithError:`, `peer:disconnectedWithError:` | timeouts, a status changed on one thread and read on another, retries and their limit |
| Message protocol, `BRPeer.m` | `currentBlock`, `currentTxHashes`, `requestedBlockHashes`, `knownTxHashes` | `acceptMessage:`, `acceptTxMessage:`, `acceptMerkleblockMessage:`, `rereqeustBlocksFrom:` | a merkleblock waits for its transactions; blocks are requested again after a filter update |
| Publication, `BRPeerManager.m` | `publishedTx`, `publishedCallback`, `txRelays`, `txRejections` | `publishTransaction:completion:`, `txTimeout:`, `peer:requestedTransaction:`, `peer:rejectedTransaction:withCode:` | the timeout races the peers' requests |
| Wallet ledger, `BRWallet.m`, `BRTransaction.m` | `allTx`, `transactions`, `utxos`, `spentOutputs`, `invalidTx`, `balance` | `registerTransaction:`, `removeTransaction:`, `setBlockHeight:forTxHashes:`, `updateBalance`, `transactionForAmounts:` | transactions arrive and are sorted in an order that does not put parents first; double spends |
| Address chains, `BRWallet.m`, `BRBIP32Sequence.m` | `internalAddresses`, `externalAddresses`, `usedAddresses` | `addressesWithGapLimit:internal:` | called from main and q; addresses persisted later, by another queue |
| Seed and keychain, `BRWalletManager.m` | keychain items, the wallet singleton | `setSeed:`, `setKeychainData`, `wallet` | several deletes and writes, each of which may fail or be the last before a crash |
| Screens, `AW*ViewController.m` | user interface | confirm, sign, publish | — |
| Payment requests, keys, encodings, hashes, bloom filter | none | conversions of data | — |

How they interact: `BRPeer` calls the manager back on q (`peerConnected:`,
`peer:relayedBlock:`, `peer:relayedTransaction:`, `peer:disconnectedWithError:`); the manager
calls peers (requests, filters, `disconnect`) and the wallet
(`registerTransaction:`, `setBlockHeight:forTxHashes:`); both call Core Data, which queues.  The
user interface calls the manager from the main thread (`connect`, `rescan`,
`publishTransaction:completion:`), and notifications reset the manager and save it.

What makes each part correct:

- *Header chain*: no branch against a checkpoint is ever kept; the wallet's transactions are
  confirmed exactly as the main chain says, through any reorganisation; freeing old headers
  never removes what the chain still needs; the tip never goes back; orphans are connected.
- *Download*: honest peers are never banned for the wallet's own reordering; the download
  completes, whatever connections are lost.
- *Persistence*: killed at any time, the app restarts with a chain it can go on from, whose
  transactions are confirmed.
- *Messages*: whatever addresses the transactions use up, none of the wallet's is missed; blocks
  reach the manager in order and after their transactions; an honest node is not blamed.
- *Connections*: the loss of the download peer is learned; whoever stops trying has told the user;
  never more than `MAX_CONNECTIONS`.
- *Publication*: the completion is called, with success once at most and with an error once at
  most, never after success; nothing is sent that the wallet has not registered.
- *Ledger*: balance and unspent outputs are those of the valid transactions, whatever order
  they were registered in.

## 2. Modules

| Module | Models | Relation |
|---|---|---|
| `BlockChain` | `peer:relayedBlock:` (938-1109) and what it calls, `rescan` (453-476), the lazy getters `blocks` and `lastBlock` (256-334) | arbitrary peers |
| `ChainSync` | `BlockChain` driven by peers that speak the protocol: locators, `getblocks`/`getheaders`, `inv`/`headers`, the download peer, filters, timeouts, lost connections | extends `BlockChain` |
| `BlockStore` | `BlockChain` with Core Data: calls still to be made, the context's queue, entities, the store, crashes | extends `BlockChain` |
| `BlockTrees` | small block trees used by the instances | — |
| `Wallet` | `BRWallet`: the ledger (183-274, 410-457, 504-526) and the address chains (124-181), with `removeUnrelayedTransactions` and the calls of `peerConnected:` and `relayedBlock:` that change them | independent of the others |
| `PeerMessages` | `BRPeer`'s `inv`, `getdata`, `merkleblock`, `tx` and re-requests, the filter and the addresses behind it | the download peer of `ChainSync` in detail, on one branch |
| `Promise` | what `publishTransaction:completion:` promises | abstract |
| `Publication` | `publishTransaction:completion:`, the timer, the answer to `getdata`, relays and rejections | implements `Promise` |
| `Connections` | `connect`, handshake, `disconnectWithError:`, the download peer, failures and retries | the connections of `ChainSync` in detail, without the chain |
| `MCBlockChain`, `MCChainSync`, `MCBlockStore`, `MCWallet`, `MCPeerMessages`, `MCPublication`, `MCConnections` | the instances TLC checks | — |
| `SharedFacts` | lemmas on natural numbers, finite sets and queues that several proofs use | — |
| `BlockChain_proofs`, `ChainSync_proofs`, `BlockStore_proofs`, `Wallet_proofs`, `Publication_proofs`, `Connections_proofs`, `PeerMessages_proofs` | the theorems about the module of that name; `ChainSync_proofs` and `BlockStore_proofs` extend `BlockChain_proofs` | — |

### BlockChain

A block is an element of a finite tree given by constants (`Parent`, `Height`, `Anc`): hashes
commit to their predecessor, so this is all the data the code compares.  Its proof of work and
merkle root are taken as valid (`BRPeer.m` 870 drops blocks that are not); a wrong difficulty
target is a member of `BadTarget`; age is membership in `Early` (at least a week older than
`earliestKeyTime`) and `Aged` (more than a week old).  The dictionary maps a block to what is
known of it: `"bare"` for an entry made from `checkpoint_array`, which has no `prevBlock` and
stops every walk back; `"header"`; `"merkle"`, with matched transactions.

`RelayedBlock(p, it)` is `peer:relayedBlock:`; its disjuncts are the handler's outcomes:

| Definition | Code (`BRPeerManager.m`) |
|---|---|
| `IgnoreHeader` | a header too new, 942-943 |
| `ReceiveOrphan` | no previous block, 957-978 |
| `Path`, `Freed`, `Kept` | the loop to the transition and the blocks freed beyond, 980-993 |
| `RejectBlock` | wrong difficulty or checkpoint, 995-1009: the blocks are freed before the block is verified |
| `ExtendChain` | 1011-1019 |
| `ReplaceBlock` | a block already known, 1020-1037 |
| `IgnoreOldFork`, `PostponeFork`, `StoreFork`, `Reorganize` | 1038-1082 |
| `BecomesLast`, `call`, `ConnectOrphan` | the tail call on an orphan, 1097-1102, a step of its own: other threads run in between |

`Rescan` is `rescan`; `RescanRaced` is the outcome in which the getter, called on q while
`_lastBlock` is nil, has reloaded the tip from Core Data and the search for a checkpoint is
skipped.  Any peer may relay any block, any number of times, claim any height, and the
merkleblock is relayed once its transactions are registered (`Complete`).

### ChainSync

`Mine` lets a peer's chain grow or be left for a longer one.  `Reply` is the peer's
answer to a request *and* what `BRPeer` does with it (`AfterInv`, `AfterHeaders`: the next
request).  `PeerConnected`, `StartSync` (the request is queued by way of the main thread),
`Receive` and `ReceiveConnected` (the handler, with what it does to connections),
`LoseConnection`, `SyncTimeout`, `RescanFromUI` are the manager's.  The limits 500, 2000, 10 and
10 of the code are the constants `MaxInv`, `MaxHeaders`, `LocatorDense` and `LagTolerance`.
`Eve` is the set of headers for which the two tests of `acceptHeadersMessage:` (697 and 702),
two hours apart, differ.

### BlockStore

A handler appends to `calls` the Core Data calls it makes, in order; `Submit` makes the next one,
which only queues a job (`saveContext` asks `hasChanges` at that moment and may queue nothing);
the `Write...` actions and `SaveContext` are the jobs.  `WriteBlocks` reads the dictionary when it
runs, as the code does: a block freed in between leaves an entity without `blockHash`, which
is mandatory, so that the context cannot be saved (`hollow`).  The heights that a reorganisation sets in several calls
(`BRPeerManager.m` 1073-1077) are one call here, the heights that result: a save of another thread between two of them is left out.  `Restart` is a crash at any point
and the next start, from the store alone.

### Wallet

A transaction is an element of `Tx`, given by the outputs it spends (`Inputs`) and its own
(`Outputs`, each with an address and an amount).  An address is a chain and an index: the n-th
follows from the seed.

| Definition | Code (`BRWallet.m` where no other file is named) |
|---|---|
| `WithGapLimit`, `Refilled`, `FirstUnusedAddress` | `addressesWithGapLimit:internal:`, `receiveAddress`, `changeAddress` |
| `PrepareAddresses`, `FilterLoaded` | the addresses `peerConnected:` generates before it loads the filter, `BRPeerManager.m` 749-750; no transaction arrives before |
| `Sorted`, `Descends` | `sortTransactions`: every sequence the comparison of neighbours allows |
| `StartUpdate`, `UpdateNext`, `UpdateDone` | `updateBalance` |
| `RegisterTransaction`, `Refill` | `registerTransaction:` |
| `RemoveTransaction`, `RemoveDependent`, `RemoveItself` | `removeTransaction:` |
| `RemoveUnrelayed` | `removeUnrelayedTransactions`, `BRPeerManager.m` 630-639 |
| `SetBlockHeight` | `setBlockHeight:forTxHashes:` |
| `ConfirmBlock`, `Reorganize`, `ConfirmBranch` | its calls in `relayedBlock:`, `BRPeerManager.m` 1018 and 1060-1076 |
| `Restart` | `initWithContext:andSeed:` |

`updateBalance` is a loop of steps, with its local variables in `loop`, because the main thread
generates addresses while it runs on q, and whether an output is the wallet's own depends on them.
`removeTransaction:` calls itself on the transactions that depend on its argument and calls
`updateBalance` in every call: `removing` holds its frames.  A transaction may be in
several frames, and is then removed when it is gone already: its height is that of no object, 0.
A reorganisation first unconfirms everything above the join and then confirms the new branch
*from the tip down*, so that a child is confirmed while its parent is not: `branch` holds what is
left to do, and the ledger is computed in each of these states.

The environment is the network's chain: what it confirms has parents before children and
spends nothing twice (`OfOneChain`); the wallet's own parents of what is confirmed are registered by then, as `PeerMessages` shows.  A collection that one thread changes while another reads it
is read as it was before or after the change.  `Restart` finds all transactions and addresses again,
the transactions in no order; what a crash loses of them is the matter of `BlockStore`.

### PeerMessages

Three threads: the node at the other end (external, as BIP 37 has it), the run loop of the
`BRPeer`, and q.  `wire` and `out` are the connection, `loop` what other threads have asked the run
loop to do, `queue` the delegate callbacks waiting for q.  A transaction is given by the addresses of
the wallet's chain that it pays (`Pays`) and the transactions it spends (`Spends`); a filter is the
number of addresses and the outputs it was built from, and matches `FalsePositives` too.

| Definition | Code (`BRPeer.m` where no other file is named) |
|---|---|
| `AcceptInv`, `Remembered`, `SendGetData` | 588-650, 643-649, 396-427: the next `getblocks`, the request, the hashes kept, the filter sent again after so many blocks |
| `AcceptMerkleblock`, `Superseded`, `Missing` | 848-881: the copy of a block that was requested again is dropped; transactions the block waits for |
| `AcceptTx`, `IncompleteBlock` | 652-681, 463-469 |
| `RequestAgain` | `rereqeustBlocksFrom:`, 443-456 |
| `Connect`, `Handshake`, `LoseConnection` | what `connect` resets (151-158), `peerConnected:` (`BRPeerManager.m` 741-773), what a disconnection drops |
| `RelayedTransaction`, `NewFilter`, `WithGapLimit`, `Known` | `BRPeerManager.m` 859-909 and 365-398, `BRWallet.m` 124-181 and 394-408 |
| `RelayedBlock` | the extending and replacing outcomes of `peer:relayedBlock:`, `BRPeerManager.m` 1011-1037: the chain here is one branch |

`skipped` records that a re-request was not made, or was lost with the connection.  Left out: pings,
`addr`, the framing, malformed messages.  A block is mined only when all earlier ones are announced:
one that comes earlier is an orphan, which is `ChainSync`'s matter.  An `inv` or `getdata` longer than
MAX_GETDATA_HASHES is dropped (398, 598): no `inv` of a download or re-request here can be, the former having 500 blocks
at most and the latter MAX_GETDATA_HASHES.

### Promise and Publication

`Promise` is the contract: five kinds of steps on what was accepted, registered, given to a peer,
reported to the completion and settled.  `Publication` has the main thread with its blocks (`main`)
and timers, and q with its blocks (`queue`).  The answer to a `getdata` is four steps on q
(`RequestedTransaction`, `Register`, `Callback`, `SendTx`), since the main thread runs in between; all
other handlers are one.  A peer is `"connected"`, `"closing"` or `"gone"`, and q learns of its end later
(`attached`).  `Broadcast` is the merchant of a payment request who gets the transaction too
(`AWSendViewController.m` 553-623).  A node rejects only what it was given.  `NewWallet` is `setSeed:` or a wallet that does not match the
keychain (`BRWalletManager.m` 246-277, 207-224), `SeedObserver` the block it leads to.

The refinement mapping: `settled` is what is in a block, or everything once the wallet is another
one; the rest has the same names.  That the completion is called with an error and then with success is
*not* excluded by `Promise`, because the code does it (section 4).

### Connections

Each connection has a run loop (`runLoop`), with its socket, its connect timer (`timer`) and the closings
it was asked for (`closes`).  `Asked` is `disconnectWithError:`: the status changes at once, from any
thread; the rest is a block of the run loop, if there is one (208), and only a call on the peer's own
thread cancels the timer (198 cancels the requests of the *calling* thread's run loop).  So one
connection may be closed, and reported, several times.

| Definition | Code (`BRPeerManager.m` where no other file is named) |
|---|---|
| `Open`, `Version`, `Verack`, `Timeout`, `Break`, `Close` | `BRPeer.m` 162-189, 489-535, 239-249, 178-181, 994-1052, 210-226 |
| `Connect`, `ConnectPeers`, `Present`, `Room` | `connect`, 400-451 |
| `PeerConnected`, `Chosen` | 715-785 |
| `DisconnectedWithError`, `DownloadPeerLost`, `Limited`, `Retry`, `GivesUp`, `TriesAgain` | 787-828 |
| `SyncStopped`, `SyncTimeout`, `PeerMisbehavin`, `Downloaded`, `ResignActive`, `SeedObserver`, `Rescan`, `UserConnects` | whatever else disconnects or connects |

Left out, besides the chain: reachability, the list of addresses (every connection is to an address not
tried before), and a `BRPeer` that connects again before its last run loop has stopped.  Scheduling
and canceling `syncTimeout` and telling the user that there are no peers happen at once.

## 3. Runs

All trees have a difficulty interval of 2 blocks (2016 in the code) so that a branch of 8 blocks
crosses three transitions: the first that frees nothing, one that frees checkpoints and the
genesis block, and a fork across one.

| Run | Instance | Shows |
|---|---|---|
| `forks` | 11 blocks: a main branch, a fork that starts at a transition and overtakes it, a block of wrong target; 3 transactions: before the fork, on one branch, on both at different heights | every order of blocks, also repeated and as headers, keeps confirmations, tip, transition block and orphans right |
| `rescan` | two checkpoints, a branch against the second, one rescan | checkpoints hold on every path into the dictionary, rescans and their race included |
| `sync_split` | two honest peers on two branches, one overtakes; one lost connection; `inv` and `headers` of 2 | nobody honest is banned; the wallet follows the longer branch with its transactions; the download completes, unless its tip is the last header that is old enough and blocks are requested, time and again, from after the one it needs |
| `sync_rescan` | a wallet that was used in the block of the second checkpoint already, whose download starts at the first; two honest peers that have both in their past; one rescan while the branch grows | the tip skips no block until the rescan; no honest peer banned, every transaction of the chain confirmed, after the rescan too |
| `sync_boundary` | no lost connection | *finding*: the download may never complete |
| `store_restart` | a fork across a transition, one crash | the store always holds a usable chain whose transactions are confirmed; after a restart the chain's transactions are |
| `store_saves` | one save by the main thread or by relayed addresses, one rescan, one crash | the store always holds a usable chain |
| `wallet` | 4 transactions: a payment, two that spend it, one that spends the change of the first; 2 heights, one restart | whatever the order in which transactions arrive, are confirmed, reorganised, removed or sorted: unspent outputs and balance are those of the valid transactions, of rivals at most one is valid, and removal leaves nothing that depends on what was removed |
| `messages` | 5 blocks: payments to addresses beyond the filter, one spent in the block after it, a false positive; `inv` of 1, 4 hashes kept, the filter sent again after 3 blocks, one lost connection | no transaction of the followed blocks is missed where the re-request was made; blocks come in order and after their transactions; an honest node is not blamed within a connection; the download completes |
| `messages_missed` | 3 blocks, announced in one `inv`, the first outgrows the filter; no lost connection | *finding*: nothing is requested again |
| `publication` | one transaction, two peers, two blocks waiting for q besides the disconnections | publishing implements `Promise`; the completion is called, or the transaction settled; relays and rejections are of peers that are there; no transaction held by a peer is removed |
| `connections` | three addresses, two connections, two failures, one break from outside (error, misbehaviour, resigning, rescan, new wallet) | the loss of the download peer is always learned, unless it was gone when chosen; a manager that stops trying has told the user, unless it passed the limit or has such a peer |

Where a cfg says `CHECK_DEADLOCK FALSE` the instance is finite and ends: all blocks received, no
rescan, lost connection, break, address or restart left.  The runs of `Wallet` check deadlock.

### Bounds, and why they are enough

- *Trees*: what the handler tests is the block's place relative to the tip, to the last two
  transitions, to the checkpoints and to the fork's join.  With an interval of 2 the trees
  hold every such case: below, at and above each.  `BlockTrees` says what each tree is for.
- *Peers*: one is enough where peers are arbitrary (`BlockChain`, `BlockStore`), since its
  claimed height may change at each connection; two in `ChainSync`, to be interleaved, replaced
  and on different branches.
- `MaxRescans`, `MaxDrops`, `MaxRestarts`, `MaxSaves` are 0 or 1: each such event may come at any
  point.  `MaxJobs` 3 is the longest queue one handler and one save produce.
- *Transactions*: four are the least with two rivals and one transaction that depends on one of them, so
  that invalidity must be passed on, and removal must go through a chain of dependent
  ones.  Two heights hold parent and child in one block or in two; `Gap` is 1 so that a payment to the second
  address uses the limit up, and `PrepareAddresses` generates twice that.  All transactions use
  addresses within the gap.  A payment beyond it is not recognised, and `OffersEveryUnspent` would not hold: this
  is the protocol of address chains (BIP 32), not a fault of the code.
- *Messages*: five blocks are the least in which the addresses are used up twice, one of the times
  with blocks on the way, and the filter is sent again for its block count; `MaxHashes` 4 is less
  than the chain, so that hashes are dropped; with `MaxInv` 1 a request follows another, so that copies
  of a block overlap.  `MaxDrops` 1: the connection may be lost at any point, and what it leaves meets the next one.
- *Publication*: the tables are by transaction and no step relates two of them; two peers ask, relay, reject, leave and
  return in any order.  `MaxQueue` 2 lets a relay, a rejection or a block of one peer wait behind the `getdata`
  of another.  A disconnection always fits.
- *Connections*: with two connections, the download peer and another one; a third address to replace
  one of them.  Heights 5 and 20 are on both sides of the 10 blocks that a peer may be behind.
  `MaxFailures` 2 instead of 20: one failure before the last, and the last.  The peers are interchangeable (symmetry);
  no liveness is checked there.
- `sync_boundary` and `messages_missed` have the least that shows the finding.

### Fairness

`FairSyncSpec` assumes weak fairness of: `PeerConnected` (a disconnection calls `connect`, the
user interface does too, and peers that are there answer), `StartSync` and `Taken`/`CallMade` (the
main queue and q run what is dispatched), `Reply` and `ReceiveTx` (a connected peer answers, and a
matched transaction precedes its merkleblock), `SyncTimeout` (a timer fires).  It assumes nothing
of `Mine`, `LoseConnection` or a rescan.  `Taken` and `CallMade` state fairness on the wire and
the pending call alone, which keeps TLC's liveness graph small: each is enabled exactly when the
handler is.  That the peers are honest is part of the liveness runs: a peer that relays
transactions for ever stalls the download, as the code's own comment at 589 says.

`FairSpec` of `PeerMessages` assumes weak fairness of the run loop's actions, q's and an honest node's
answers (each of them takes the head of a queue), and of `Connect` (a lost connection leads to `connect`; see
`Connections` for when it does not).  It assumes nothing of `Mine`, `Announce` or `LoseConnection`.
`FairSpec` of `Publication` assumes that the main thread and q drain their queues and that a
scheduled timer fires, and nothing of any peer: that an answer comes (`PromiseAnswered`) rests on
the timer alone.  `Spec` of `Connections` has no fairness; its properties are about what has been set under
way, not about when it ends.

## 4. Findings

1. `sync_boundary` (`BRPeer.m` 702): when a download resumes at the last early header, the search
   for the first header too new starts at the second one: blocks are requested from after the first
   header, whose own block is never sent.  All that follows is orphaned, on every attempt.
2. `messages_missed` (`BRPeer.m` 447): `rereqeustBlocksFrom:` looks the manager's last block up among the
   hashes this connection has announced.  In the first blocks of a connection the last block is from
   before it and is not found, so nothing is requested again, although the comment at `BRPeerManager.m`
   904 says so; payments in the blocks on their way, to addresses the old filter did not have, are missed.

The following are stated as properties too.  TLC finds each of them violated by what the code does, with the cfg
named, which is kept beside the runs; they are not among the runs of `PROJECT.json`.

| Property, cfg | Code | What happens | Said otherwise |
|---|---|---|---|
| `LastBlockKept`, `ChainSyncNewBlock.cfg` | `BRPeerManager.m` 989 | a block at a transition, mined during a rescan, frees the chain being rescanned before it is postponed | 1045: "mark as orphan til we're caught up" |
| `ConfirmedBelowTip`, `ChainSyncSwitch.cfg` | `BRPeerManager.m` 1011 | a rescan that ends on another branch does not reorganise, and leaves the transactions of the old branch confirmed | 1067: "mark transactions after the join point as unconfirmed" |
| `WritesAreSaved`, `BlockStoreUnsaved.cfg` | `NSManagedObject+Sugar.m` 261 | `saveContext` asks for changes before the write queued just before it has made any | 258: "persists changes" |
| `InputsOfValidAreValid`, `WalletInvalid.cfg` | `BRWallet.m` 228 | `updateBalance` looks at transactions in the order of their registration: a child that arrives before its parent is found valid before its parent is found invalid | 465: "no input tx is invalid" |
| `HonestNotBlamed` of `PeerMessages`, `PeerMessagesBlamed.cfg` | `BRPeer.m` 151-158, 463 | `connect` does not reset `currentBlock`: after a connection lost between a merkleblock and its transactions, the next version message is an "incomplete merkleblock", and the peer is found to misbehave | `BRPeerManager.m` 792: "the peer isn't following the rules" |
| `CanceledIsNotSent`, `PublicationCanceled.cfg` | `BRPeerManager.m` 1113-1130 | the timer fires between the lookup for a `getdata` and the answer: the screen hears that the transaction was canceled, then it is registered and sent, and the completion is called again, with success | 583: "transaction canceled, network timeout" |
| `DownloadPeerIsThere`, `Connections.cfg` with it as an invariant | `BRPeerManager.m` 737 | `peerConnected:` chooses among `connectedPeers`, which may hold a peer that is already disconnected and reported: the manager is connected to nobody and does not look for another peer | 731: "we're already connected to a download peer" |
| `NotifiedOrTrying`, the same | `BRPeerManager.m` 812-824 | `connectFailures`, not limited when the peer lost was not the download peer, passes the maximum: neither `==` nor `<` holds, nobody connects again and nobody is told | 45: "notify user of network problems after this many connect failures in a row" |

Observed, but not promised otherwise anywhere in the repository:

- The checkpoint that a rescan starts from is looked up in `blocks` (`BRPeerManager.m` 461-464), where a difficulty transition may have freed it.
- With `MaxSaves = 1`, `StoredChainConfirmed` does not hold.  The main thread may save between the
  handler's `lastBlock = block` (1017) and `setBlockHeight:` (1018); an app killed after that restarts
  above a block whose transactions are never confirmed.
- A block on top of a checkpoint later than the tip, relayed by a peer that does not claim to be higher than the tip, is
  taken for a longer fork (957, 1046, 1055-1082: its previous block, the checkpoint, is in the dictionary), and the tip
  jumps to it: the blocks in between are never asked for.  TLC finds `MainChainConfirmed` violated in four steps on `LineTree` with
  a transaction below the second checkpoint.  The download starts at the latest checkpoint before the wallet's
  first use (321-329), so only a checkpoint that an older or restored wallet was used before can have this effect; and only
  while the chain is not behind the peer (1046), which a peer with that checkpoint in its past rules out.  `TipSkipsNone` states
  that the tip skips no block: `sync_rescan` checks it for such peers, and section 5 proves it for them
  (`DownloadSkipsNone`) and for wallets younger than the last checkpoint (`NewWalletSkipsNone`).
- The comment at 1039 speaks of the most recent checkpoint, where the code compares with
  `BITCOIN_REFERENCE_BLOCK_HEIGHT`, 250000: forks between that and the checkpoint at 302400 are kept
  (`IgnoreOldFork` is what the code does).
- A re-request that is lost with its connection is not made again on the next one; and when the filter
  is sent again after many blocks (`BRPeer.m` 420-423) it is the cached one, without the outputs registered
  since.
- A transaction registered from the mempool that spends an output and pays the wallet nothing back (an
  emptied wallet) may stay unconfirmed.  When the connection is lost before its block, the filter of the next one is
  built from the unspent outputs (`BRPeerManager.m` 392), among which the output it spends no longer is, and the
  node does not match it.  With two transactions, one paying the wallet and one spending it all, three blocks and one lost
  connection, TLC finds `NothingMissed` violated.
- With a rescan in the instance of `sync_split`, TLC finds `CatchesUpOrStops` violated: a transition of the other peer's branch
  frees the block that the rescan went back to (as in `ChainSyncNewBlock.cfg`), and whatever is sent on top of it is an orphan
  for ever, although it is requested again and again.
- A late relay puts a confirmed transaction back into `publishedTx` and `txRelays`.  Between the removal of
  the completion on q (1126) and the cancelation of the timer on the main thread (1129) the timer may still take the
  transaction out of `publishedTx`, silently, and later peers that ask for it get `notfound`.
- The dictionaries of published transactions are used on the main thread and on q without a lock; the
  modules take each of their operations as one step.
- The walk of a reorganisation (1058-1061) may find no join.  Below the blocks that transitions have freed, blocks may be
  received again from an earlier checkpoint, and are kept as a fork when they are above `BITCOIN_REFERENCE_BLOCK_HEIGHT`
  (250000; the checkpoints go up to 302400).  A fork that is more than two difficulty intervals long is then longer
  *downwards* than what is left of the main chain; when it wins, the main chain's transactions stay confirmed.
  TLC finds it in 16 steps with 14 blocks, main chain 0 to 8, fork 5 to 9, one checkpoint at 4, `Interval` 2,
  `ReferenceHeight` 0.
- Giving up (816) empties `connectedPeers` without disconnecting those that are still connecting.

## 5. Proofs

### BlockChain

`BlockChain_proofs` proves, for every tree, set of peers, interval, and number of rescans:

| Theorem | States | Argument |
|---|---|---|
| `TypeCorrect` | `Spec => []TypeOK` | one lemma per operator that produces a value (`DictionaryType`, `ReorganizeType`...), one step per outcome of the handler |
| `CheckpointsAlwaysRespected` | `Spec => []CheckpointsRespected` | inductive with `TypeOK`: a block that passed the tests has a parent in the dictionary that agrees with the checkpoints, and is itself one or at no checkpoint's height (`VerifiedAgrees`); nothing else enters the dictionary (`DictionaryAgrees`), and a rescan starts at a checkpoint (`RescanStartFacts`, `StartAgrees`) |
| `TipOnlyRises` | `Spec => TipNeverLower` | an extension is one higher, a reorganisation strictly higher, a replaced tip is the tip |
| `LastBlockAlwaysKept` | `Spec => [](rescans = 0 => LastBlockKept)` | from `Extendable`, below |
| `DifficultyAlwaysCheckable` | `Spec => [](rescans = 0 => DifficultyCheckable)` | from `Extendable`: the walk back from the tip meets a block at the latest transition |
| `NoOrphanLeftWaiting` | `Spec => [](rescans = 0 => NoConnectableOrphan)` | a conjunct of `Extendable` |

None of the last three is inductive.  `Extendable` strengthens them together: the tip is in the dictionary; no block
other than a checkpoint is above it (`NoneAboveTip`); entries without `prevBlock` are at transitions
(`BareAtTransition`); from every block at or above the latest transition the walk back stays in the dictionary down to that
transition (`HighBackToTransition`); and no orphan waits for the tip.  `NoneAboveTip` is what makes the freeing loop
harmless: a block that attaches is at most one above the tip, so nothing at the tip's height is freed.
The confirmations need more than that.  These hold under hypotheses, `TipSkipsNone` on the behaviour and the others on the tree;
`BlockChain` defines them (and `ChainSync` `PastCheckpoints`), and TLC evaluates those on the trees in the runs (`ForksAssumption`, `BranchesAssumption`, `StoredForksAssumption`):

| Theorem | States | Hypotheses |
|---|---|---|
| `ConfirmedAlwaysOnMainChain` | `Spec => [](rescans = 0 => ConfirmedOnMainChain)` | `ShallowForks` |
| `NewWalletSkipsNone` | `Spec => TipSkipsNone` | `LatestStart` |
| `AllAlwaysConfirmed` | `Spec /\ TipSkipsNone => [](rescans = 0 => AllConfirmed)` | `ShallowForks`, `OncePerBranch`, `NoEarlyTx` |
| `MainChainAlwaysConfirmed` | `Spec /\ TipSkipsNone => [](rescans = 0 => MainChainConfirmed)` | the same: `AllConfirmed` implies it |
| `LowestAlwaysAtTransition` | `Spec => []LowestAtTransition`, rescans included | `NoOldForks` |
| `TransitionAlwaysFound` | `Spec => []` "the walk from a block at a transition finds the previous one", rescans included | `NoOldForks` |

- `ShallowForks`: from a block at a transition to any block at its height, one below or above, the join is at most
  an interval (2016 blocks, two weeks of work) back.  Without it a reorganisation may find no join (section 4).
- `NoOldForks`: nothing branches off more than an interval below a transition.  Without it an old fork that is
  sent late is measured from a transition that was freed, and its peer is blamed.
- `OncePerBranch`: a branch holds a transaction once, as the protocol demands.
- `NoEarlyTx`: no transaction of the wallet before its `earliestKeyTime`, nor below the checkpoint the download starts at:
  only headers are downloaded there.
- `TipSkipsNone`: the tip rises one block at a time.  It does not follow from `Spec`, whose peers may claim any height: the tip
  of a wallet that is older than a checkpoint may jump there (section 4).  It holds in a wallet younger than the last checkpoint,
  whose download starts there (`LatestStart`), whoever serves it; and in every wallet, when the checkpoints that come with the app are
  in the past of the peers (`PastCheckpoints`, for the download, below): a block on top of a checkpoint not yet reached is then
  postponed (`RelayedBlockSkipsNone`).

The heart of the first is that the two walks of a reorganisation meet.  `GapsBelowTransition` says that a block whose predecessor is
missing, checkpoints apart, lies more than an interval below a transition that the tip has come to; by `ShallowForks` it is on the other branch too,
and checkpoints are, because both branches agree with them (`EndShared`).  So where one of the walks ends is a block of
both branches, and the one that ends higher is a block of both walks (`WalksMeet`).  `Traceable` collects this, from
`Extendable` and `CheckpointsRespected`.  For the second, `CompleteBlocks` says that of a block that is neither early nor a
checkpoint the dictionary has the merkleblock, never a header; what a reorganisation confirms is then all of the
new branch above the join, and what was below it was confirmed before.  `LowestAtTransition` is kept by the loop that frees:
it stops at a transition, and by `NoOldForks` what it frees has no other branch on it.

The hypothesis `rescans = 0` is needed: a rescan lowers the tip and keeps the higher blocks, and
`ChainSyncNewBlock.cfg` shows the counterexample.  So is `Interval > 1` (2016 in the code): with an interval of 1
every block is a transition and frees its predecessor.

They rest on the assumptions of `BlockChain`: `TreeAssumption` and `BranchAssumption` (hashes commit to
the previous block), `CheckpointAssumption` (checkpoints lie on one branch, at transitions, as
`checkpoint_array` does) and `DataAssumption` (types).  TLC evaluates them on every instance.

### ChainSync

`ChainSync_proofs` proves, for all peers, their chains, limits of `inv` and `headers`, and numbers of rescans and lost
connections:

| Theorem | States | Argument |
|---|---|---|
| `SyncTypeCorrect` | `SyncSpec => []SyncTypeOK` | with the messages and requests under way |
| `DownloadIsChain` | `SyncSpec => Spec` | the download implements `BlockChain`: each of its steps is one of `BlockChain`'s or leaves the chain alone (`StepOfChain`) |
| `DownloadRespectsCheckpoints` | `SyncSpec => []CheckpointsRespected` | from `DownloadIsChain` |
| `DownloadSkipsNone` | `SyncSpec => TipSkipsNone` | under `PastCheckpoints`, for wallets of any age.  `CheckpointsPassed`: whoever is connected, or has sent what is still on its way, being requested or about to be connected (`Heard`), said at its connection that its chain is as high as every checkpoint |
| `DownloadConfirmsAll` | `SyncSpec => [](rescans = 0 => AllConfirmed /\ MainChainConfirmed /\ ConfirmedOnMainChain)` | from `DownloadIsChain` and `DownloadSkipsNone`, under `PastCheckpoints`, `ShallowForks`, `OncePerBranch` and `NoEarlyTx` |
| `HonestNeverBlamed` | `SyncSpec => []HonestNotBlamed`, rescans included | `NoOldForks`, and all chains valid |

The last: what is on a wire, waits as an orphan or is about to be connected is a block of one of the peers' chains
(`SoundBlocks`), so its target is right and no checkpoint contradicts it; and by `LowestAtTransition` its transition
is found.  That *all* peers' chains are valid is needed: an orphan is connected as if the last
peer had sent it (1097-1102), and that peer is blamed for it.

### BlockStore

`BlockStore_proofs` proves, for the same trees and any number of saves, rescans and restarts:

| Theorem | States | Argument |
|---|---|---|
| `StoreTypeCorrect` | `StoreSpec => []StoreTypeOK` | `StoreTypes`: it also says that what is stored lies on one branch, and what is in the calls and jobs |
| `StoredChainRespectsCheckpoints` | `StoreSpec => []CheckpointsRespected` | `StoredAgree`: entities and store hold blocks that agree with the checkpoints, so a restart or a rescan that reloads them does too.  The actions of `BlockChain` are covered by its own lemmas |
| `StoredChainAlwaysUsable` | `StoreSpec => [](rescans = 0 => StoredChainUsable)` | `UsableUntilRescan`: `Extendable` of `BlockChain`, and `KeptEntities`: store, and entities unless the context cannot be saved, are `Loadable` (the end of a branch down to its transition), and so is what a `WriteBlocks` still queued will write.  `ReloadedExtendable` closes the circle: what is loaded from a `Loadable` store is `Extendable` again |
| `StoredChainAlwaysConfirmed` | `StoreSpec /\ (LatestStart \/ TipSkipsNone) => [](rescans = 0 /\ saves = 0 => StoredChainConfirmed /\ AllConfirmed /\ MainChainConfirmed)` | under `ShallowForks`, `OncePerBranch` and `NoEarlyTx`, for any number of restarts; `ChainSound` and `StoreSound`, below |

`StoredChainConfirmed` speaks of the store alone, and what will be stored depends on the order in which the queue writes
blocks, heights and saves.  `StoreSound` follows the queue instead: `WillBe(t, n)` is the height a transaction's entity will
have when the queue comes to its n-th job.  The height of a wallet's transaction is in its entity, or will be when the queue is
through, or is in the handler's next call (`HeightsOnTheWay`); when the queue comes to writing a chain, the heights of all
its transactions will be in their entities (`BlocksOnTheWay`), because q submits them first (`CallsInOrder`); and a save
comes right behind the write of a chain (`SavesFollowBlocks`).  Hence whatever a save stores is
confirmed (`StoredSound`), and what a restart loads is `ChainSound` again.  `saves = 0` is needed (section 4).

### Wallet

`Wallet_proofs` proves, for every finite set of transactions, whatever they spend, all gap limits, heights
and numbers of restarts, every property that the run `wallet` checks:

| Theorem | States | Argument |
|---|---|---|
| `TypeCorrect` | `Spec => []TypeOK` | that the list holds every registered transaction once survives insertion, removal at an index, and every sort (`Sorted`); inductive with the types of the loop's variables |
| `OnlyUnspentOffered` | `Spec => []OffersOnlyUnspent` | `LoopSound`: at every step of the loop, what is spent is what the transactions seen so far and not found invalid spend, and what is unspent is theirs and not spent.  Addresses are only added meanwhile, so outputs stay the wallet's own |
| `EveryUnspentOffered` | `Spec /\ []KnownAddresses => []OffersEveryUnspent` | `LoopComplete`: the other half of `LoopSound`.  `KnownAddresses` says that a registered transaction pays, of the wallet's chains, generated addresses only; the run satisfies it.  Without it the property does not hold (section 3, *Transactions*) |
| `BalanceAlwaysSum` | `Spec => []BalanceIsSum` | `Balanced`: so does the balance of the loop at each of its steps, from what adding and removing one output, or a set of them, do to a sum (`TotalStep`, `TotalUnion`, `TotalWithout`) |
| `NeverDoubleSpent` | `Spec => []NoDoubleSpend` | `Ordered`: in the list no unconfirmed transaction is older than a confirmed one, although the sort compares neighbours only, and two confirmed ones never spend the same output; so the loop, from the oldest on, meets the confirmed ones first, and every later rival is unconfirmed and found invalid (`LoopSpendsOnce`).  A reorganisation needs `InChain`: what is confirmed and what the branch has yet to confirm are one chain |
| `DependentsAlwaysRemoved` | `Spec => DependentsRemoved` | `FramesCover`: what depends on the argument of a frame of `removeTransaction:` is removed already or still listed in the frame, and whatever a frame lists is unconfirmed (`RemovesUnconfirmed`), so that nothing confirmed depends on it (`ParentsInChain`) |

They rest on `LedgerAssumption`, and `NeverDoubleSpent` and `DependentsAlwaysRemoved` on the chain being one (`OfOneChain` in the
guards of `ConfirmBlock` and `Reorganize`).  `ConfirmedBelowTip` (section 4) shows that a rescan may break exactly this,
by leaving transactions of another branch confirmed: the theorems are about wallets that never
ended a rescan on another branch.

A sum over a set is defined by recursion.  The induction theorems of the library take an operator as a
parameter, which the installed provers do not instantiate; `SharedFacts` has induction on the size of a finite set
with a *set* of subsets instead (`InductionOnSize`), from the least element of a set of numbers, and that
`Total` is what its definition says (`SumExists`, `SumUnique`) follows from it.

### Publication

`Publication_proofs` proves, for any transactions, any finite set of peers and any number of waiting blocks:

| Theorem | States | Argument |
|---|---|---|
| `EveryCompletionHasTimer` | `Spec => []CompletionHasTimer` | from `IInv`, with `Untouched`: while the completion is in the table, no block that cancels the timer is on its way |
| `PublicationKeepsPromise` | `Spec => PromiseKept`: every behaviour of `Publication` is one of `Promise`, without its liveness | the initial states map to initial states, and every action to one of `Promise` or a stutter (`StepPromised`, one lemma per action that is not always a stutter) |
| `CompletionFollowed` | `Spec => []IInv` | the inductive invariant below |
| `PublicationTypeCorrect` | `Spec => []PublicationTypeOK` | the limit of q's queue needs `QueueLimit`: what waits besides disconnections, and one place for each peer that has yet to leave |
| `OnlyPeersCounted` | `Spec => []OnlyPeersThatAreThere` | from `PeersInv`, below |
| `AlwaysKeptWhileHeld` | `Spec => KeptWhileHeld` | from `PeersInv`, below |

`CompletionHasTimer` and `Promise` are not inductive as they stand.  `IInv` follows the completion: it is in
the table (`Untouched`), or the `getdata` being answered has it (`AnswerOpen`), or one block of the main thread does
(`CalledOnce`, `CalledOpen`), and never two of the last three; what is about to be reported or sent is registered
or settled (`Backed`); and nothing but accepted transactions is in any table, block or answer (`OnlyAccepted`), which is what makes a
new wallet settle all.  One lemma per action shows that it is kept; `Elsewhere` does so for all actions that
leave the main thread alone.

`PeersInv` (`PeersFollowed`) adds the peers, in four layers, each of which uses those before it:

1. `Heard`: q has a peer's disconnection before it, or the peer is there; what waits on q is of peers that q knows, and nothing waits behind a
   peer's disconnection that is of that peer.
2. `Asked`, `Given`: a `getdata` of a peer for a transaction waits or is being answered once at most; whoever holds or rejects a
   transaction was given it.
3. `Tabled`, `OnlyPeersThatAreThere`: a rejection is of a transaction that has an entry in `txRelays`; the
   disconnection looks through these entries only, and finds all.
4. `Held`, `SeedSeen`: what a peer holds is in the wallet, and confirmed or counted as relayed by that peer, until
   the wallet is another one.

They rest on `PublicationAssumption` (the set of peers is finite; `None` is no peer).

### Connections

`Connections_proofs` proves, for any set of peers, limits, heights and number of breaks, every property that the run
`connections` checks:

| Theorem | States | Argument |
|---|---|---|
| `ConnectionsTypeCorrect` | `Spec => []ConnectionsTypeOK` | among the types, that there are never more than `MaxConnections` peers |
| `DownloadPeerAlwaysWatched` | `Spec => []DownloadPeerWatched` | needs `Watched`: a peer that a block of q is about to call connected runs, or its disconnection is queued *behind* that block |
| `NeverStopsSilently` | `Spec => []StopsOnlyWhenNotified` | whatever ends the last thing under way connects again, or tells the user; with the exceptions that the property names (section 4) |
| `ConnectionsFollowed` | `Spec => []IInv` | the three, with `Threads` (a connection that is not disconnected has a run loop, and a timer one that has run), `DownloadPeerChosen` and `Watched` |

They rest on `ConnectionsAssumption`.

### PeerMessages

`PeerMessages_proofs` proves, for any chain and transactions, whatever they pay and spend, any false positives, gap limit,
sizes of `inv` and `getdata`, and number of lost connections:

| Theorem | States | Argument |
|---|---|---|
| `MessagesTypeCorrect` | `Spec => []MessagesTypeOK` | `Typed`: with the types of the messages under way (`Queues`) and of each stage of a connection (`Stages`): the filter is sent first, so that the node has one when it is asked for blocks |
| `HonestWithinOneConnection` | `Spec => []HonestWithinConnection` | `Honest`: behind a merkleblock on the connection comes, before anything that is not a transaction, every one of its transactions that the peer does not know by then; and what the node leaves out because it has announced it, the peer knows or is told of before (`ToldIn`) |
| `BlocksAlwaysInOrder` | `Spec => []InOrder` | `Ordered`, below |
| `TransactionsAlwaysBeforeBlock` | `ChanceIsForeign`, `ParentsFirst` prove `Spec => []TransactionsBeforeBlock` | `InTime`, below |

`InOrder` says nothing of what is on its way.  `Ordered` follows each copy of a block through the connection:

- `Flow` is the copies that will come: those on `wire`, and those that the requests in `out` and `loop` will bring.
  `requested` is how many of each there are.  This is why a copy may be dropped when the count is more than one: a later one
  is under way.
- `Covered`: every block after `lastBlock`, up to the last one requested (`Top`), is handed over or in `Flow`, and the *last*
  copies are in the order of the chain, after what is handed over.
- `Asked`: beyond `Top` the chain is asked for once at a time, from `Top` on: `Asks`, the `getblocks` and announcements of blocks
  under way, has one member at most.
- `AgainBelow`: a re-request starts at a block that the manager has, so what it adds to `Flow` begins at most one
  block after `lastBlock`.

A request appends its copies at one end, the node replaces a `getdata` by the same copies, and the peer
takes the first: `Gather`, which concatenates what each message of a queue stands for, turns every step into a
change at one place.  It is defined by recursion; what it does to a concatenation is proved from
`CountingUp` (a set of numbers that contains 0 and each successor is all of them), in place of induction.

`TransactionsBeforeBlock` has to be followed from the announcement of a transaction, or from the node's answer, to the
wallet, by way of five queues, and through a chain of transactions that spend from one another.  The node leaves out of a
block what it told of, and the peer does not ask twice for what it knows: each counts on what the other
has under way.

- A message *gives* transactions and *needs* others; a queue is `Supplied` when each message finds what it needs, of what
  was told of, given before it, and gives only what the wallet has a `Reason` to know when it comes: an address it
  has, or an output of one given before.  So on q (`AtManager`), on `wire` (`OnWire`), in the requests not yet
  answered (`InRequests`), and in the announcements not yet taken (`InAll`), each after those before.
- `CountedOn`: what the peer knows is in the requests at the latest, and all that was told is under way.  `FiltersOwn`:
  the outputs in the node's filter too, which is why what it matches will be known.  `Real`: only blocks that were
  found and transactions that were told of are announced and asked for.
- The node's answer is where the hypotheses are used: a block's matched transactions are sent in its order
  (`KeepsOrder`), so that a parent comes before its child, or was told of, or is in an earlier block.

The hypotheses are not of the code.  `ParentsFirst` is a rule of the network: in a block, or an earlier one, comes what a
transaction spends from.  `ChanceIsForeign` says that what a filter matches by chance is not the wallet's.  Without it
the property is false: a transaction that the filter matches by chance may come before the one that makes the wallet
generate the address it pays: it is not registered, and not sent again with its block.  TLC finds it with two
transactions, the second a false positive, `Gap` 1 and one block.  The instances that TLC checks fulfil both
(`UsualTransactions`).

They rest on `MessageAssumption`.  That `MaxHashes` is more than 1 (50000 in the code) is needed: of the hashes kept,
half remain when there are too many, and the last one requested has to be among them.

### Only model-checked

- Liveness (`CatchesUpOrStops`, `Downloaded`, `PromiseAnswered`...): fairness and ENABLED are out of the prover's reach.
- The chain's properties after a rescan, besides types, checkpoints, `LowestAtTransition` and that nobody is blamed: `sync_rescan`
  and `store_saves` check them on instances; in general they do not hold (section 4).
- `NothingMissed`: it does not hold for all constants, nor under the hypotheses of `TransactionsAlwaysBeforeBlock`: a
  spend without change may be missed (section 4), and so may a payment beyond the gap limit, in a block that was followed
  before the wallet generated that address: the re-request starts at the last block.

## 6. Not modelled, and the plan

Left out for good: cryptography, encodings, parsing of payment requests, third-party code, the
screens' layout, the arithmetic of difficulty targets and of the bloom filter's false positives.  Coin
selection, fees, the amounts shown and `balanceHistory` (`BRWallet.m` 323-367, 528-601) change no state of
the ledger.  `setSeed:` and the keychain are straight-line code that no other code recovers from; what a new
wallet does to the rest is `NewWallet` and `SeedObserver`.

Done: `BlockChain`, `ChainSync`, `BlockStore`, `Wallet`, `PeerMessages`, `Publication`, `Connections`.  What
may come next, in order:

1. *Proofs*: `NothingMissed`, under hypotheses on what transactions pay and that a spend leaves change; the chain after a rescan that stays on its branch.
2. *Connections*: reachability and a `BRPeer` used again; the list of addresses.
3. *The seed-changed observer* in the middle of a handler on q, for the chain; the way of addresses and transactions to Core Data.
4. *Pure algorithms*: the reorganisation's loop against `JoinHeights`, the locator array
   against `LocatorOffset`, the merkle tree's walk.

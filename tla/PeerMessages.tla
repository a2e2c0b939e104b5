---------------------------- MODULE PeerMessages ----------------------------
(***************************************************************************)
(* How the download peer's merkleblocks and transactions get through: the  *)
(* messages of BRPeer, the bloom filter the peer's node applies, and the   *)
(* part of BRPeerManager and BRWallet that keeps the filter up to date     *)
(* with the addresses in use.                                              *)
(*                                                                         *)
(* Three threads: the run loop of the peer (`loop' is what others asked it *)
(* to do), the queue q (`queue' is what the run loop asked of it) and the  *)
(* node at the other end.  `out' and `wire' are the two directions of the  *)
(* connection.                                                             *)
(*                                                                         *)
(* The blocks are one branch, 1, 2, 3...: forks and orphans are the        *)
(* subject of BlockChain, headers and other peers that of ChainSync.       *)
(***************************************************************************)
EXTENDS Integers, Sequences, FiniteSets, SequencesExt

CONSTANTS
  Length,        \* bound: the height of the chain
  FirstHeight,   \* the node's chain at the first connection
  Tx,            \* the transactions there may be
  TxIn,          \* those in each block, in order
  Pays,          \* the addresses of the wallet's chain each of them pays
  Spends,        \* the transactions each of them spends an output of
  FalsePositives,\* those that any filter matches
  Gap,           \* SEQUENCE_GAP_LIMIT_EXTERNAL
  MaxInv,        \* how many hashes answer getblocks: 500
  MaxHashes,     \* MAX_GETDATA_HASHES
  FilterBlocks,  \* BLOCK_DIFFICULTY_INTERVAL, after so many the filter is sent again
  None,          \* nil
  MaxDrops       \* bound: how often the connection is lost

Block == 1..Length

ASSUME MessageAssumption ==
  /\ Length \in Nat /\ FirstHeight \in 0..Length
  /\ TxIn \in [Block -> Seq(Tx)]
  /\ Pays \in [Tx -> SUBSET Nat] /\ Spends \in [Tx -> SUBSET Tx]
  /\ FalsePositives \subseteq Tx
  /\ Gap \in Nat \ {0} /\ MaxInv \in Nat \ {0}
  /\ MaxHashes \in Nat \ {0, 1}  \* half of them are kept: with one, none would be
  /\ FilterBlocks \in Nat /\ MaxDrops \in Nat
  /\ None \notin [block : Block, txs : SUBSET Tx, missing : SUBSET Tx]
  /\ None \notin [addresses : Nat, outputs : SUBSET Tx]

VARIABLES
  \* on q
  lastBlock,     \* the height of the manager's chain
  wallet,        \* the registered transactions
  confirmed,     \* those of them that have a block height
  addresses,     \* how many addresses the wallet has
  bloomFilter,   \* the manager's _bloomFilter, or None
  queue,         \* the delegate callbacks still to run
  \* of BRPeer, on its run loop
  status, current, knownTx, blockHashes, requested, filterBlockCount, loop,
  \* the network and the node
  out, wire, height, nodeFilter, told,
  \* what has happened
  blamed,        \* the peer was found to misbehave
  skipped,       \* a re-request was not made, or was lost with the connection
  drops

managerVars == <<lastBlock, wallet, confirmed, addresses, bloomFilter>>
messageVars == <<current, knownTx, blockHashes, requested, filterBlockCount>>
nodeVars == <<height, nodeFilter, told>>
historyVars == <<blamed, skipped, drops>>
vars == <<managerVars, queue, status, messageVars, loop, out, wire, nodeVars, historyVars>>

----------------------------------------------------------------------------
(***************************************************************************)
(* The wallet and the filter.  An output is named after its transaction.   *)
(***************************************************************************)
Known(t, n, txs) == (\E a \in Pays[t] : a < n) \/ Spends[t] \cap txs # {}

UnspentOutputs == {t \in wallet : /\ \E a \in Pays[t] : a < addresses
                                  /\ \A u \in wallet : t \notin Spends[u]}

\* addressesWithGapLimit: when the wallet has n addresses and holds txs.
WithGapLimit(n, txs, limit) ==
  LET used == {a \in UNION {Pays[t] : t \in txs} : a < n}
      unused == CHOOSE k \in 0..n : /\ k > 0 => k - 1 \in used
                                    /\ \A a \in used : a < k
  IN  IF unused + limit > n THEN unused + limit ELSE n

\* The bloomFilter getter builds one if there is none: from all addresses and
\* unspent outputs.
Filter == [addresses : Nat, outputs : SUBSET Tx]

\* Mutant of NewFilter: built before the addresses are generated.
FilterTooEarly == [addresses |-> addresses, outputs |-> UnspentOutputs']

NewFilter == [addresses |-> addresses', outputs |-> UnspentOutputs']

PaysTo(t, f) == \E a \in Pays[t] : a < f.addresses

Matches(t, f) == t \in FalsePositives \/ PaysTo(t, f) \/ Spends[t] \cap f.outputs # {}

----------------------------------------------------------------------------
(***************************************************************************)
(* The node.                                                               *)
(***************************************************************************)
\* BLOOM_UPDATE_ALL: a filter takes up the outputs that it matches.
Grown(f, txs) == [f EXCEPT !.outputs = @ \cup {t \in txs : PaysTo(t, f)}]

TxMessage(t) == [type |-> "tx", tx |-> t]
Inv(txs, bs) == [type |-> "inv", txs |-> txs, blocks |-> bs]
Merkleblock(b, txs) == [type |-> "merkleblock", block |-> b, matched |-> txs]
FilterLoad(f) == [type |-> "filterload", filter |-> f]
GetBlocks(b) == [type |-> "getblocks", from |-> b]
GetData(txs, bs) == [type |-> "getdata", txs |-> txs, blocks |-> bs]

\* Those of s that are in S, in their order.
Those(s, S) ==
  LET taken[n \in 0..Len(s)] ==
        IF n = 0 THEN <<>>
        ELSE IF s[n] \in S THEN Append(taken[n - 1], s[n]) ELSE taken[n - 1]
  IN  taken[Len(s)]

BlockTxs(bs) == UNION {ToSet(TxIn[b]) : b \in ToSet(bs)}

\* A merkleblock, and those of its matched transactions the peer is not known to have.
BlockAnswer(b, f) ==
  LET matched == Those(TxIn[b], {t \in Tx : Matches(t, f)})
      new == Those(matched, Tx \ told)
  IN  <<Merkleblock(b, ToSet(matched))>> \o [i \in DOMAIN new |-> TxMessage(new[i])]

\* The answers to a getdata for the blocks bs.
Answers(bs) ==
  FlattenSeq([i \in DOMAIN bs |-> BlockAnswer(bs[i], Grown(nodeFilter, BlockTxs(SubSeq(bs, 1, i))))])

Connected == status = "connected"

NodeAnswers ==
  /\ out # <<>> /\ out' = Tail(out)
  /\ LET m == Head(out)
     IN  \/ /\ m.type = "filterload"
            /\ nodeFilter' = m.filter
            /\ UNCHANGED wire
         \/ /\ m.type = "getblocks"
            /\ LET n == IF height - m.from < MaxInv THEN height - m.from ELSE MaxInv
               IN  wire' = IF n = 0 THEN wire
                           ELSE Append(wire, Inv(<<>>, [i \in 1..n |-> m.from + i]))
            /\ UNCHANGED nodeFilter
         \/ /\ m.type = "getdata"
            /\ nodeFilter' = Grown(nodeFilter, BlockTxs(m.blocks))
            /\ wire' = wire \o [i \in DOMAIN m.txs |-> TxMessage(m.txs[i])] \o Answers(m.blocks)
  /\ UNCHANGED <<managerVars, queue, status, messageVars, loop, height, told, historyVars>>

\* The node announces a transaction of its mempool that matches the filter.
Announce(t) ==
  /\ Connected /\ nodeFilter # None
  /\ t \notin told /\ Matches(t, nodeFilter)
  /\ \A b \in 1..height : t \notin ToSet(TxIn[b])
  /\ told' = told \cup {t}
  /\ nodeFilter' = Grown(nodeFilter, {t})
  /\ wire' = Append(wire, Inv(<<t>>, <<>>))
  /\ UNCHANGED <<managerVars, queue, status, messageVars, loop, out, height, historyVars>>

\* All blocks of the node's chain were announced, and the announcements have come.
Announced ==
  /\ \A i \in DOMAIN wire : wire[i].type = "inv" => wire[i].blocks = <<>>
  /\ \A m \in ToSet(loop) \cup ToSet(out) : m.type # "getblocks"

\* A block is found, and announced.  One found earlier in a download would reach the
\* manager as an orphan: see ChainSync.
Mine ==
  /\ height < Length /\ height' = height + 1
  /\ \/ /\ Connected /\ nodeFilter # None /\ Announced
        /\ wire' = Append(wire, Inv(<<>>, <<height'>>))
     \/ status = "disconnected" /\ UNCHANGED wire
  /\ UNCHANGED <<managerVars, queue, status, messageVars, loop, out, nodeFilter, told, historyVars>>

----------------------------------------------------------------------------
(***************************************************************************)
(* BRPeer, on its run loop.                                                *)
(***************************************************************************)
\* What the run loop does next of what it was asked to: send a message...
Send ==
  /\ loop # <<>> /\ Head(loop).type # "rerequest"
  /\ loop' = Tail(loop) /\ out' = Append(out, Head(loop))
  /\ UNCHANGED <<managerVars, queue, status, messageVars, wire, nodeVars, historyVars>>

\* sendGetdataMessageWithTxHashes:andBlockHashes: counts the blocks requested, and
\* sends the filter again when too many were.  messages is what precedes it.
SendGetData(messages, txs, bs) ==
  LET again == filterBlockCount + Len(bs) > FilterBlocks
  IN  /\ requested' = [b \in Block |-> requested[b] + (IF b \in ToSet(bs) THEN 1 ELSE 0)]
      /\ filterBlockCount' = (IF again THEN 0 ELSE filterBlockCount) + Len(bs)
      /\ loop' = messages \o (IF again THEN <<FilterLoad(bloomFilter)>> ELSE <<>>)
                          \o <<GetData(txs, bs)>>

Rerequest(b) == [type |-> "rerequest", from |-> b]

\* ... or request the blocks from a given one on again.
RequestAgain ==
  /\ loop # <<>> /\ Head(loop).type = "rerequest"
  /\ LET b == Head(loop).from
         rest == SubSeq(blockHashes, SelectInSeq(blockHashes, LAMBDA x : x = b), Len(blockHashes))
     IN  \/ /\ b \in ToSet(blockHashes)
            /\ blockHashes' = rest
            /\ SendGetData(Tail(loop), <<>>, rest)
            /\ UNCHANGED skipped
         \/ /\ b \notin ToSet(blockHashes)
            /\ loop' = Tail(loop)
            /\ skipped' = TRUE
            /\ UNCHANGED <<blockHashes, requested, filterBlockCount>>
  /\ UNCHANGED <<managerVars, queue, status, current, knownTx, out, wire, nodeVars, blamed, drops>>

\* A message is taken from the connection: unless it is a transaction, no merkleblock
\* may be waiting for its transactions.
Accept(type) ==
  /\ wire # <<>> /\ Head(wire).type = type
  /\ wire' = Tail(wire)
  /\ type # "tx" => current = None

\* Mutant of Remembered: never limits them.
Unlimited(s) == s

\* The hashes kept for a re-request, MaxHashes at most.
Remembered(s) ==
  IF Len(s) > MaxHashes THEN SubSeq(s, Len(s) - MaxHashes \div 2 + 1, Len(s)) ELSE s

AcceptInv ==
  /\ Connected /\ Accept("inv")
  /\ LET m == Head(wire)
         txs == Those(m.txs, Tx \ knownTx)
         full == IF Len(m.blocks) >= MaxInv THEN <<GetBlocks(m.blocks[Len(m.blocks)])>> ELSE <<>>
     IN  /\ knownTx' = knownTx \cup ToSet(txs)
         /\ IF txs = <<>> /\ m.blocks = <<>>
            THEN loop' = loop \o full /\ UNCHANGED <<requested, filterBlockCount>>
            ELSE SendGetData(loop \o full, txs, m.blocks)
         /\ blockHashes' = Remembered(blockHashes \o Those(m.blocks, Block \ ToSet(blockHashes)))
  /\ UNCHANGED <<managerVars, queue, status, current, out, nodeVars, historyVars>>

TxCallback(t) == [type |-> "tx", tx |-> t]
BlockCallback(b, txs) == [type |-> "block", block |-> b, txs |-> txs]

\* Mutant of Superseded: counts the copy that has come.
AlreadySuperseded(n) == n > 0

\* A copy of a block that was requested n times is dropped, but for the last one.
Superseded(n) == n > 1

\* Mutants of Missing: the block does not wait, and it waits for all.
NoneMissing(txs) == {}
AllMissing(txs) == txs

\* The transactions a merkleblock waits for: those not announced before.
Missing(txs) == txs \ knownTx

AcceptMerkleblock ==
  /\ Connected /\ Accept("merkleblock")
  /\ LET m == Head(wire)
         n == requested[m.block]
         missing == Missing(m.matched)
     IN  /\ requested' = [requested EXCEPT ![m.block] = IF n = 0 THEN 0 ELSE n - 1]
         /\ \/ Superseded(n) /\ UNCHANGED <<current, queue>>
            \/ /\ ~Superseded(n) /\ missing # {}
               /\ current' = [block |-> m.block, txs |-> m.matched, missing |-> missing]
               /\ UNCHANGED queue
            \/ /\ ~Superseded(n) /\ missing = {}
               /\ queue' = Append(queue, BlockCallback(m.block, m.matched))
               /\ UNCHANGED current
  /\ UNCHANGED <<managerVars, status, knownTx, blockHashes, filterBlockCount, loop, out, nodeVars, historyVars>>

AcceptTx ==
  /\ Connected /\ Accept("tx")
  /\ LET t == Head(wire).tx
         relayed == Append(queue, TxCallback(t))
     IN  \/ current = None /\ queue' = relayed /\ UNCHANGED current
         \/ /\ current # None /\ current.missing \ {t} # {}
            /\ queue' = relayed
            /\ current' = [current EXCEPT !.missing = @ \ {t}]
         \/ /\ current # None /\ current.missing \subseteq {t}
            /\ queue' = Append(relayed, BlockCallback(current.block, current.txs))
            /\ current' = None
  /\ UNCHANGED <<managerVars, status, knownTx, blockHashes, requested, filterBlockCount, loop, out, nodeVars, historyVars>>

\* acceptMessage: finds a merkleblock incomplete, which is a protocol error: the manager
\* moves the peer to misbehavinPeers.
IncompleteBlock ==
  /\ status # "disconnected"
  /\ wire # <<>> /\ Head(wire).type # "tx" /\ current # None
  /\ current' = None /\ blamed' = TRUE
  /\ status' = "disconnected" /\ queue' = <<>> /\ loop' = <<>> /\ out' = <<>> /\ wire' = <<>>
  /\ nodeFilter' = None /\ told' = {}
  /\ UNCHANGED <<managerVars, knownTx, blockHashes, requested, filterBlockCount, height, skipped, drops>>

----------------------------------------------------------------------------
(***************************************************************************)
(* The connection.  The handshake is one message here.                     *)
(***************************************************************************)
\* Mutant of Connect: does not reset requestedBlockHashes.
ConnectAsItWas ==
  /\ status = "disconnected" /\ ~blamed
  /\ status' = "connecting"
  /\ knownTx' = {} /\ blockHashes' = <<>>
  /\ wire' = <<[type |-> "version"]>>
  /\ UNCHANGED <<managerVars, queue, current, requested, filterBlockCount, loop, out, nodeVars, historyVars>>

\* connect resets what BRPeer keeps, but not the merkleblock that is waiting.
Connect ==
  /\ status = "disconnected" /\ ~blamed
  /\ status' = "connecting"
  /\ knownTx' = {} /\ blockHashes' = <<>> /\ requested' = [b \in Block |-> 0]
  /\ wire' = <<[type |-> "version"]>>
  /\ UNCHANGED <<managerVars, queue, current, filterBlockCount, loop, out, nodeVars, historyVars>>

\* The handshake is over, and peerConnected: makes this the download peer.
Handshake ==
  /\ status = "connecting" /\ Accept("version")
  /\ status' = "connected"
  /\ addresses' = WithGapLimit(addresses, wallet, 2 * Gap)
  /\ UNCHANGED <<lastBlock, wallet, confirmed>>
  /\ bloomFilter' = NewFilter
  /\ loop' = <<FilterLoad(bloomFilter')>> \o
             (IF lastBlock < height THEN <<GetBlocks(lastBlock)>> ELSE <<>>)
  /\ filterBlockCount' = 0
  /\ UNCHANGED <<queue, current, knownTx, blockHashes, requested, out, nodeVars, historyVars>>

\* Blocks that the manager has followed are to come again.
AgainUnderWay ==
  \/ \E m \in ToSet(loop) : m.type = "rerequest"
  \/ \E b \in 1..lastBlock : requested[b] > 0
  \/ current # None /\ current.block <= lastBlock
  \/ \E m \in ToSet(queue) : m.type = "block" /\ m.block <= lastBlock

\* A network error.  The callbacks still queued do nothing: they ask for the status.
LoseConnection ==
  /\ Connected /\ drops < MaxDrops /\ drops' = drops + 1
  /\ status' = "disconnected" /\ queue' = <<>> /\ loop' = <<>> /\ out' = <<>> /\ wire' = <<>>
  /\ nodeFilter' = None /\ told' = {}
  /\ skipped' = (skipped \/ AgainUnderWay)
  /\ UNCHANGED <<managerVars, messageVars, height, blamed>>

----------------------------------------------------------------------------
(***************************************************************************)
(* The manager, on q.                                                      *)
(***************************************************************************)
\* peer:relayedTransaction: registers it.  When it used up addresses so that the next
\* ones are not in the filter, more are generated, the filter is sent, and what was
\* requested with the old one is requested again.
RelayedTransaction ==
  /\ queue # <<>> /\ Head(queue).type = "tx"
  /\ queue' = Tail(queue)
  /\ LET t == Head(queue).tx
         txs == wallet \cup {t}
         n == WithGapLimit(addresses, txs, Gap)
     IN  \/ /\ ~Known(t, addresses, wallet)
            /\ UNCHANGED <<wallet, addresses, bloomFilter, loop, filterBlockCount>>
         \/ /\ Known(t, addresses, wallet) /\ n <= bloomFilter.addresses
            /\ wallet' = txs /\ addresses' = n
            /\ UNCHANGED <<bloomFilter, loop, filterBlockCount>>
         \/ /\ Known(t, addresses, wallet) /\ n > bloomFilter.addresses
            /\ wallet' = txs /\ addresses' = WithGapLimit(n, txs, 2 * Gap)
            /\ bloomFilter' = NewFilter /\ filterBlockCount' = 0
            /\ loop' = loop \o <<FilterLoad(bloomFilter'), Rerequest(lastBlock)>>
  /\ UNCHANGED <<lastBlock, confirmed, status, current, knownTx, blockHashes, requested, out, wire, nodeVars, historyVars>>

\* peer:relayedBlock: takes the next block, and gives those of its transactions that
\* the wallet has their height, as it does for a block it already had.
RelayedBlock ==
  /\ queue # <<>> /\ Head(queue).type = "block"
  /\ queue' = Tail(queue)
  /\ LET b == Head(queue).block
     IN  /\ lastBlock' = IF b = lastBlock + 1 THEN b ELSE lastBlock
         /\ confirmed' = IF b <= lastBlock + 1 THEN confirmed \cup (Head(queue).txs \cap wallet) ELSE confirmed
  /\ UNCHANGED <<wallet, addresses, bloomFilter, status, messageVars, loop, out, wire, nodeVars, historyVars>>

----------------------------------------------------------------------------
Init ==
  /\ lastBlock = 0 /\ wallet = {} /\ confirmed = {} /\ addresses = 0 /\ bloomFilter = None /\ queue = <<>>
  /\ status = "disconnected" /\ current = None
  /\ knownTx = {} /\ blockHashes = <<>> /\ requested = [b \in Block |-> 0] /\ filterBlockCount = 0
  /\ loop = <<>> /\ out = <<>> /\ wire = <<>>
  /\ height = FirstHeight /\ nodeFilter = None /\ told = {}
  /\ blamed = FALSE /\ skipped = FALSE /\ drops = 0

Next ==
  \/ NodeAnswers \/ Mine \/ (\E t \in Tx : Announce(t))
  \/ Send \/ RequestAgain
  \/ AcceptInv \/ AcceptMerkleblock \/ AcceptTx \/ IncompleteBlock
  \/ Connect \/ Handshake \/ LoseConnection
  \/ RelayedTransaction \/ RelayedBlock

Spec == Init /\ [][Next]_vars

\* The run loop, q and an honest node go on, and the manager connects again when a
\* connection was lost.  Nobody has to find a block or a transaction, or to lose one.
Fairness ==
  /\ WF_vars(NodeAnswers) /\ WF_vars(Send) /\ WF_vars(RequestAgain)
  /\ WF_vars(AcceptInv) /\ WF_vars(AcceptMerkleblock) /\ WF_vars(AcceptTx) /\ WF_vars(IncompleteBlock)
  /\ WF_vars(Connect) /\ WF_vars(Handshake)
  /\ WF_vars(RelayedTransaction) /\ WF_vars(RelayedBlock)

FairSpec == Spec /\ Fairness

----------------------------------------------------------------------------
(***************************************************************************)
(* Properties.                                                             *)
(***************************************************************************)
\* The types; no more than MaxHashes hashes are kept for a re-request, and no block is
\* expected a negative number of times.
MessagesTypeOK ==
  /\ lastBlock \in 0..Length /\ height \in FirstHeight..Length
  /\ confirmed \subseteq wallet /\ wallet \subseteq Tx
  /\ addresses \in Nat /\ bloomFilter \in Filter \cup {None} /\ nodeFilter \in Filter \cup {None}
  /\ status \in {"disconnected", "connecting", "connected"}
  /\ current \in {None} \cup [block : Block, txs : SUBSET Tx, missing : (SUBSET Tx) \ {{}}]
  /\ knownTx \subseteq Tx /\ told \subseteq Tx
  /\ blockHashes \in Seq(Block) /\ Len(blockHashes) <= MaxHashes
  /\ requested \in [Block -> Nat] /\ filterBlockCount \in Nat
  /\ blamed \in BOOLEAN /\ skipped \in BOOLEAN /\ drops \in 0..MaxDrops

\* Nothing is under way.
Quiet == Connected /\ queue = <<>> /\ loop = <<>> /\ out = <<>> /\ wire = <<>>

Ours(b) == {t \in ToSet(TxIn[b]) : Known(t, addresses, wallet)}

\* The transactions of the wallet in the blocks that the manager has followed are
\* registered and confirmed, however the addresses were used up on the way: the filter
\* was renewed in time and what went through the old one was requested again.  Unless
\* the re-request was not made or was lost: see EveryBlockRequestedAgain.
NothingMissed ==
  Quiet /\ ~skipped => \A b \in 1..lastBlock : Ours(b) \subseteq confirmed

\* When a block is handed to the manager, all of its transactions that are the wallet's
\* were: they would stay unconfirmed if they came later.
TransactionsBeforeBlock ==
  queue # <<>> /\ Head(queue).type = "block" =>
    \A t \in Head(queue).txs : Known(t, addresses, wallet) => t \in wallet

\* The blocks are handed over in the order of the chain, though copies of those requested
\* again are dropped: none reaches the manager before the one it extends.
InOrder ==
  queue # <<>> /\ Head(queue).type = "block" => Head(queue).block <= lastBlock + 1

\* Within one connection, an honest node is not taken for one that breaks the rules.
HonestWithinConnection == drops = 0 => ~blamed

\* The chain of the node is downloaded in the end, lost connections and re-requests
\* included, or the peer has been given up.
Downloaded == []<>(blamed \/ lastBlock = height)

\* "after adding addresses to the filter, re-request upcoming blocks that were requested
\* using the old filter": BRPeerManager.m, relayedTransaction.
EveryBlockRequestedAgain == Quiet => \A b \in 1..lastBlock : Ours(b) \subseteq confirmed

\* "if it's protocol error other than timeout, the peer isn't following the rules":
\* BRPeerManager.m, disconnectedWithError.  The node here follows them.
HonestNotBlamed == ~blamed

----------------------------------------------------------------------------
(***************************************************************************)
(* What the code takes for granted of the transactions; one property holds *)
(* under these only.                                                       *)
(***************************************************************************)
\* What a filter matches by chance has nothing to do with the wallet.
ChanceIsForeign == \A t \in FalsePositives : Pays[t] = {} /\ Spends[t] = {}

UpTo(b) == UNION {ToSet(TxIn[c]) : c \in 1..b}

\* A block holds what its transactions spend from, if no earlier one does, before them.
ParentsFirst ==
  /\ \A b \in Block : \A t \in ToSet(TxIn[b]) : Spends[t] \subseteq UpTo(b)
  /\ \A b, c \in Block : \A i \in DOMAIN TxIn[b], j \in DOMAIN TxIn[c] :
       TxIn[c][j] \in Spends[TxIn[b][i]] => c < b \/ (c = b /\ j < i)
=============================================================================

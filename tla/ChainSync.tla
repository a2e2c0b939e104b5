------------------------------ MODULE ChainSync ------------------------------
(***************************************************************************)
(* The download of the chain: BlockChain fed by peers that speak the wire  *)
(* protocol.  Each peer has a chain of its own, which it extends or leaves *)
(* for a longer one; it announces every new tip, and answers getblocks and *)
(* getheaders from the highest locator on its chain, a few blocks at a     *)
(* time.  What it sends reaches the queue q in order (`wire'), and the     *)
(* wires of different peers are interleaved in any way.                    *)
(*                                                                         *)
(* A node sends merkleblocks to those who loaded a bloom filter, and no    *)
(* others: the manager loads it into the download peer, and into the other *)
(* peers when the download is over (syncStopped).                          *)
(*                                                                         *)
(* Abstracted here: connecting is one step (the version message, the       *)
(* verack and peerConnected:), and so is disconnecting.                    *)
(***************************************************************************)
EXTENDS BlockChain, Sequences

CONSTANTS
  InitialTip,    \* the block each peer's chain ends in at first
  Reachable,     \* the blocks a peer's chain may come to end in
  Eve,           \* the early blocks less than two hours short of not being early
  LagTolerance,  \* how far a peer may be behind us and still be of use: 10
  LocatorDense,  \* how many of the latest blocks a locator lists one by one: 10
  MaxInv,        \* how many hashes answer getblocks: 500
  MaxHeaders,    \* how many headers answer getheaders: 2000
  MaxDrops       \* bound: how many connections the network loses

ASSUME SyncAssumption ==
  /\ InitialTip \in [Peer -> Block] /\ Reachable \in [Peer -> SUBSET Block]
  /\ Eve \subseteq Early
  /\ LagTolerance \in Nat /\ LocatorDense \in Nat \ {0}
  /\ MaxInv \in Nat \ {0} /\ MaxHeaders \in Nat \ {0} /\ MaxDrops \in Nat
  /\ Heights \subseteq LastblockClaims

VARIABLES
  tip,           \* the last block of each peer's chain
  connected,     \* the peers whose status is BRPeerStatusConnected
  downloadPeer,
  syncing,       \* the background task, and the sync timer, of a download
  filtered,      \* the peers that were sent a filterload message
  starting,      \* peers whose first getblocks or getheaders is still queued
  requests,      \* the getblocks and getheaders messages each peer has to answer
  wire,          \* the blocks on their way from each peer to q
  drops

netVars == <<tip, connected, downloadPeer, syncing, filtered, starting, requests, wire, drops>>
syncVars == <<vars, netVars>>

----------------------------------------------------------------------------
\* How far below the tip the n-th locator is: 0, 1, ..., 9, 11, 15, 23, 39, ...
LocatorOffset(n) == IF n < LocatorDense THEN n
                    ELSE LocatorDense - 3 + 2^(n - LocatorDense + 2)

\* blockLocatorArray, as a set: the peer uses the highest one on its chain.
BlockLocators ==
  {Genesis} \cup
  {b \in Walk(lastBlock, blocks) :
     /\ Height[b] > 0
     /\ \E n \in 0..Height[lastBlock] : Height[lastBlock] - Height[b] = LocatorOffset(n)}

GetBlocks(locators) == [headers |-> FALSE, locators |-> locators]
GetHeaders(locators) == [headers |-> TRUE, locators |-> locators]

\* Headers up to a week before earliestKeyTime, then merkleblocks.
FirstRequest == IF lastBlock \in Early THEN GetHeaders(BlockLocators) ELSE GetBlocks(BlockLocators)

\* At most max blocks of p's chain, after the highest locator on it, or else the root.
ChainAfter(p, locators, max) ==
  LET known == {Height[b] : b \in (locators \cup {Genesis}) \cap Anc[tip[p]]}
      h == CHOOSE k \in known : \A j \in known : j <= k
      n == Height[tip[p]] - h
  IN  [i \in 1..(IF n < max THEN n ELSE max) |-> CHOOSE b \in Anc[tip[p]] : Height[b] = h + i]

Items(s, isHeader) == [i \in DOMAIN s |-> [block |-> s[i], header |-> isHeader]]

\* acceptInvMessage: asks for the merkleblocks, and after a full inv for the next.
AfterInv(s) == IF Len(s) < MaxInv THEN <<>> ELSE <<GetBlocks({s[Len(s)], s[1]})>>

\* Mutant of AfterHeaders: asks for headers only.
OnlyHeaders(s) ==
  IF Len(s) < MaxHeaders THEN <<>> ELSE <<GetHeaders({s[Len(s)], s[1]})>>

\* acceptHeadersMessage: asks for the next headers after a full message, and for
\* blocks when the last header is too new, or is within two hours of it, from the
\* header before the first one too new, looked for from the second header on.
AfterHeaders(s) ==
  LET n == Len(s)
      k == CHOOSE i \in 1..n : /\ \A j \in 2..i : s[j] \in Early
                               /\ i < n => s[i + 1] \notin Early
  IN  IF n = 0 THEN <<>>
      ELSE IF s[n] \notin Early \ Eve THEN <<GetBlocks({s[k], s[1]})>>
      ELSE IF n = MaxHeaders THEN <<GetHeaders({s[n], s[1]})>>
      ELSE <<>>

\* Mutant of FilteredAfter: the peers that disconnect are not left out.
FilteredAll(peers) == IF syncing THEN connected ELSE filtered \cap peers

\* syncStopped loads the filter into the other peers, at the end of a download.
FilteredAfter(peers) == IF syncing THEN peers ELSE filtered \cap peers

\* What is left of the connections when the peers in gone disconnect.
Disconnect(gone) ==
  LET lost == downloadPeer \in gone
  IN  /\ connected' = connected \ gone
      /\ starting' = starting \ gone
      /\ downloadPeer' = IF lost THEN None ELSE downloadPeer
      /\ syncing' = (syncing /\ ~lost)
      /\ filtered' = IF lost THEN FilteredAfter(connected \ gone) ELSE filtered \ gone
      /\ requests' = [p \in Peer |-> IF p \in gone THEN <<>> ELSE requests[p]]
      /\ wire' = [p \in Peer |-> IF p \in gone THEN <<>> ELSE wire[p]]

----------------------------------------------------------------------------
\* The peer's node gets a longer chain, and announces its tip.
Mine(p, b) ==
  /\ b \in Reachable[p] /\ Height[b] > Height[tip[p]]
  /\ tip' = [tip EXCEPT ![p] = b]
  /\ wire' = IF p \in filtered
             THEN [wire EXCEPT ![p] = Append(@, [block |-> b, header |-> FALSE])]
             ELSE wire
  /\ UNCHANGED <<vars, connected, downloadPeer, syncing, filtered, starting, requests, drops>>

\* The peer answers a request, and BRPeer makes the next one.
Reply(p) ==
  /\ requests[p] # <<>>
  /\ LET r == Head(requests[p])
         s == ChainAfter(p, r.locators, IF r.headers THEN MaxHeaders ELSE MaxInv)
     IN  /\ wire' = [wire EXCEPT ![p] = @ \o Items(s, r.headers)]
         /\ requests' = [requests EXCEPT ![p] =
                           Tail(@) \o (IF r.headers THEN AfterHeaders(s) ELSE AfterInv(s))]
  /\ UNCHANGED <<vars, tip, connected, downloadPeer, syncing, filtered, starting, drops>>

\* There is a download peer already, and p has no block to offer that it does not.
Covered(p) ==
  /\ downloadPeer # None
  /\ lastblock[downloadPeer] >= Height[tip[p]] \/ Height[lastBlock] >= Height[tip[p]]

\* peerConnected: for such a peer.
JoinSync(p) ==
  /\ Covered(p)
  /\ connected' = connected \cup {p}
  /\ filtered' = IF Height[lastBlock] < lastblock[downloadPeer] THEN filtered ELSE filtered \cup {p}
  /\ UNCHANGED <<downloadPeer, syncing, starting, requests, wire>>

\* peerConnected: where a download peer is chosen, the highest.  Ping times decide
\* between peers with the same lastblock, so any of them may be chosen.
SelectDownloadPeer(p) ==
  LET h == Height[tip[p]]
      peers == connected \cup {p}
      heights == [lastblock EXCEPT ![p] = h]
      left(f) == [q \in Peer |-> IF q = downloadPeer THEN <<>> ELSE f[q]]
  IN  /\ ~Covered(p)
      /\ \E c \in {q \in peers : \A r \in peers : heights[r] <= heights[q]} :
           /\ downloadPeer' = c
           /\ connected' = peers \ {downloadPeer}
           /\ IF Height[lastBlock] < heights[c]
              THEN /\ syncing' = TRUE
                   /\ filtered' = (filtered \cup {c}) \ {downloadPeer}
                   /\ starting' = (starting \cup {c}) \ {downloadPeer}
              ELSE /\ syncing' = FALSE
                   /\ filtered' = connected'
                   /\ starting' = starting \ {downloadPeer}
      /\ requests' = left(requests) /\ wire' = left(wire)

PeerConnected(p) ==
  /\ call = None
  /\ p \notin connected \cup misbehavin
  /\ Height[tip[p]] + LagTolerance >= Height[lastBlock]
  /\ lastblock' = [lastblock EXCEPT ![p] = Height[tip[p]]]
  /\ JoinSync(p) \/ SelectDownloadPeer(p)
  /\ UNCHANGED <<chainVars, misbehavin, walletVars, rescans, tip, drops>>

\* The request peerConnected: queued by way of the main thread.
StartSync(p) ==
  /\ call = None /\ p \in starting
  /\ starting' = starting \ {p}
  /\ requests' = [requests EXCEPT ![p] = Append(@, FirstRequest)]
  /\ UNCHANGED <<vars, tip, connected, downloadPeer, syncing, filtered, wire, drops>>

\* What peer:relayedBlock: does to the connections: a peer that misbehaved is
\* disconnected; the download is over at the block the peer had at connection;
\* an orphan may be answered with getblocks.
Relay(p, it, rest) ==
  LET gone == misbehavin' \ misbehavin
      over == NewTip(p, it) /\ Height[it.block] = lastblock[p]
  IN  /\ IF gone # {} THEN Disconnect(gone)
         ELSE /\ wire' = [wire EXCEPT ![p] = rest]
              /\ requests' = IF AsksForBlocks(p, it)
                             THEN [requests EXCEPT ![p] = Append(@, GetBlocks(BlockLocators))]
                             ELSE requests
              /\ syncing' = (syncing /\ ~over)
              /\ filtered' = IF over THEN FilteredAfter(connected) ELSE filtered
              /\ UNCHANGED <<connected, downloadPeer, starting>>
      /\ UNCHANGED <<tip, drops>>

\* The next block from p.
Receive(p) ==
  /\ wire[p] # <<>>
  /\ ReceiveBlock(p, Head(wire[p]))
  /\ Relay(p, Head(wire[p]), Tail(wire[p]))

\* The tail call for an orphan, as if p had relayed it.
ReceiveConnected ==
  /\ ConnectOrphan
  /\ Relay(call.peer, call.item, wire[call.peer])

\* The transactions a merkleblock matched come before it.
ReceiveTx(p) ==
  /\ wire[p] # <<>> /\ ~Head(wire[p]).header
  /\ \E t \in TxOf[Head(wire[p]).block] : RelayedTransaction(t)
  /\ UNCHANGED netVars

\* A network error, a peer's timeout, a bloom filter with too many false positives.
LoseConnection(p) ==
  /\ drops < MaxDrops /\ p \in connected
  /\ drops' = drops + 1
  /\ Disconnect({p})
  /\ UNCHANGED <<vars, tip>>

\* syncTimeout, when the download peer has nothing more to relay.
SyncTimeout ==
  /\ call = None /\ syncing
  /\ starting = {} /\ requests[downloadPeer] = <<>> /\ wire[downloadPeer] = <<>>
  /\ Disconnect({downloadPeer})
  /\ UNCHANGED <<vars, tip, drops>>

\* rescan also disconnects the download peer, so that another one is selected.
RescanFromUI ==
  /\ downloadPeer # None
  /\ Rescan(NoEntities)
  /\ Disconnect({downloadPeer})
  /\ UNCHANGED <<tip, drops>>

----------------------------------------------------------------------------
SyncInit ==
  /\ Init
  /\ tip = InitialTip
  /\ connected = {} /\ downloadPeer = None
  /\ syncing = FALSE /\ filtered = {} /\ starting = {}
  /\ requests = [p \in Peer |-> <<>>]
  /\ wire = [p \in Peer |-> <<>>]
  /\ drops = 0

SyncNext ==
  \/ \E p \in Peer, b \in Block : Mine(p, b)
  \/ \E p \in Peer : Reply(p) \/ PeerConnected(p) \/ StartSync(p) \/ Receive(p) \/ ReceiveTx(p)
  \/ \E p \in Peer : LoseConnection(p)
  \/ ReceiveConnected
  \/ SyncTimeout
  \/ RescanFromUI

SyncSpec == SyncInit /\ [][SyncNext]_syncVars

\* q takes the next block from p: as an action on `wire' alone, of which every step
\* is a step of Receive(p) or a disconnection, and enabled when Receive(p) is.
Taken(p) ==
  /\ wire[p] # <<>> /\ call = None /\ Complete(Head(wire[p]))
  /\ \E rest \in {Tail(wire[p]), <<>>} : wire' = [wire EXCEPT ![p] = rest]

\* q makes the tail call: ReceiveConnected as an action on `call' alone.
CallMade ==
  /\ call # None
  /\ \E it \in {orphans[b] : b \in Block} :
       call' = IF it = None THEN None ELSE [peer |-> call.peer, item |-> it]

\* Queues and run loops run what is dispatched to them, the timer fires, connect is
\* called until peers answer, and they do.
Fairness ==
  /\ \A p \in Peer : WF_syncVars(PeerConnected(p)) /\ WF_syncVars(StartSync(p))
  /\ \A p \in Peer : WF_syncVars(Reply(p)) /\ WF_syncVars(ReceiveTx(p)) /\ WF_wire(Taken(p))
  /\ WF_call(CallMade) /\ WF_syncVars(SyncTimeout)

FairSyncSpec == SyncSpec /\ Fairness

----------------------------------------------------------------------------
\* The types of the network's variables.
SyncTypeOK ==
  /\ tip \in [Peer -> Block]
  /\ connected \subseteq Peer /\ starting \subseteq connected /\ filtered \subseteq connected
  /\ downloadPeer \in connected \cup {None}
  /\ syncing => downloadPeer # None
  /\ wire \in [Peer -> Seq(Item)]
  /\ requests \in [Peer -> Seq([headers : BOOLEAN, locators : SUBSET Block])]
  /\ drops \in Nat

\* A chain that breaks no rule peer:relayedBlock: checks.
ValidChain(p) ==
  \A b \in Reachable[p] \cup {InitialTip[p]} :
    \A a \in Anc[b] : a \notin BadTarget /\ MatchesCheckpoint(a)

\* The checkpoints that come with the app are in the past of every node.
PastCheckpoints == \A p \in Peer : \A c \in Checkpoint : Height[c] <= Height[InitialTip[p]]

\* No peer whose chain breaks no rule is treated as misbehaving, however its blocks
\* are interleaved with those of others, postponed, or connected as orphans.
HonestNotBlamed == \A p \in misbehavin : ~ValidChain(p)

\* In the end there is a download peer, and the wallet's chain is as high as that
\* peer's was when it connected.
CatchesUp == <>[](downloadPeer # None /\ Height[lastBlock] >= lastblock[downloadPeer])

\* The last header of its branch that is old enough to be kept without transactions.
LastHeader(b) ==
  b \in Early /\ \A c \in Block \ {Genesis} : Parent[c] = b => c \notin Early

\* Blocks are asked for from after the next header on: the block of that header, on
\* top of the tip, is not among them.
SkipsBoundary ==
  \E p \in Peer : \E i \in DOMAIN requests[p] :
    /\ ~requests[p][i].headers
    /\ \A b \in requests[p][i].locators : Parent[b] = lastBlock

\* The download catches up with its peer, with one exception: at the last header that
\* is old enough it stops for good, when it asks for blocks time and again, and time
\* and again from after the one it needs.
CatchesUpOrStops ==
  \/ CatchesUp
  \/ <>[]LastHeader(lastBlock) /\ []<>SkipsBoundary
=============================================================================

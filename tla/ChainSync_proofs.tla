-------------------------- MODULE ChainSync_proofs --------------------------
(***************************************************************************)
(* Proofs about ChainSync.  The download is a behaviour of the chain: what *)
(* BlockChain_proofs shows of a chain fed by arbitrary peers holds of it.  *)
(* What it adds is what peers that speak the protocol can rely on.         *)
(***************************************************************************)
EXTENDS ChainSync, BlockChain_proofs

Request == [headers : BOOLEAN, locators : SUBSET Block]

----------------------------------------------------------------------------
(***************************************************************************)
(* What a peer answers.                                                    *)
(***************************************************************************)
\* The blocks of an answer are on the peer's chain, after the genesis block.
LEMMA ChainAfterFacts ==
  ASSUME NEW p \in Peer, tip[p] \in Block, NEW locators, NEW max \in Nat
  PROVE  ChainAfter(p, locators, max) \in Seq(Anc[tip[p]] \ {Genesis})
<1> DEFINE known == {Height[b] : b \in (locators \cup {Genesis}) \cap Anc[tip[p]]}
           h == CHOOSE k \in known : \A j \in known : j <= k
           n == Height[tip[p]] - h
           m == IF n < max THEN n ELSE max
           e(i) == CHOOSE b \in Anc[tip[p]] : Height[b] = h + i
<1>1. /\ Genesis \in Anc[tip[p]] /\ Height[tip[p]] \in Nat
      /\ \A b \in Anc[tip[p]] : Height[b] \in Nat /\ Height[b] <= Height[tip[p]]
  BY GenesisBelow, AncestorFacts, TreeAssumption
<1>2. known \in SUBSET Nat /\ known # {} /\ \A k \in known : k <= Height[tip[p]]
  BY <1>1
<1> HIDE DEF known
<1>3. h \in known
  <2>1. \E k \in known : \A j \in known : j <= k
    BY <1>1, <1>2, GreatestOf
  <2> QED
    BY <2>1
<1> HIDE DEF h
<1>4. h \in Nat /\ n \in Nat
  BY <1>1, <1>2, <1>3
<1>5. m \in Nat /\ m <= n
  BY <1>4
<1> HIDE DEF m
<1>6. ASSUME NEW i \in 1..m PROVE e(i) \in Anc[tip[p]] \ {Genesis}
  <2>1. h + i \in Nat /\ h + i <= Height[tip[p]] /\ h + i > 0
    BY <1>1, <1>4, <1>5
  <2>2. \E b \in Anc[tip[p]] : Height[b] = h + i
    BY <2>1, AncestorAt
  <2>3. e(i) \in Anc[tip[p]] /\ Height[e(i)] = h + i
    BY <2>2
  <2> QED
    BY <2>1, <2>3, TreeAssumption
<1> HIDE DEF e
<1>7. [i \in 1..m |-> e(i)] \in Seq(Anc[tip[p]] \ {Genesis})
  BY <1>5, <1>6
<1> QED
  BY <1>7 DEF ChainAfter, known, h, n, m, e

\* What it sends for them, which are blocks in S.
LEMMA ItemsFacts ==
  ASSUME NEW S \in SUBSET (Block \ {Genesis}), NEW s \in Seq(S), NEW hd \in BOOLEAN
  PROVE  Items(s, hd) \in Seq([block : S, header : {hd}])
<1>1. DOMAIN s = 1..Len(s) /\ Len(s) \in Nat /\ \A i \in DOMAIN s : s[i] \in S
  OBVIOUS
<1>2. \A i \in 1..Len(s) : [block |-> s[i], header |-> hd] \in [block : S, header : {hd}]
  BY <1>1
<1> QED
  BY <1>1, <1>2 DEF Items

\* What BRPeer asks for next.
LEMMA AfterFacts ==
  ASSUME NEW s \in Seq(Block)
  PROVE  AfterInv(s) \in Seq(Request) /\ AfterHeaders(s) \in Seq(Request)
<1> DEFINE n == Len(s)
<1>1. n \in Nat /\ DOMAIN s = 1..n /\ \A i \in 1..n : s[i] \in Block
  OBVIOUS
<1>2. ASSUME NEW i \in 1..n, NEW j \in 1..n
      PROVE  /\ <<GetBlocks({s[i], s[j]})>> \in Seq(Request)
             /\ <<GetHeaders({s[i], s[j]})>> \in Seq(Request)
  <2>1. GetBlocks({s[i], s[j]}) \in Request /\ GetHeaders({s[i], s[j]}) \in Request
    BY <1>1 DEF GetBlocks, GetHeaders, Request
  <2> QED
    BY <2>1
<1>3. <<>> \in Seq(Request)
  OBVIOUS
<1> HIDE DEF n
<1>4. AfterInv(s) \in Seq(Request)
  <2>1. CASE n < MaxInv
    BY <1>3, <2>1 DEF AfterInv, n
  <2>2. CASE ~(n < MaxInv)
    <3>1. n \in 1..n /\ 1 \in 1..n
      BY <1>1, <2>2, SyncAssumption
    <3>2. AfterInv(s) = <<GetBlocks({s[n], s[1]})>>
      BY <2>2 DEF AfterInv, n
    <3> QED
      BY <1>2, <3>1, <3>2
  <2> QED
    BY <2>1, <2>2
<1>5. AfterHeaders(s) \in Seq(Request)
  <2> DEFINE Last(i) == /\ \A j \in 2..i : s[j] \in Early
                        /\ i < n => s[i + 1] \notin Early
             k == CHOOSE i \in 1..n : Last(i)
             K == {i \in 1..n : \A j \in 2..i : s[j] \in Early}
  <2>1. CASE n = 0
    BY <1>3, <2>1 DEF AfterHeaders, n
  <2>2. CASE n # 0
    <3>1. n \in 1..n /\ 1 \in 1..n
      BY <1>1, <2>2
    <3>2. K \in SUBSET Nat /\ K # {} /\ \A i \in K : i <= n
      BY <1>1, <3>1
    <3>3. PICK i \in K : \A j \in K : j <= i
      BY <1>1, <3>2, GreatestOf
    <3>4. i < n => i + 1 \notin K /\ i + 1 \in 1..n
      BY <1>1, <3>2, <3>3
    <3>5. i \in 1..n /\ Last(i)
      BY <1>1, <3>3, <3>4
    <3>6. k \in 1..n
      BY <3>5
    <3>7. AfterHeaders(s) = IF n = 0 THEN <<>>
                            ELSE IF s[n] \notin Early \ Eve THEN <<GetBlocks({s[k], s[1]})>>
                            ELSE IF n = MaxHeaders THEN <<GetHeaders({s[n], s[1]})>>
                            ELSE <<>>
      BY DEF AfterHeaders, n
    <3> HIDE DEF k
    <3> QED
      BY <1>2, <1>3, <3>1, <3>6, <3>7
  <2> QED
    BY <2>1, <2>2
<1> QED
  BY <1>4, <1>5

----------------------------------------------------------------------------
(***************************************************************************)
(* Types, and the steps of the chain.                                      *)
(***************************************************************************)
\* The peers and their queues, without the variables of BlockChain.
LEMMA ItemsAreItems ==
  ASSUME NEW q \in Seq(Item), NEW S \in SUBSET (Block \ {Genesis}), NEW hd \in BOOLEAN,
         NEW r \in Seq([block : S, header : {hd}])
  PROVE  q \o r \in Seq(Item)
<1>1. [block : S, header : {hd}] \subseteq Item
  BY DEF Item
<1>2. r \in Seq(Item)
  BY <1>1, SeqMonotonic
<1> QED
  BY <1>2

LEMMA FirstRequestType ==
  ASSUME TypeOK
  PROVE  FirstRequest \in Request /\ GetBlocks(BlockLocators) \in Request
<1>1. BlockLocators \subseteq Block
  BY WalkInBlock, TreeAssumption DEF BlockLocators, TypeOK
<1> QED
  BY <1>1 DEF FirstRequest, GetBlocks, GetHeaders, Request

\* The queues of the peers, of blocks and of requests.
LEMMA QueueTypes ==
  ASSUME SyncTypeOK
  PROVE  /\ wire \in [Peer -> Seq(Item)] /\ requests \in [Peer -> Seq(Request)]
         /\ <<>> \in Seq(Item) /\ <<>> \in Seq(Request)
         /\ \A q : q \in Request => \A r \in Seq(Request) : Append(r, q) \in Seq(Request)
<1>1. wire \in [Peer -> Seq(Item)] /\ requests \in [Peer -> Seq(Request)]
  BY DEF SyncTypeOK, Request
<1> QED
  BY <1>1

LEMMA DisconnectType ==
  ASSUME SyncTypeOK, NEW gone \in SUBSET Peer, Disconnect(gone), tip' = tip, drops' \in Nat
  PROVE  SyncTypeOK'
<1>1. connected' = connected \ gone /\ starting' = starting \ gone
  BY DEF Disconnect
<1>2. filtered' \subseteq connected'
  BY DEF Disconnect, FilteredAfter, SyncTypeOK
<1>3. downloadPeer' \in connected' \cup {None} /\ (syncing' => downloadPeer' # None)
  BY DEF Disconnect, SyncTypeOK
<1>4. wire' \in [Peer -> Seq(Item)] /\ requests' \in [Peer -> Seq(Request)]
  BY QueueTypes DEF Disconnect
<1> QED
  BY <1>1, <1>2, <1>3, <1>4 DEF SyncTypeOK, Request

LEMMA MineType ==
  ASSUME SyncTypeOK, NEW p \in Peer, NEW b \in Block, Mine(p, b)
  PROVE  SyncTypeOK'
<1>1. [block |-> b, header |-> FALSE] \in Item
  BY TreeAssumption DEF Mine, SyncTypeOK, Item
<1>2. wire' \in [Peer -> Seq(Item)]
  BY <1>1 DEF Mine, SyncTypeOK
<1> QED
  BY <1>2 DEF Mine, SyncTypeOK

\* An answer goes to the end of the queue, and the next request to the end of the others.
LEMMA ReplyFacts ==
  ASSUME SyncTypeOK, NEW p \in Peer, Reply(p)
  PROVE  /\ \E hd \in BOOLEAN : \E r \in Seq([block : Anc[tip[p]] \ {Genesis}, header : {hd}]) :
              wire' = [wire EXCEPT ![p] = @ \o r]
         /\ \E r \in Seq(Request) : requests' = [requests EXCEPT ![p] = Tail(@) \o r]
         /\ requests[p] # <<>>
         /\ UNCHANGED <<vars, tip, connected, downloadPeer, syncing, filtered, starting, drops>>
<1> DEFINE r == Head(requests[p])
           s == ChainAfter(p, r.locators, IF r.headers THEN MaxHeaders ELSE MaxInv)
           A == Anc[tip[p]] \ {Genesis}
<1>1. requests[p] # <<>> /\ requests[p] \in Seq(Request) /\ tip[p] \in Block
  BY DEF Reply, SyncTypeOK, Request
<1>2. r \in Request
  BY <1>1
<1>3. A \in SUBSET (Block \ {Genesis}) /\ r.headers \in BOOLEAN
  BY <1>1, <1>2, TreeAssumption DEF Request
<1>4. s \in Seq(A)
  BY <1>1, SyncAssumption, ChainAfterFacts
<1>5. /\ wire' = [wire EXCEPT ![p] = @ \o Items(s, r.headers)]
      /\ requests' = [requests EXCEPT ![p] =
                        Tail(@) \o (IF r.headers THEN AfterHeaders(s) ELSE AfterInv(s))]
  BY DEF Reply
<1> HIDE DEF s, r, A
<1>6. Items(s, r.headers) \in Seq([block : A, header : {r.headers}])
  BY <1>3, <1>4, ItemsFacts
<1>7. (IF r.headers THEN AfterHeaders(s) ELSE AfterInv(s)) \in Seq(Request)
  <2>1. s \in Seq(Block)
    BY <1>3, <1>4
  <2> QED
    BY <2>1, AfterFacts
<1>8. \E hd \in BOOLEAN : \E q \in Seq([block : A, header : {hd}]) :
         wire' = [wire EXCEPT ![p] = @ \o q]
  BY <1>3, <1>5, <1>6
<1>9. \E q \in Seq(Request) : requests' = [requests EXCEPT ![p] = Tail(@) \o q]
  BY <1>5, <1>7
<1> QED
  BY <1>1, <1>8, <1>9 DEF Reply, A

LEMMA ReplyType ==
  ASSUME SyncTypeOK, NEW p \in Peer, Reply(p)
  PROVE  SyncTypeOK'
<1>1. tip[p] \in Block /\ Anc[tip[p]] \ {Genesis} \in SUBSET (Block \ {Genesis})
  BY TreeAssumption DEF SyncTypeOK
<1>2. wire' \in [Peer -> Seq(Item)]
  <2>0. PICK hd \in BOOLEAN : \E r \in Seq([block : Anc[tip[p]] \ {Genesis}, header : {hd}]) :
          wire' = [wire EXCEPT ![p] = @ \o r]
    BY ReplyFacts
  <2>1. PICK r \in Seq([block : Anc[tip[p]] \ {Genesis}, header : {hd}]) :
          wire' = [wire EXCEPT ![p] = @ \o r]
    BY <2>0
  <2>2. wire \in [Peer -> Seq(Item)] /\ wire[p] \in Seq(Item)
    BY DEF SyncTypeOK
  <2>3. wire[p] \o r \in Seq(Item)
    BY <1>1, <2>2, ItemsAreItems
  <2> QED
    BY <2>1, <2>2, <2>3
<1>3. requests' \in [Peer -> Seq(Request)]
  <2>1. PICK r \in Seq(Request) : requests' = [requests EXCEPT ![p] = Tail(@) \o r]
    BY ReplyFacts
  <2>2. requests \in [Peer -> Seq(Request)] /\ requests[p] \in Seq(Request) /\ requests[p] # <<>>
    BY ReplyFacts DEF SyncTypeOK, Request
  <2>3. Tail(requests[p]) \o r \in Seq(Request)
    BY <2>2
  <2> QED
    BY <2>1, <2>2, <2>3
<1> QED
  BY <1>2, <1>3 DEF Reply, SyncTypeOK, Request

LEMMA PeerConnectedType ==
  ASSUME TypeOK, SyncTypeOK, NEW p \in Peer, PeerConnected(p)
  PROVE  SyncTypeOK'
<1>1. /\ p \notin connected /\ tip' = tip /\ drops' = drops /\ tip[p] \in Block
      /\ lastblock \in [Peer -> Nat] /\ Height[tip[p]] \in Nat
      /\ connected \subseteq Peer /\ None \notin Peer
  BY TreeAssumption, DataAssumption DEF PeerConnected, SyncTypeOK, TypeOK
<1>2. CASE JoinSync(p)
  BY <1>1, <1>2 DEF JoinSync, SyncTypeOK
<1>3. CASE SelectDownloadPeer(p)
  <2> DEFINE h == Height[tip[p]]
             peers == connected \cup {p}
             heights == [lastblock EXCEPT ![p] = h]
             left(f) == [q \in Peer |-> IF q = downloadPeer THEN <<>> ELSE f[q]]
  <2>1. PICK c \in peers :
          /\ \A r \in peers : heights[r] <= heights[c]
          /\ downloadPeer' = c
          /\ connected' = peers \ {downloadPeer}
          /\ \/ /\ syncing' = TRUE
                /\ filtered' = (filtered \cup {c}) \ {downloadPeer}
                /\ starting' = (starting \cup {c}) \ {downloadPeer}
             \/ /\ syncing' = FALSE
                /\ filtered' = connected'
                /\ starting' = starting \ {downloadPeer}
    BY <1>3 DEF SelectDownloadPeer
  <2>2. c # downloadPeer
    <3> SUFFICES ASSUME c = downloadPeer PROVE FALSE
      OBVIOUS
    <3>1. downloadPeer \in Peer /\ downloadPeer # p /\ downloadPeer # None
      BY <1>1, <2>1 DEF SyncTypeOK
    <3>2. ~(lastblock[downloadPeer] >= h)
      BY <1>3, <3>1 DEF SelectDownloadPeer, Covered
    <3>3. heights[p] = h /\ heights[downloadPeer] = lastblock[downloadPeer]
      BY <1>1, <3>1
    <3>4. lastblock[downloadPeer] \in Nat
      BY <1>1, <3>1
    <3> QED
      BY <1>1, <2>1, <3>2, <3>3, <3>4
  <2>3. requests' = left(requests) /\ wire' = left(wire)
    BY <1>3 DEF SelectDownloadPeer
  <2>4. wire' \in [Peer -> Seq(Item)] /\ requests' \in [Peer -> Seq(Request)]
    BY <2>3, QueueTypes
  <2>5. /\ connected' \subseteq Peer /\ starting' \subseteq connected' /\ filtered' \subseteq connected'
        /\ downloadPeer' \in connected' /\ downloadPeer' # None
    BY <1>1, <2>1, <2>2 DEF SyncTypeOK
  <2> QED
    BY <1>1, <2>4, <2>5 DEF SyncTypeOK, Request
<1> QED
  BY <1>2, <1>3 DEF PeerConnected

LEMMA StartSyncType ==
  ASSUME TypeOK, SyncTypeOK, NEW p \in Peer, StartSync(p)
  PROVE  SyncTypeOK'
<1>1. requests' \in [Peer -> Seq(Request)]
  <2>1. requests' = [requests EXCEPT ![p] = Append(@, FirstRequest)]
    BY DEF StartSync
  <2> QED
    BY <2>1, FirstRequestType, QueueTypes
<1> QED
  BY <1>1 DEF StartSync, SyncTypeOK, Request

LEMMA RelayType ==
  ASSUME TypeOK, TypeOK', SyncTypeOK, NEW p \in Peer, NEW it \in Item, NEW rest \in Seq(Item),
         Relay(p, it, rest)
  PROVE  SyncTypeOK'
<1> DEFINE gone == misbehavin' \ misbehavin
           over == NewTip(p, it) /\ Height[it.block] = lastblock[p]
<1>1. gone \in SUBSET Peer /\ tip' = tip /\ drops' = drops
  BY DEF TypeOK, Relay
<1>2. CASE gone # {}
  BY <1>1, <1>2, DisconnectType DEF Relay, SyncTypeOK
<1>3. CASE gone = {}
  <2>1. /\ wire' = [wire EXCEPT ![p] = rest]
        /\ requests' = requests \/ requests' = [requests EXCEPT ![p] = Append(@, GetBlocks(BlockLocators))]
        /\ syncing' = (syncing /\ ~over)
        /\ filtered' = FilteredAfter(connected) \/ filtered' = filtered
        /\ UNCHANGED <<connected, downloadPeer, starting>>
    BY <1>3 DEF Relay
  <2>2. wire' \in [Peer -> Seq(Item)]
    BY <2>1 DEF SyncTypeOK
  <2>3. requests' \in [Peer -> Seq(Request)]
    <3>1. Append(requests[p], GetBlocks(BlockLocators)) \in Seq(Request)
      BY FirstRequestType, QueueTypes
    <3> QED
      BY <2>1, <3>1, QueueTypes
  <2>4. filtered' \subseteq connected'
    BY <2>1 DEF FilteredAfter, SyncTypeOK
  <2> QED
    BY <1>1, <2>1, <2>2, <2>3, <2>4 DEF SyncTypeOK, Request
<1> QED
  BY <1>2, <1>3

\* Every step of the download is one of the chain, or leaves it alone.
LEMMA StepOfChain ==
  ASSUME SyncTypeOK, [SyncNext]_syncVars
  PROVE  [Next]_vars
<1>1. ASSUME NEW p \in Peer, Receive(p) PROVE Next
  <2>1. wire[p] \in Seq(Item) /\ wire[p] # <<>>
    BY <1>1 DEF Receive, SyncTypeOK
  <2>2. Head(wire[p]) \in Item
    BY <2>1
  <2> QED
    BY <1>1, <2>2 DEF Receive, Next
<1>2. ASSUME NEW p \in Peer, PeerConnected(p) PROVE Next
  <2>1. Height[tip[p]] \in LastblockClaims
    BY SyncAssumption DEF SyncTypeOK, Heights
  <2>2. AcceptVersion(p, Height[tip[p]])
    BY <1>2 DEF PeerConnected, AcceptVersion
  <2> QED
    BY <2>1, <2>2 DEF Next
<1>3. ASSUME NEW p \in Peer, ReceiveTx(p) PROVE Next
  <2>1. wire[p] \in Seq(Item) /\ wire[p] # <<>>
    BY <1>3 DEF ReceiveTx, SyncTypeOK
  <2>2. Head(wire[p]) \in Item /\ Head(wire[p]).block \in Block
    <3>1. Head(wire[p]) \in Item
      BY <2>1
    <3> QED
      BY <3>1, ItemFacts
  <2>3. TxOf[Head(wire[p]).block] \subseteq Tx
    BY <2>2, DataAssumption
  <2> QED
    BY <1>3, <2>3 DEF ReceiveTx, Next
<1>4. CASE ReceiveConnected
  BY <1>4 DEF ReceiveConnected, Next
<1>5. CASE RescanFromUI
  BY <1>5 DEF RescanFromUI, Next
<1>6. ASSUME NEW p \in Peer, Reply(p) \/ StartSync(p) \/ LoseConnection(p) PROVE UNCHANGED vars
  BY <1>6 DEF Reply, StartSync, LoseConnection
<1>7. ASSUME NEW p \in Peer, NEW b \in Block, Mine(p, b) PROVE UNCHANGED vars
  BY <1>7 DEF Mine
<1>8. CASE SyncTimeout
  BY <1>8 DEF SyncTimeout
<1>9. CASE UNCHANGED syncVars
  BY <1>9 DEF syncVars
<1> QED
  BY <1>1, <1>2, <1>3, <1>4, <1>5, <1>6, <1>7, <1>8, <1>9 DEF SyncNext

LEMMA SyncNextType == TypeOK /\ SyncTypeOK /\ [SyncNext]_syncVars => (TypeOK /\ SyncTypeOK)'
<1> SUFFICES ASSUME TypeOK, SyncTypeOK, [SyncNext]_syncVars PROVE TypeOK' /\ SyncTypeOK'
  OBVIOUS
<1>1. TypeOK'
  BY StepOfChain, NextType
<1>2. ASSUME NEW p \in Peer, Receive(p) PROVE SyncTypeOK'
  <2>1. wire[p] \in Seq(Item) /\ wire[p] # <<>>
    BY <1>2 DEF Receive, SyncTypeOK
  <2>2. Head(wire[p]) \in Item /\ Tail(wire[p]) \in Seq(Item)
    BY <2>1
  <2> QED
    BY <1>1, <1>2, <2>2, RelayType DEF Receive
<1>3. CASE ReceiveConnected
  <2>1. call.peer \in Peer /\ call.item \in Item
    BY <1>3 DEF ReceiveConnected, ConnectOrphan, TypeOK
  <2>2. wire[call.peer] \in Seq(Item)
    BY <2>1 DEF SyncTypeOK
  <2> QED
    BY <1>1, <1>3, <2>1, <2>2, RelayType DEF ReceiveConnected
<1>4. ASSUME NEW p \in Peer, ReceiveTx(p) PROVE SyncTypeOK'
  BY <1>4 DEF ReceiveTx, netVars, SyncTypeOK
<1>5. CASE SyncTimeout \/ RescanFromUI
  <2>1. /\ Disconnect({downloadPeer}) /\ tip' = tip /\ drops' = drops
        /\ downloadPeer # None
    BY <1>5 DEF SyncTimeout, RescanFromUI, SyncTypeOK
  <2>2. {downloadPeer} \in SUBSET Peer
    BY <2>1 DEF SyncTypeOK
  <2>3. drops' \in Nat
    BY <2>1 DEF SyncTypeOK
  <2> QED
    BY <1>1, <2>1, <2>2, <2>3, DisconnectType
<1>6. ASSUME NEW p \in Peer, LoseConnection(p) PROVE SyncTypeOK'
  <2>1. Disconnect({p}) /\ tip' = tip /\ drops' \in Nat
    BY <1>6 DEF LoseConnection, SyncTypeOK
  <2> QED
    BY <2>1, DisconnectType
<1>7. CASE UNCHANGED syncVars
  <2>1. UNCHANGED netVars
    BY <1>7 DEF syncVars
  <2> QED
    BY <1>1, <2>1 DEF netVars, SyncTypeOK
<1> QED
  BY <1>1, <1>2, <1>3, <1>4, <1>5, <1>6, <1>7, MineType, ReplyType, PeerConnectedType, StartSyncType
  DEF SyncNext

LEMMA SyncInitType == SyncInit => TypeOK /\ SyncTypeOK
  BY InitType, SyncAssumption DEF SyncInit, SyncTypeOK

LEMMA SyncTypes == SyncSpec => [](TypeOK /\ SyncTypeOK)
  BY SyncInitType, SyncNextType, PTL DEF SyncSpec

\* The peers' queues, the connections and the download peer have their types: the
\* download peer is connected, and so are those that were sent a filter.
THEOREM SyncTypeCorrect == SyncSpec => []SyncTypeOK
<1>1. TypeOK /\ SyncTypeOK => SyncTypeOK
  OBVIOUS
<1> QED
  BY <1>1, SyncTypes, PTL

\* The download of the chain is a behaviour of the chain that any peers may feed, so
\* that what holds of it for all peers holds of the download.
THEOREM DownloadIsChain == SyncSpec => Spec
<1>1. SyncInit => Init
  BY DEF SyncInit
<1>2. SyncTypeOK /\ [SyncNext]_syncVars => [Next]_vars
  BY StepOfChain
<1> QED
  BY <1>1, <1>2, SyncTypeCorrect, PTL DEF SyncSpec, Spec

\* The download never goes against a checkpoint.
THEOREM DownloadRespectsCheckpoints == SyncSpec => []CheckpointsRespected
  BY DownloadIsChain, CheckpointsAlwaysRespected, PTL

----------------------------------------------------------------------------
(***************************************************************************)
(* When the checkpoints are in the past of all nodes, the tip skips no     *)
(* block: each peer a block may come from said at its connection that its  *)
(* chain goes as far as they do, and a block on top of one is postponed.   *)
(***************************************************************************)
\* The peer has a connection, or something it sent is still on its way to q or in it.
Heard(p) ==
  \/ p \in connected \/ requests[p] # <<>> \/ wire[p] # <<>>
  \/ call # None /\ call.peer = p

CheckpointsPassed ==
  \A p \in Peer : \A c \in Checkpoint :
    Height[c] <= Height[tip[p]] /\ (Heard(p) => Height[c] <= lastblock[p])

\* Disconnecting peers only silences them.
LEMMA DisconnectSilences ==
  ASSUME NEW gone, Disconnect(gone), NEW q \in Peer
  PROVE  /\ q \in connected' => q \in connected
         /\ requests'[q] # <<>> => requests[q] # <<>>
         /\ wire'[q] # <<>> => wire[q] # <<>>
  BY DEF Disconnect

\* What p has sent is what is answered and connected.
LEMMA RelayHeard ==
  ASSUME TypeOK, SyncTypeOK, NEW p \in Peer, NEW it \in Item, NEW rest,
         RelayedBlock(p, it), Relay(p, it, rest), Heard(p), NEW q \in Peer, Heard(q)'
  PROVE  Heard(q)
<1>1. CASE q = p
  BY <1>1
<1>2. CASE q # p
  <2>1. call' = None \/ call'.peer = p
    BY DEF RelayedBlock, IgnoreHeader, ReceiveOrphan, RejectBlock, ExtendChain, ReplaceBlock,
           IgnoreOldFork, PostponeFork, StoreFork, Reorganize, BecomesLast
  <2>2. /\ q \in connected' => q \in connected
        /\ requests'[q] # <<>> => requests[q] # <<>>
        /\ wire'[q] # <<>> => wire[q] # <<>>
    <3>1. CASE Disconnect(misbehavin' \ misbehavin)
      BY <3>1, DisconnectSilences
    <3>2. CASE ~Disconnect(misbehavin' \ misbehavin)
      BY <1>2, <3>2 DEF Relay, SyncTypeOK
    <3> QED
      BY <3>1, <3>2
  <2> QED
    BY <1>2, <2>1, <2>2 DEF Heard
<1> QED
  BY <1>1, <1>2

LEMMA PeerConnectedHeard ==
  ASSUME TypeOK, SyncTypeOK, NEW p \in Peer, PeerConnected(p), NEW q \in Peer, q # p, Heard(q)'
  PROVE  Heard(q)
<1>1. call' = call
  BY DEF PeerConnected, chainVars
<1>2. CASE JoinSync(p)
  BY <1>1, <1>2 DEF JoinSync, Heard
<1>3. CASE SelectDownloadPeer(p)
  BY <1>1, <1>3 DEF SelectDownloadPeer, Heard
<1> QED
  BY <1>2, <1>3 DEF PeerConnected

LEMMA SyncNextPassed ==
  ASSUME TypeOK, SyncTypeOK, CheckpointsPassed, [SyncNext]_syncVars
  PROVE  CheckpointsPassed'
<1> USE DEF Heard
<1>0. /\ \A c \in Checkpoint : Height[c] \in Nat
      /\ \A p \in Peer : Height[tip[p]] \in Nat
  BY CheckpointAssumption, TreeAssumption DEF SyncTypeOK
<1>1. ASSUME UNCHANGED <<tip, lastblock>>, \A q \in Peer : Heard(q)' => Heard(q)
      PROVE  CheckpointsPassed'
  BY <1>1 DEF CheckpointsPassed
<1>2. ASSUME NEW p \in Peer, NEW b \in Block, Mine(p, b) PROVE CheckpointsPassed'
  <2>1. /\ tip' = [tip EXCEPT ![p] = b] /\ Height[b] > Height[tip[p]] /\ Height[b] \in Nat
        /\ UNCHANGED <<call, lastblock, connected, requests>>
        /\ p \in connected \/ wire' = wire
    BY <1>2, TreeAssumption DEF Mine, vars, chainVars, SyncTypeOK
  <2>2. \A q \in Peer : q # p => wire'[q] = wire[q]
    BY <1>2 DEF Mine, SyncTypeOK
  <2>3. \A q \in Peer : Heard(q)' => Heard(q)
    BY <2>1, <2>2
  <2>4. \A q \in Peer : tip'[q] = IF q = p THEN b ELSE tip[q]
    BY <2>1 DEF SyncTypeOK
  <2>5. \A c \in Checkpoint : Height[c] <= Height[b]
    BY <1>0, <2>1 DEF CheckpointsPassed
  <2> HIDE DEF Heard
  <2> QED
    BY <2>1, <2>3, <2>4, <2>5 DEF CheckpointsPassed
<1>3. ASSUME NEW p \in Peer, Reply(p) PROVE CheckpointsPassed'
  <2>1. /\ requests[p] # <<>> /\ UNCHANGED <<tip, lastblock, call, connected>>
        /\ \A q \in Peer : q # p => wire'[q] = wire[q] /\ requests'[q] = requests[q]
    BY <1>3 DEF Reply, vars, chainVars, SyncTypeOK
  <2> QED
    BY <1>1, <2>1
<1>4. ASSUME NEW p \in Peer, PeerConnected(p) PROVE CheckpointsPassed'
  <2>1. tip' = tip /\ lastblock' = [lastblock EXCEPT ![p] = Height[tip[p]]]
    BY <1>4 DEF PeerConnected
  <2>2. \A q \in Peer : lastblock'[q] = IF q = p THEN Height[tip[p]] ELSE lastblock[q]
    BY <2>1 DEF TypeOK
  <2>3. \A q \in Peer : q # p /\ Heard(q)' => Heard(q)
    BY <1>4, PeerConnectedHeard
  <2> HIDE DEF Heard
  <2> QED
    BY <2>1, <2>2, <2>3 DEF CheckpointsPassed
<1>5. ASSUME NEW p \in Peer, StartSync(p) PROVE CheckpointsPassed'
  <2>1. /\ p \in connected /\ UNCHANGED <<tip, lastblock, call, connected, wire>>
        /\ \A q \in Peer : q # p => requests'[q] = requests[q]
    BY <1>5 DEF StartSync, vars, chainVars, SyncTypeOK
  <2> QED
    BY <1>1, <2>1
<1>6. ASSUME NEW p \in Peer, Receive(p) PROVE CheckpointsPassed'
  <2>1. wire[p] \in Seq(Item) /\ wire[p] # <<>>
    BY <1>6 DEF Receive, SyncTypeOK
  <2>2. Head(wire[p]) \in Item
    BY <2>1
  <2>3. RelayedBlock(p, Head(wire[p])) /\ Relay(p, Head(wire[p]), Tail(wire[p])) /\ Heard(p)
    BY <1>6, <2>1 DEF Receive, ReceiveBlock
  <2>4. UNCHANGED <<tip, lastblock>>
    BY <2>3 DEF RelayedBlock, Relay
  <2> HIDE DEF Heard
  <2> QED
    BY <1>1, <2>2, <2>3, <2>4, RelayHeard
<1>7. CASE ReceiveConnected
  <2>1. /\ call.peer \in Peer /\ call.item \in Item /\ RelayedBlock(call.peer, call.item)
        /\ Relay(call.peer, call.item, wire[call.peer]) /\ Heard(call.peer)
    BY <1>7 DEF ReceiveConnected, ConnectOrphan, TypeOK
  <2>2. UNCHANGED <<tip, lastblock>>
    BY <2>1 DEF RelayedBlock, Relay
  <2> HIDE DEF Heard
  <2> QED
    BY <1>1, <2>1, <2>2, RelayHeard
<1>8. ASSUME NEW gone, Disconnect(gone), UNCHANGED <<tip, lastblock, call>>
      PROVE  CheckpointsPassed'
  BY <1>1, <1>8, DisconnectSilences
<1>9. CASE \E p \in Peer : LoseConnection(p)
  BY <1>8, <1>9 DEF LoseConnection, vars, chainVars
<1>10. CASE SyncTimeout \/ RescanFromUI
  BY <1>8, <1>10 DEF SyncTimeout, RescanFromUI, Rescan, GoBackTo, vars, chainVars
<1>11. CASE (\E p \in Peer : ReceiveTx(p)) \/ UNCHANGED syncVars
  BY <1>1, <1>11 DEF ReceiveTx, RelayedTransaction, syncVars, netVars, vars, chainVars
<1> QED
  BY <1>2, <1>3, <1>4, <1>5, <1>6, <1>7, <1>9, <1>10, <1>11 DEF SyncNext

\* The tip of any wallet skips no block until the user rescans, when the checkpoints that
\* come with the app are in the past of the nodes it downloads from.
THEOREM DownloadSkipsNone ==
  ASSUME Interval > 1, PastCheckpoints
  PROVE  SyncSpec => TipSkipsNone
<1>1. SyncInit => CheckpointsPassed
  BY DEF SyncInit, Init, CheckpointsPassed, Heard, PastCheckpoints
<1>2. TypeOK /\ SyncTypeOK /\ CheckpointsPassed /\ [SyncNext]_syncVars => CheckpointsPassed'
  BY SyncNextPassed
<1>3. TypeOK /\ SyncTypeOK /\ CheckpointsPassed /\ (rescans = 0 => Extendable) /\ [SyncNext]_syncVars
        => [rescans' = 0 => Height[lastBlock'] <= Height[lastBlock] + 1]_lastBlock
  <2> SUFFICES ASSUME TypeOK, SyncTypeOK, CheckpointsPassed, rescans = 0 => Extendable,
                      [SyncNext]_syncVars, rescans' = 0, lastBlock' # lastBlock
               PROVE  Height[lastBlock'] <= Height[lastBlock] + 1
    OBVIOUS
  <2>1. ASSUME NEW p \in Peer, NEW it \in Item, RelayedBlock(p, it), Heard(p)
        PROVE  Height[lastBlock'] <= Height[lastBlock] + 1
    <3>1. NoneAboveTip /\ \A c \in Checkpoint : Height[c] <= lastblock[p]
      BY <2>1 DEF RelayedBlock, Extendable, CheckpointsPassed
    <3> QED
      BY <2>1, <3>1, RelayedBlockSkipsNone
  <2>2. ASSUME NEW p \in Peer, Receive(p) PROVE Height[lastBlock'] <= Height[lastBlock] + 1
    <3>1. wire[p] \in Seq(Item) /\ wire[p] # <<>>
      BY <2>2 DEF Receive, SyncTypeOK
    <3>2. Head(wire[p]) \in Item
      BY <3>1
    <3> QED
      BY <2>1, <2>2, <3>1, <3>2 DEF Receive, ReceiveBlock, Heard
  <2>3. CASE ReceiveConnected
    BY <2>1, <2>3 DEF ReceiveConnected, ConnectOrphan, TypeOK, Heard
  <2>4. ~RescanFromUI
    BY DEF RescanFromUI, Rescan, GoBackTo, TypeOK
  <2>5. ASSUME NEW p \in Peer, PeerConnected(p) \/ ReceiveTx(p) \/ Reply(p) \/ StartSync(p)
                               \/ LoseConnection(p)
        PROVE  FALSE
    BY <2>5 DEF PeerConnected, ReceiveTx, RelayedTransaction, Reply, StartSync, LoseConnection,
                vars, chainVars
  <2> QED
    BY <2>2, <2>3, <2>4, <2>5 DEF SyncNext, Mine, SyncTimeout, syncVars, vars, chainVars
<1>4. SyncSpec => [](rescans = 0 => Extendable)
  BY DownloadIsChain, ExtendableUntilRescan, PTL
<1> QED
  BY <1>1, <1>2, <1>3, <1>4, SyncTypes, PTL DEF SyncSpec, TipSkipsNone

\* When the checkpoints are in the past of the nodes, then until the user rescans the
\* download misses no transaction of the main chain, and leaves none unconfirmed.
THEOREM DownloadConfirmsAll ==
  ASSUME Interval > 1, ShallowForks, OncePerBranch, NoEarlyTx, PastCheckpoints
  PROVE  SyncSpec => [](rescans = 0 => AllConfirmed /\ MainChainConfirmed /\ ConfirmedOnMainChain)
  BY DownloadIsChain, DownloadSkipsNone, AllAlwaysConfirmed, MainChainAlwaysConfirmed,
     ConfirmedAlwaysOnMainChain, PTL

----------------------------------------------------------------------------
(***************************************************************************)
(* No peer is blamed, when all their chains are valid: what is in a queue, *)
(* waits as an orphan or is about to be connected is a block of one of the *)
(* chains, and the transition it is measured from is found, also after the *)
(* user rescans, a peer changes its branch or a block comes twice.         *)
(***************************************************************************)
\* A block that breaks no rule by itself.
Sound(b) == b \notin BadTarget /\ MatchesCheckpoint(b)

SoundBlocks ==
  /\ misbehavin = {}
  /\ \A p \in Peer : tip[p] \in Reachable[p] \cup {InitialTip[p]}
  /\ wire \in [Peer -> Seq({it \in Item : Sound(it.block)})]
  /\ \A b \in Block : orphans[b] # None => Sound(orphans[b].block)
  /\ call # None => Sound(call.item.block)

SoundItem == {it \in Item : Sound(it.block)}

\* The blocks of a valid chain are sound.
LEMMA SoundChain ==
  ASSUME NEW p \in Peer, ValidChain(p), NEW b \in Reachable[p] \cup {InitialTip[p]}
  PROVE  b \in Block /\ \A a \in Anc[b] : a \in Block /\ Sound(a)
<1>1. b \in Block
  BY SyncAssumption
<1> QED
  BY <1>1, TreeAssumption DEF ValidChain, Sound

\* peer:relayedBlock: does not blame the peer for a sound block.
LEMMA RelayedBlockBlamesNone ==
  ASSUME TypeOK, LowestAtTransition, NEW p \in Peer, NEW it \in Item, Sound(it.block),
         RelayedBlock(p, it), misbehavin = {},
         \A b \in Block : orphans[b] # None => Sound(orphans[b].block)
  PROVE  /\ misbehavin' = {}
         /\ \A b \in Block : orphans'[b] # None => Sound(orphans'[b].block)
         /\ call' # None => Sound(call'.item.block)
<1>1. ~RejectBlock(p, it)
  <2> SUFFICES ASSUME Attached(it) PROVE Verified(it)
    BY DEF RejectBlock
  <2>1. AtTransition(it.block) => TransitionFound(it)
    BY WalkFindsTransition
  <2> QED
    BY <2>1 DEF Verified, VerifyDifficulty, Sound
<1>2. misbehavin' = misbehavin
  BY <1>1 DEF RelayedBlock, IgnoreHeader, ReceiveOrphan, ExtendChain, ReplaceBlock, IgnoreOldFork,
              PostponeFork, StoreFork, Reorganize
<1>3. /\ \A b \in Block : orphans'[b] \in {None, it, orphans[b]}
      /\ call' = None \/ \E b \in Block : orphans[b] # None /\ call' = [peer |-> p, item |-> orphans[b]]
  BY RelayedBlockOrphans
<1> QED
  BY <1>2, <1>3

\* Disconnecting peers only empties queues.
LEMMA DisconnectSound ==
  ASSUME SoundBlocks, NEW gone, Disconnect(gone)
  PROVE  wire' \in [Peer -> Seq(SoundItem)]
<1>1. wire \in [Peer -> Seq(SoundItem)] /\ <<>> \in Seq(SoundItem)
  BY DEF SoundBlocks, SoundItem
<1> QED
  BY <1>1 DEF Disconnect

LEMMA RelaySound ==
  ASSUME TypeOK, LowestAtTransition, SoundBlocks, NEW p \in Peer, NEW it \in SoundItem,
         NEW rest \in Seq(SoundItem), RelayedBlock(p, it), Relay(p, it, rest)
  PROVE  SoundBlocks'
<1>1. it \in Item /\ Sound(it.block)
  BY DEF SoundItem
<1>2. /\ misbehavin' = {}
      /\ \A b \in Block : orphans'[b] # None => Sound(orphans'[b].block)
      /\ call' # None => Sound(call'.item.block)
  BY <1>1, RelayedBlockBlamesNone DEF SoundBlocks
<1>3. tip' = tip /\ wire' = [wire EXCEPT ![p] = rest]
  BY <1>2 DEF Relay
<1>4. wire' \in [Peer -> Seq(SoundItem)]
  BY <1>3 DEF SoundBlocks, SoundItem
<1> QED
  BY <1>2, <1>3, <1>4 DEF SoundBlocks, SoundItem, Sound, MatchesCheckpoint

\* An answer holds blocks of the peer's chain.
LEMMA ReplySound ==
  ASSUME SyncTypeOK, SoundBlocks, NEW p \in Peer, ValidChain(p), Reply(p)
  PROVE  wire' \in [Peer -> Seq(SoundItem)]
<1>1. PICK hd \in BOOLEAN : \E r \in Seq([block : Anc[tip[p]] \ {Genesis}, header : {hd}]) :
        wire' = [wire EXCEPT ![p] = @ \o r]
  BY ReplyFacts
<1>2. PICK r \in Seq([block : Anc[tip[p]] \ {Genesis}, header : {hd}]) :
        wire' = [wire EXCEPT ![p] = @ \o r]
  BY <1>1
<1>3. [block : Anc[tip[p]] \ {Genesis}, header : {hd}] \subseteq SoundItem
  BY SoundChain DEF SoundBlocks, SoundItem, Item
<1>4. r \in Seq(SoundItem)
  BY <1>3, SeqMonotonic
<1>5. wire \in [Peer -> Seq(SoundItem)] /\ wire[p] \in Seq(SoundItem)
  BY DEF SoundBlocks, SoundItem
<1>6. wire[p] \o r \in Seq(SoundItem)
  BY <1>4, <1>5
<1> QED
  BY <1>2, <1>5, <1>6

LEMMA SyncNextSound ==
  ASSUME TypeOK, SyncTypeOK, LowestAtTransition, SoundBlocks, \A p \in Peer : ValidChain(p),
         [SyncNext]_syncVars
  PROVE  SoundBlocks'
<1>1. /\ misbehavin = {} /\ wire \in [Peer -> Seq(SoundItem)]
      /\ \A p \in Peer : tip[p] \in Reachable[p] \cup {InitialTip[p]}
  BY DEF SoundBlocks, SoundItem
<1>2. ASSUME UNCHANGED <<misbehavin, orphans, call>>, wire' \in [Peer -> Seq(SoundItem)],
             \A p \in Peer : tip'[p] \in Reachable[p] \cup {InitialTip[p]}
      PROVE  SoundBlocks'
  BY <1>2 DEF SoundBlocks, SoundItem, Sound, MatchesCheckpoint
<1>3. ASSUME NEW p \in Peer, NEW b \in Block, Mine(p, b) PROVE SoundBlocks'
  <2>1. /\ b \in Reachable[p] /\ b # Genesis /\ tip' = [tip EXCEPT ![p] = b]
        /\ wire' = wire \/ wire' = [wire EXCEPT ![p] = Append(@, [block |-> b, header |-> FALSE])]
        /\ UNCHANGED <<misbehavin, orphans, call>>
    BY <1>3, TreeAssumption DEF Mine, SyncTypeOK, vars, chainVars
  <2>2. Sound(b)
    BY <2>1, SoundChain, TreeAssumption
  <2>3. [block |-> b, header |-> FALSE] \in SoundItem
    BY <2>1, <2>2 DEF SoundItem, Item
  <2>4. Append(wire[p], [block |-> b, header |-> FALSE]) \in Seq(SoundItem)
    BY <1>1, <2>3
  <2>5. wire' \in [Peer -> Seq(SoundItem)]
    BY <1>1, <2>1, <2>4
  <2>6. \A q \in Peer : tip'[q] \in Reachable[q] \cup {InitialTip[q]}
    BY <1>1, <2>1 DEF SyncTypeOK
  <2> QED
    BY <1>2, <2>1, <2>5, <2>6
<1>4. ASSUME NEW p \in Peer, Reply(p) PROVE SoundBlocks'
  <2>1. wire' \in [Peer -> Seq(SoundItem)]
    BY <1>4, ReplySound
  <2>2. tip' = tip /\ UNCHANGED <<misbehavin, orphans, call>>
    BY <1>4 DEF Reply, vars, chainVars
  <2> QED
    BY <1>1, <1>2, <2>1, <2>2
<1>5. ASSUME NEW p \in Peer, PeerConnected(p) PROVE SoundBlocks'
  <2>1. tip' = tip /\ UNCHANGED <<misbehavin, orphans, call>>
    BY <1>5 DEF PeerConnected, chainVars
  <2>2. wire' = wire \/ wire' = [q \in Peer |-> IF q = downloadPeer THEN <<>> ELSE wire[q]]
    BY <1>5 DEF PeerConnected, JoinSync, SelectDownloadPeer
  <2>3. <<>> \in Seq(SoundItem)
    OBVIOUS
  <2>4. wire' \in [Peer -> Seq(SoundItem)]
    BY <1>1, <2>2, <2>3
  <2> QED
    BY <1>1, <1>2, <2>1, <2>4
<1>6. ASSUME NEW p \in Peer, StartSync(p) \/ ReceiveTx(p) PROVE SoundBlocks'
  <2>1. wire' = wire /\ tip' = tip /\ UNCHANGED <<misbehavin, orphans, call>>
    BY <1>6 DEF StartSync, ReceiveTx, RelayedTransaction, netVars, vars, chainVars
  <2> QED
    BY <1>1, <1>2, <2>1
<1>7. ASSUME NEW p \in Peer, Receive(p) PROVE SoundBlocks'
  <2>1. wire[p] \in Seq(SoundItem) /\ wire[p] # <<>>
    BY <1>1, <1>7 DEF Receive
  <2>2. Head(wire[p]) \in SoundItem /\ Tail(wire[p]) \in Seq(SoundItem)
    BY <2>1
  <2> QED
    BY <1>7, <2>2, RelaySound DEF Receive, ReceiveBlock
<1>8. CASE ReceiveConnected
  <2>1. call.peer \in Peer /\ call.item \in Item /\ Sound(call.item.block)
    BY <1>8 DEF ReceiveConnected, ConnectOrphan, TypeOK, SoundBlocks
  <2>2. call.item \in SoundItem /\ wire[call.peer] \in Seq(SoundItem)
    BY <1>1, <2>1 DEF SoundItem
  <2> QED
    BY <1>8, <2>1, <2>2, RelaySound DEF ReceiveConnected, ConnectOrphan
<1>9. ASSUME NEW gone, Disconnect(gone), tip' = tip, UNCHANGED <<misbehavin, orphans, call>>
      PROVE  SoundBlocks'
  BY <1>1, <1>2, <1>9, DisconnectSound
<1>10. ASSUME NEW p \in Peer, LoseConnection(p) PROVE SoundBlocks'
  BY <1>9, <1>10 DEF LoseConnection, vars, chainVars
<1>11. CASE SyncTimeout
  BY <1>9, <1>11 DEF SyncTimeout, vars, chainVars
<1>12. CASE RescanFromUI
  BY <1>9, <1>12 DEF RescanFromUI, Rescan, GoBackTo
<1>13. CASE UNCHANGED syncVars
  BY <1>1, <1>2, <1>13 DEF syncVars, vars, chainVars, netVars
<1> QED
  BY <1>3, <1>4, <1>5, <1>6, <1>7, <1>8, <1>10, <1>11, <1>12, <1>13 DEF SyncNext

\* When the chains of all peers are valid, none is ever treated as misbehaving, also
\* after rescans, reorganisations of their own chains and lost connections.
THEOREM HonestNeverBlamed ==
  ASSUME NoOldForks, \A p \in Peer : ValidChain(p)
  PROVE  SyncSpec => []HonestNotBlamed
<1>1. SyncInit => SoundBlocks
  <2> SUFFICES ASSUME SyncInit PROVE SoundBlocks
    OBVIOUS
  <2>1. <<>> \in Seq(SoundItem)
    OBVIOUS
  <2>2. wire \in [Peer -> Seq(SoundItem)]
    BY <2>1 DEF SyncInit
  <2> QED
    BY <2>2 DEF SyncInit, Init, SoundBlocks, SoundItem
<1>2. TypeOK /\ SyncTypeOK /\ LowestAtTransition /\ SoundBlocks /\ [SyncNext]_syncVars
        => SoundBlocks'
  BY SyncNextSound
<1>3. SoundBlocks => HonestNotBlamed
  BY DEF SoundBlocks, HonestNotBlamed
<1>4. SyncSpec => []LowestAtTransition
  BY DownloadIsChain, LowestAlwaysAtTransition, PTL
<1> QED
  BY <1>1, <1>2, <1>3, <1>4, SyncTypes, PTL DEF SyncSpec
=============================================================================

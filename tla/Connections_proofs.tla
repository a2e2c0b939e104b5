------------------------- MODULE Connections_proofs -------------------------
(***************************************************************************)
(* Proofs about Connections: the manager never waits for a download peer   *)
(* of which it will learn nothing more, and it does not stop trying        *)
(* without having told the user.                                           *)
(*                                                                         *)
(* Both rest on what a connection leaves behind: a run loop never stops    *)
(* but by closing, and closing gives q the block that reports it.          *)
(***************************************************************************)
EXTENDS Connections, SharedFacts, FiniteSetTheorems

Error == {"none", "network", "protocol"}

QueueBlock == {ConnectBlock} \cup [type : {"connected", "disconnected"}, peer : Peer, error : Error]

\* A timer lives on a run loop that has run; a peer that is not disconnected has one
\* that is starting or open.
Threads ==
  /\ \A p \in Peer : timer[p] => runLoop[p] \in {"open", "closed"}
  /\ \A p \in Peer : status[p] # "disconnected" => runLoop[p] \in {"starting", "open"}

\* Block j of s reports that p is gone, and comes after the i-th.
Gone(s, i, p) == \E j \in DOMAIN s : j > i /\ s[j].type = "disconnected" /\ s[j].peer = p

\* Every peer that s is going to call connected is one of ps, or s reports it later.
Watched(s, ps) ==
  \A i \in DOMAIN s : s[i].type = "connected" => s[i].peer \in ps \/ Gone(s, i, s[i].peer)

Running == {p \in Peer : Runs(p)}

DownloadPeerChosen == connected => downloadPeer \in Peer

IInv ==
  /\ ConnectionsTypeOK /\ Threads /\ DownloadPeerChosen
  /\ Watched(queue, Running) /\ DownloadPeerWatched /\ StopsOnlyWhenNotified

----------------------------------------------------------------------------
(***************************************************************************)
(* What the queue reports.                                                 *)
(***************************************************************************)
\* q takes its first block.
LEMMA TakingReports ==
  ASSUME NEW s \in Seq(QueueBlock), s # <<>>, NEW ps, Watched(s, ps)
  PROVE  /\ Tail(s) \in Seq(QueueBlock) /\ Head(s) \in QueueBlock
         /\ Watched(Tail(s), ps)
         /\ \A p \in Peer : Gone(s, 0, p) =>
              Gone(Tail(s), 0, p) \/ (Head(s).type = "disconnected" /\ Head(s).peer = p)
         /\ Head(s).type = "connected" =>
              Head(s).peer \in ps \/ Gone(Tail(s), 0, Head(s).peer)
<1>1. /\ Tail(s) \in Seq(QueueBlock) /\ Head(s) \in QueueBlock /\ Head(s) = s[1] /\ 1 \in DOMAIN s
      /\ \A i \in DOMAIN Tail(s) : i + 1 \in DOMAIN s /\ Tail(s)[i] = s[i + 1]
      /\ \A i \in DOMAIN s : i # 1 => i - 1 \in DOMAIN Tail(s) /\ Tail(s)[i - 1] = s[i]
  BY TailFacts
<1>2. DOMAIN s \subseteq Nat \ {0} /\ DOMAIN Tail(s) \subseteq Nat \ {0}
  BY <1>1, IndexFacts
<1>3. ASSUME NEW i \in DOMAIN s, NEW p, Gone(s, i, p) PROVE Gone(Tail(s), i - 1, p)
  <2>1. PICK j \in DOMAIN s : j > i /\ s[j].type = "disconnected" /\ s[j].peer = p
    BY <1>3 DEF Gone
  <2>2. j \in Nat /\ i \in Nat /\ i > 0
    BY <1>2
  <2>3. j # 1 /\ j - 1 > i - 1
    BY <2>1, <2>2
  <2>4. QED
    BY <2>1, <2>3, <1>1 DEF Gone
<1>4. ASSUME NEW p, Gone(s, 0, p)
      PROVE  Gone(Tail(s), 0, p) \/ (Head(s).type = "disconnected" /\ Head(s).peer = p)
  <2>1. PICK j \in DOMAIN s : s[j].type = "disconnected" /\ s[j].peer = p
    BY <1>4 DEF Gone
  <2>2. CASE j = 1
    BY <2>1, <2>2, <1>1
  <2>3. CASE j # 1
    <3>1. j - 1 \in DOMAIN Tail(s) /\ Tail(s)[j - 1] = s[j] /\ j - 1 > 0
      BY <2>3, <1>1, <1>2
    <3>2. QED
      BY <3>1, <2>1 DEF Gone
  <2>4. QED
    BY <2>2, <2>3
<1>5. ASSUME NEW i \in DOMAIN Tail(s), Tail(s)[i].type = "connected"
      PROVE  Tail(s)[i].peer \in ps \/ Gone(Tail(s), i, Tail(s)[i].peer)
  <2>1. s[i + 1].peer \in ps \/ Gone(s, i + 1, s[i + 1].peer)
    BY <1>1, <1>5 DEF Watched
  <2>2. i + 1 - 1 = i
    BY <1>2
  <2>3. QED
    BY <2>1, <2>2, <1>1, <1>3
<1>6. Head(s).type = "connected" => Head(s).peer \in ps \/ Gone(Tail(s), 0, Head(s).peer)
  <2>1. Head(s).type = "connected" => s[1].peer \in ps \/ Gone(s, 1, s[1].peer)
    BY <1>1 DEF Watched
  <2>2. 1 - 1 = 0
    OBVIOUS
  <2>3. QED
    BY <2>1, <2>2, <1>1, <1>3
<1>7. QED
  BY <1>1, <1>4, <1>5, <1>6 DEF Watched

\* It is given a block b: what it reports stays, and so does what it watches if only the
\* peer that b reports stops running.
LEMMA GivingReports ==
  ASSUME NEW s \in Seq(QueueBlock), NEW b \in QueueBlock, NEW ps, NEW qs, Watched(s, ps),
         \A p \in ps : p \in qs \/ (b.type = "disconnected" /\ b.peer = p),
         b.type = "connected" => b.peer \in qs
  PROVE  /\ Append(s, b) \in Seq(QueueBlock) /\ Append(s, b) # <<>>
         /\ Watched(Append(s, b), qs)
         /\ \A p \in Peer : Gone(s, 0, p) => Gone(Append(s, b), 0, p)
         /\ b.type = "disconnected" => Gone(Append(s, b), 0, b.peer)
<1>1. /\ Append(s, b) \in Seq(QueueBlock)
      /\ Len(s) + 1 \in DOMAIN Append(s, b) /\ Append(s, b)[Len(s) + 1] = b
      /\ \A i \in DOMAIN s : i \in DOMAIN Append(s, b) /\ Append(s, b)[i] = s[i]
      /\ \A i \in DOMAIN Append(s, b) : i = Len(s) + 1 \/ i \in DOMAIN s
  BY AppendFacts
<1>2. /\ DOMAIN s \subseteq Nat \ {0} /\ Len(s) \in Nat /\ \A i \in DOMAIN s : i <= Len(s)
      /\ Append(s, b) # <<>>
  BY <1>1, IndexFacts
<1>3. ASSUME NEW i \in Nat, NEW p, Gone(s, i, p) PROVE Gone(Append(s, b), i, p)
  BY <1>1, <1>3 DEF Gone
<1>4. ASSUME NEW i \in Nat, i <= Len(s), b.type = "disconnected" PROVE Gone(Append(s, b), i, b.peer)
  BY <1>1, <1>2, <1>4 DEF Gone
<1>5. ASSUME NEW i \in DOMAIN Append(s, b), Append(s, b)[i].type = "connected"
      PROVE  Append(s, b)[i].peer \in qs \/ Gone(Append(s, b), i, Append(s, b)[i].peer)
  <2>1. CASE i = Len(s) + 1
    BY <2>1, <1>1, <1>5
  <2>2. CASE i \in DOMAIN s
    <3>1. s[i].peer \in ps \/ Gone(s, i, s[i].peer)
      BY <2>2, <1>1, <1>5 DEF Watched
    <3>2. i \in Nat /\ i <= Len(s)
      BY <2>2, <1>2
    <3>3. QED
      BY <3>1, <3>2, <2>2, <1>1, <1>3, <1>4
  <2>3. QED
    BY <2>1, <2>2, <1>1
<1>6. QED
  BY <1>1, <1>2, <1>3, <1>4, <1>5 DEF Watched

\* Nothing happens to it.
LEMMA LeavingReports ==
  ASSUME NEW s, NEW ps, NEW qs, Watched(s, ps), ps \subseteq qs
  PROVE  Watched(s, qs)
  BY DEF Watched

----------------------------------------------------------------------------
(***************************************************************************)
(* What asking run loops to close does.                                    *)
(***************************************************************************)
PeerTypes ==
  /\ status \in [Peer -> {"disconnected", "connecting", "connected"}]
  /\ runLoop \in [Peer -> {"none", "starting", "open", "closed"}]
  /\ timer \in [Peer -> BOOLEAN] /\ closes \in [Peer -> Seq(Error)]

LEMMA TimesFacts ==
  ASSUME NEW p, NEW ps, NEW qs
  PROVE  Times(p, ps, qs) \in Nat /\ (p \in ps \cup qs => Times(p, ps, qs) # 0)
<1> DEFINE I == {i \in 1..2 : p \in <<ps, qs>>[i]}
<1>1. IsFiniteSet(1..2)
  BY FS_Interval, 1 \in Int, 2 \in Int, Zenon
<1>2. IsFiniteSet(I)
  BY <1>1, FS_Subset, I \subseteq 1..2
<1>3. Cardinality(I) \in Nat /\ (Cardinality(I) = 0 <=> I = {})
  BY <1>2, FS_CardinalityType, FS_EmptySet
<1>4. p \in ps \cup qs => 1 \in I \/ 2 \in I
  OBVIOUS
<1>5. QED
  BY <1>3, <1>4 DEF Times

\* Those that run are asked, and go on until they have closed; the others take no notice.
LEMMA AskedFacts ==
  ASSUME PeerTypes, Threads, NEW ps \in SUBSET Peer, NEW qs \in SUBSET Peer, NEW error \in Error,
         Asked(ps, qs, error), UNCHANGED runLoop,
         UNCHANGED timer \/ \E p \in ps : timer' = [timer EXCEPT ![p] = FALSE]
  PROVE  PeerTypes' /\ Threads' /\ \A p \in Peer : Runs(p)' <=> Runs(p)
<1>1. /\ status' = [p \in Peer |-> IF p \in ps \cup qs THEN "disconnected" ELSE status[p]]
      /\ closes' = [p \in Peer |->
           IF Runs(p) THEN closes[p] \o [i \in 1..Times(p, ps, qs) |-> error] ELSE closes[p]]
  BY DEF Asked
<1>2. ASSUME NEW p \in Peer
      PROVE  /\ closes'[p] \in Seq(Error)
             /\ closes[p] # <<>> => closes'[p] # <<>>
             /\ Runs(p) /\ p \in ps => closes'[p] # <<>>
             /\ ~Runs(p) => closes'[p] = closes[p]
  <2>1. closes[p] \in Seq(Error) /\ Times(p, ps, qs) \in Nat /\ (p \in ps => Times(p, ps, qs) # 0)
    BY TimesFacts DEF PeerTypes
  <2> DEFINE more == [i \in 1..Times(p, ps, qs) |-> error]
  <2>2. more \in Seq(Error) /\ Len(more) = Times(p, ps, qs)
    BY <2>1
  <2> HIDE DEF more
  <2>3. closes[p] \o more \in Seq(Error) /\ Len(closes[p] \o more) = Len(closes[p]) + Times(p, ps, qs)
    <3>1. closes[p] \o more \in Seq(Error) /\ Len(closes[p] \o more) = Len(closes[p]) + Len(more)
      BY <2>1, <2>2, ConcatProperties, Zenon
    <3>2. QED
      BY <2>2, <3>1
  <2>4. closes'[p] = IF Runs(p) THEN closes[p] \o more ELSE closes[p]
    BY <1>1 DEF more
  <2>5. /\ Len(closes[p]) \in Nat /\ (closes[p] = <<>> <=> Len(closes[p]) = 0)
        /\ closes[p] \o more = <<>> <=> Len(closes[p] \o more) = 0
    BY <2>1, <2>3, IndexFacts
  <2>6. QED
    BY <2>1, <2>3, <2>4, <2>5
<1>3. timer' \in [Peer -> BOOLEAN] /\ \A p \in Peer : (timer'[p] => timer[p]) /\ (timer[p] => timer'[p] \/ p \in ps)
  BY DEF PeerTypes
<1>4. PeerTypes'
  BY <1>1, <1>2, <1>3 DEF PeerTypes
<1>5. Threads'
  BY <1>1, <1>3 DEF Threads
<1>6. \A p \in Peer : Runs(p)' <=> Runs(p)
  BY <1>2, <1>3 DEF Runs
<1>7. QED
  BY <1>4, <1>5, <1>6

----------------------------------------------------------------------------
(***************************************************************************)
(* What the steps have in common.                                          *)
(***************************************************************************)
\* The types of the manager, but for its queue.
ManagerTypes ==
  /\ connectedPeers \subseteq Peer /\ Cardinality(connectedPeers) <= MaxConnections
  /\ downloadPeer \in Peer \cup {None} /\ connected \in BOOLEAN /\ connectFailures \in Nat
  /\ lastBlock \in LastBlocks \cup {0} /\ syncTimer \in BOOLEAN
  /\ main \in Seq({"retry"})
  /\ notified \in BOOLEAN /\ goneChosen \in BOOLEAN /\ breaks \in 0..MaxBreaks

\* Those of the peers that asking to close does not touch.
HandshakeTypes ==
  handshake \in [Peer -> 0..2] /\ lastblock \in [Peer -> LastBlocks \cup {0}]

LEMMA TypesSplit ==
  ConnectionsTypeOK <=> ManagerTypes /\ PeerTypes /\ HandshakeTypes /\ queue \in Seq(QueueBlock)
BY DEF ConnectionsTypeOK, ManagerTypes, PeerTypes, HandshakeTypes, QueueBlock, Error

\* A step that leaves the queue and the choice of the download peer alone, stops no run
\* loop, and does not end what was under way.
LEMMA LeavingQueue ==
  ASSUME IInv, ManagerTypes', PeerTypes', HandshakeTypes', Threads',
         UNCHANGED <<queue, connected, downloadPeer, goneChosen>>,
         \A p \in Peer : Runs(p) => Runs(p)',
         StopsOnlyWhenNotified'
  PROVE  IInv'
<1>1. ConnectionsTypeOK'
  BY DEF IInv, ConnectionsTypeOK, ManagerTypes, PeerTypes, HandshakeTypes, Error
<1>2. DownloadPeerChosen' /\ DownloadPeerWatched'
  BY DEF IInv, DownloadPeerChosen, DownloadPeerWatched, Reported
<1>3. Watched(queue, Running)'
  <2>1. Running \subseteq Running'
    BY DEF Running
  <2>2. QED
    BY <2>1, LeavingReports DEF IInv
<1>4. QED
  BY <1>1, <1>2, <1>3 DEF IInv

\* A step that gives q another block: only the peer that it reports may stop running.
LEMMA GivingQueue ==
  ASSUME IInv, ManagerTypes', PeerTypes', HandshakeTypes', Threads',
         UNCHANGED <<connected, downloadPeer, goneChosen>>,
         NEW b \in QueueBlock, queue' = Append(queue, b),
         b.type = "connected" => Runs(b.peer)',
         \A p \in Peer : Runs(p) => Runs(p)' \/ (b.type = "disconnected" /\ b.peer = p)
  PROVE  IInv'
<1>1. queue \in Seq(QueueBlock) /\ Watched(queue, Running)
  BY TypesSplit DEF IInv
<1>2. /\ queue' \in Seq(QueueBlock) /\ queue' # <<>> /\ Watched(queue', Running')
      /\ \A p \in Peer : Gone(queue, 0, p) => Gone(queue', 0, p)
      /\ b.type = "disconnected" => Gone(queue', 0, b.peer)
  <2>1. b.type = "connected" => b.peer \in Peer
    BY DEF QueueBlock, ConnectBlock
  <2>2. b.type = "connected" => b.peer \in Running'
    BY <2>1 DEF Running
  <2>3. \A p \in Running : p \in Running' \/ (b.type = "disconnected" /\ b.peer = p)
    BY DEF Running
  <2>4. QED
    BY <1>1, <2>2, <2>3, GivingReports
<1>3. ConnectionsTypeOK'
  BY <1>2 DEF ConnectionsTypeOK, ManagerTypes, PeerTypes, HandshakeTypes, QueueBlock, Error
<1>4. \A p \in Peer : Runs(p) \/ Reported(p) => (Runs(p) \/ Reported(p))'
  <2>1. \A p \in Peer : (Gone(queue, 0, p) <=> Reported(p)) /\ (Gone(queue', 0, p) <=> Reported(p)')
    BY <1>1, <1>2, IndexFacts DEF Gone, Reported
  <2>2. QED
    BY <1>2, <2>1
<1>5. DownloadPeerChosen' /\ DownloadPeerWatched'
  BY <1>4 DEF IInv, DownloadPeerChosen, DownloadPeerWatched
<1>6. StopsOnlyWhenNotified'
  BY <1>2 DEF StopsOnlyWhenNotified, NotifiedOrTrying, Idle
<1>7. QED
  BY <1>2, <1>3, <1>5, <1>6 DEF IInv

\* What was under way goes on.
LEMMA StillUnderWay ==
  ASSUME IInv, UNCHANGED <<connected, goneChosen, connectFailures, notified, main, queue>>,
         \A p \in Peer : Runs(p) \/ runLoop[p] = "starting" => Runs(p)' \/ runLoop'[p] = "starting"
  PROVE  StopsOnlyWhenNotified'
BY DEF IInv, StopsOnlyWhenNotified, NotifiedOrTrying, Idle

\* Fewer peers are no more than allowed.
LEMMA FewerPeers ==
  ASSUME ManagerTypes, NEW ps \in SUBSET connectedPeers
  PROVE  ps \subseteq Peer /\ IsFiniteSet(ps) /\ Cardinality(ps) \in Nat /\ Cardinality(ps) <= MaxConnections
<1>1. IsFiniteSet(connectedPeers) /\ Cardinality(connectedPeers) <= MaxConnections
  BY ConnectionsAssumption, FS_Subset DEF ManagerTypes
<1>2. IsFiniteSet(ps) /\ Cardinality(ps) <= Cardinality(connectedPeers)
  BY <1>1, FS_Subset
<1>3. Cardinality(ps) \in Nat /\ Cardinality(connectedPeers) \in Nat /\ MaxConnections \in Nat
  BY <1>1, <1>2, FS_CardinalityType, ConnectionsAssumption
<1>4. QED
  BY <1>1, <1>2, <1>3 DEF ManagerTypes

LEMMA GivenUpFacts ==
  ASSUME ManagerTypes, GivenUp
  PROVE  breaks' \in 0..MaxBreaks
BY ConnectionsAssumption DEF ManagerTypes, GivenUp

LEMMA SyncStoppedFacts ==
  ASSUME ManagerTypes, NEW dropped, SyncStopped(dropped)
  PROVE  /\ connectedPeers' \subseteq Peer /\ Cardinality(connectedPeers') <= MaxConnections
         /\ syncTimer' \in BOOLEAN /\ breaks' \in 0..MaxBreaks
<1>1. syncTimer' \in BOOLEAN /\ breaks' \in 0..MaxBreaks
  BY GivenUpFacts DEF SyncStopped, ManagerTypes
<1>2. connectedPeers' \in SUBSET connectedPeers
  BY DEF SyncStopped
<1>3. QED
  BY <1>1, <1>2, FewerPeers

----------------------------------------------------------------------------
(***************************************************************************)
(* The peers.                                                              *)
(***************************************************************************)
LEMMA OpenKeeps ==
  ASSUME IInv, NEW p \in Peer, Open(p)
  PROVE  IInv'
<1>1. /\ runLoop[p] = "starting" /\ runLoop' = [runLoop EXCEPT ![p] = "open"]
      /\ timer' = [timer EXCEPT ![p] = TRUE]
      /\ UNCHANGED <<managerVars, main, queue, status, closes, handshake, lastblock, notified, goneChosen, breaks>>
  BY DEF Open
<1>2. ManagerTypes' /\ HandshakeTypes' /\ PeerTypes'
  BY <1>1, TypesSplit DEF IInv, ManagerTypes, managerVars, HandshakeTypes, PeerTypes
<1>3. PeerTypes
  BY TypesSplit DEF IInv
<1>4. Threads'
  BY <1>1, <1>3 DEF IInv, Threads, PeerTypes
<1>5. \A x \in Peer : Runs(x) => Runs(x)'
  BY <1>1, <1>3 DEF Runs, PeerTypes
<1>6. Runs(p)'
  BY <1>1, <1>3 DEF Runs, PeerTypes
<1>7. StopsOnlyWhenNotified'
  BY <1>6 DEF StopsOnlyWhenNotified, NotifiedOrTrying, Idle
<1>8. QED
  BY <1>1, <1>2, <1>4, <1>5, <1>7, LeavingQueue DEF managerVars

LEMMA VersionKeeps ==
  ASSUME IInv, NEW p \in Peer, Version(p)
  PROVE  IInv'
<1>1. /\ handshake' = [handshake EXCEPT ![p] = 1]
      /\ \E h \in LastBlocks : lastblock' = [lastblock EXCEPT ![p] = h]
      /\ UNCHANGED <<managerVars, main, queue, status, runLoop, timer, closes, notified, goneChosen, breaks>>
  BY DEF Version
<1>2. ManagerTypes' /\ HandshakeTypes' /\ PeerTypes'
  BY <1>1, TypesSplit DEF IInv, ManagerTypes, managerVars, HandshakeTypes, PeerTypes
<1>3. Threads' /\ \A x \in Peer : (Runs(x) => Runs(x)') /\ UNCHANGED runLoop[x]
  BY <1>1 DEF IInv, Threads, Runs
<1>4. StopsOnlyWhenNotified'
  BY <1>1, <1>3, StillUnderWay DEF managerVars
<1>5. QED
  BY <1>1, <1>2, <1>3, <1>4, LeavingQueue DEF managerVars

\* The manager hears that a peer is connected while its run loop goes on.
LEMMA VerackKeeps ==
  ASSUME IInv, NEW p \in Peer, Verack(p)
  PROVE  IInv'
<1>1. /\ runLoop[p] = "open"
      /\ handshake' = [handshake EXCEPT ![p] = 2] /\ timer' = [timer EXCEPT ![p] = FALSE]
      /\ UNCHANGED <<managerVars, main, runLoop, closes, lastblock, notified, goneChosen, breaks>>
  BY DEF Verack
<1>2. \/ status' = [status EXCEPT ![p] = "connected"] /\ queue' = Append(queue, Block("connected", p, "none"))
      \/ UNCHANGED <<status, queue>>
  BY DEF Verack
<1>3. PeerTypes /\ ManagerTypes /\ HandshakeTypes
  BY TypesSplit DEF IInv
<1>4. ManagerTypes' /\ HandshakeTypes' /\ PeerTypes'
  <2>1. ManagerTypes'
    BY <1>1, <1>3 DEF ManagerTypes, managerVars
  <2>2. HandshakeTypes'
    BY <1>1, <1>3 DEF HandshakeTypes
  <2>3. status' \in [Peer -> {"disconnected", "connecting", "connected"}]
    BY <1>2, <1>3 DEF PeerTypes
  <2>4. PeerTypes'
    BY <1>1, <1>3, <2>3 DEF PeerTypes
  <2>5. QED
    BY <2>1, <2>2, <2>4
<1>5. Threads'
  BY <1>1, <1>2, <1>3 DEF IInv, Threads, PeerTypes
<1>6. \A x \in Peer : Runs(x) => Runs(x)'
  BY <1>1, <1>3 DEF Runs, PeerTypes
<1>7. Runs(p)'
  BY <1>1 DEF Runs
<1>8. CASE UNCHANGED queue
  <2>1. StopsOnlyWhenNotified'
    BY <1>7 DEF StopsOnlyWhenNotified, NotifiedOrTrying, Idle
  <2>2. QED
    BY <1>1, <1>4, <1>5, <1>6, <1>8, <2>1, LeavingQueue DEF managerVars
<1>9. CASE queue' = Append(queue, Block("connected", p, "none"))
  <2>1. Block("connected", p, "none") \in QueueBlock /\ Block("connected", p, "none").peer = p
    BY DEF Block, QueueBlock, Error
  <2>2. QED
    BY <1>1, <1>4, <1>5, <1>6, <1>7, <1>9, <2>1, GivingQueue DEF managerVars
<1>10. QED
  BY <1>2, <1>8, <1>9

LEMMA TimeoutBreakKeeps ==
  ASSUME IInv, NEW p \in Peer, Timeout(p) \/ Break(p)
  PROVE  IInv'
<1>1. /\ \E error \in Error : OwnDisconnect(p, error)
      /\ UNCHANGED breaks \/ GivenUp
      /\ UNCHANGED <<managerVars, main, queue, runLoop, handshake, lastblock, notified, goneChosen>>
  BY DEF Timeout, Break, Error
<1>2. PeerTypes /\ Threads /\ ManagerTypes
  BY TypesSplit DEF IInv
<1>3. PICK error \in Error : Asked({p}, {}, error) /\ timer' = [timer EXCEPT ![p] = FALSE]
  BY <1>1 DEF OwnDisconnect
<1>4. PeerTypes' /\ Threads' /\ \A x \in Peer : Runs(x)' <=> Runs(x)
  BY <1>1, <1>2, <1>3, AskedFacts
<1>5. ManagerTypes' /\ HandshakeTypes'
  <2>1. breaks' \in 0..MaxBreaks
    BY <1>1, <1>2, GivenUpFacts DEF ManagerTypes
  <2>2. QED
    BY <1>1, <2>1, TypesSplit DEF IInv, ManagerTypes, managerVars, HandshakeTypes
<1>6. StopsOnlyWhenNotified'
  BY <1>1, <1>4, StillUnderWay DEF managerVars
<1>7. QED
  BY <1>1, <1>4, <1>5, <1>6, LeavingQueue DEF managerVars

\* A run loop that may stop reports it.
LEMMA CloseKeeps ==
  ASSUME IInv, NEW p \in Peer, Close(p)
  PROVE  IInv'
<1> DEFINE b == Block("disconnected", p, Head(closes[p]))
<1>1. /\ closes[p] # <<>> /\ closes' = [closes EXCEPT ![p] = Tail(closes[p])]
      /\ runLoop' = [runLoop EXCEPT ![p] = "closed"] /\ status' = [status EXCEPT ![p] = "disconnected"]
      /\ queue' = Append(queue, b)
      /\ UNCHANGED <<managerVars, main, timer, handshake, lastblock, notified, goneChosen, breaks>>
  BY DEF Close
<1>2. PeerTypes /\ Threads
  BY TypesSplit DEF IInv
<1>3. Tail(closes[p]) \in Seq(Error) /\ Head(closes[p]) \in Error
  BY <1>1, <1>2, TailFacts DEF PeerTypes
<1>4. ManagerTypes' /\ HandshakeTypes' /\ PeerTypes'
  BY <1>1, <1>3, TypesSplit DEF IInv, ManagerTypes, managerVars, HandshakeTypes, PeerTypes
<1>5. Threads'
  BY <1>1, <1>2 DEF Threads, PeerTypes
<1>6. b \in QueueBlock /\ b.type = "disconnected" /\ b.peer = p
  BY <1>3 DEF Block, QueueBlock
<1>7. \A x \in Peer : Runs(x) => Runs(x)' \/ x = p
  BY <1>1, <1>2 DEF Runs, PeerTypes
<1>8. QED
  BY <1>1, <1>4, <1>5, <1>6, <1>7, GivingQueue DEF managerVars

----------------------------------------------------------------------------
(***************************************************************************)
(* The main thread, and what peers bring about on q without a block.       *)
(***************************************************************************)
LEMMA ConnectFacts ==
  ASSUME NEW n \in Nat, NEW s \in Seq(QueueBlock), Connect(n, s)
  PROVE  /\ connectFailures' \in Nat /\ notified' = FALSE
         /\ queue' = Append(s, ConnectBlock)
         /\ ConnectBlock \in QueueBlock /\ ConnectBlock.type = "connect"
BY DEF Connect, QueueBlock, ConnectBlock

LEMMA DisconnectFacts ==
  ASSUME IInv, NEW ps \in SUBSET Peer, NEW qs \in SUBSET Peer,
         Disconnect(ps) \/ DisconnectBoth(ps, qs), UNCHANGED <<runLoop, handshake, lastblock>>
  PROVE  PeerTypes' /\ HandshakeTypes' /\ Threads' /\ \A p \in Peer : Runs(p)' <=> Runs(p)
<1>1. PeerTypes /\ Threads /\ HandshakeTypes
  BY TypesSplit DEF IInv
<1>2. "none" \in Error /\ UNCHANGED timer /\ \E xs \in SUBSET Peer : Asked(ps, xs, "none")
  BY DEF Disconnect, DisconnectBoth, Error
<1>3. PeerTypes' /\ Threads' /\ \A p \in Peer : Runs(p)' <=> Runs(p)
  BY <1>1, <1>2, AskedFacts
<1>4. HandshakeTypes'
  BY <1>1 DEF HandshakeTypes
<1>5. QED
  BY <1>3, <1>4

LEMMA UserConnectsKeeps ==
  ASSUME IInv, UserConnects
  PROVE  IInv'
<1>1. ManagerTypes /\ PeerTypes /\ HandshakeTypes /\ queue \in Seq(QueueBlock) /\ Threads
  BY TypesSplit DEF IInv
<1>2. /\ connectFailures' \in Nat /\ notified' = FALSE /\ queue' = Append(queue, ConnectBlock)
      /\ ConnectBlock \in QueueBlock /\ ConnectBlock.type = "connect"
  BY <1>1, ConnectFacts DEF UserConnects, ManagerTypes
<1>3. UNCHANGED <<connectedPeers, downloadPeer, connected, lastBlock, syncTimer, main, peerVars, goneChosen, breaks>>
  BY DEF UserConnects
<1>4. ManagerTypes' /\ PeerTypes' /\ HandshakeTypes' /\ Threads'
  BY <1>1, <1>2, <1>3 DEF ManagerTypes, PeerTypes, HandshakeTypes, Threads, peerVars
<1>5. \A p \in Peer : Runs(p) => Runs(p)'
  BY <1>3 DEF Runs, peerVars
<1>6. QED
  BY <1>2, <1>3, <1>4, <1>5, GivingQueue

\* Having failed, the manager tells the user, or tries again; or it has a download peer,
\* or counted too far.
LEMMA RetryKeeps ==
  ASSUME IInv, Retry
  PROVE  IInv'
<1>1. ManagerTypes /\ PeerTypes /\ HandshakeTypes /\ queue \in Seq(QueueBlock) /\ Threads
  BY TypesSplit DEF IInv
<1>2. /\ main # <<>> /\ main' = Tail(main)
      /\ UNCHANGED <<downloadPeer, connected, lastBlock, syncTimer, peerVars, goneChosen, breaks>>
  BY DEF Retry
<1>3. /\ PeerTypes' /\ HandshakeTypes' /\ Threads' /\ main' \in Seq({"retry"})
      /\ \A p \in Peer : Runs(p) => Runs(p)'
  <2>1. main' \in Seq({"retry"})
    BY <1>1, <1>2, TailFacts DEF ManagerTypes
  <2>2. QED
    BY <1>1, <1>2, <2>1 DEF PeerTypes, HandshakeTypes, Threads, Runs, peerVars
<1>4. CASE GivesUp /\ connectedPeers' = {} /\ notified' = TRUE /\ UNCHANGED <<connectFailures, queue>>
  <2>1. ManagerTypes'
    <3>1. Cardinality({}) <= MaxConnections
      BY <1>1, FewerPeers
    <3>2. QED
      BY <1>1, <1>2, <1>3, <1>4, <3>1 DEF ManagerTypes
  <2>2. StopsOnlyWhenNotified'
    BY <1>4 DEF StopsOnlyWhenNotified, NotifiedOrTrying
  <2>3. QED
    BY <1>2, <1>3, <1>4, <2>1, <2>2, LeavingQueue
<1>5. CASE Connect(connectFailures, queue) /\ UNCHANGED connectedPeers
  <2>1. /\ connectFailures' \in Nat /\ notified' = FALSE /\ queue' = Append(queue, ConnectBlock)
        /\ ConnectBlock \in QueueBlock /\ ConnectBlock.type = "connect"
    BY <1>1, <1>5, ConnectFacts DEF ManagerTypes
  <2>2. ManagerTypes'
    BY <1>1, <1>2, <1>3, <1>5, <2>1 DEF ManagerTypes
  <2>3. QED
    BY <1>2, <1>3, <2>1, <2>2, GivingQueue
<1>6. CASE ~GivesUp /\ ~TriesAgain /\ UNCHANGED <<connectedPeers, connectFailures, notified, queue>>
  <2>1. ManagerTypes'
    BY <1>1, <1>2, <1>3, <1>6 DEF ManagerTypes
  <2>2. connected \/ connectFailures > MaxFailures
    BY <1>1, <1>6, ConnectionsAssumption DEF GivesUp, TriesAgain, ManagerTypes
  <2>3. CASE connectFailures > MaxFailures
    BY <1>6, <2>3, <1>2, <1>3, <2>1, LeavingQueue DEF StopsOnlyWhenNotified
  <2>4. CASE connected /\ goneChosen
    BY <1>2, <1>3, <1>6, <2>1, <2>4, LeavingQueue DEF StopsOnlyWhenNotified
  <2>5. CASE connected /\ ~goneChosen
    <3>1. downloadPeer \in Peer /\ (Runs(downloadPeer) \/ Reported(downloadPeer))
      BY <2>5 DEF IInv, DownloadPeerChosen, DownloadPeerWatched
    <3>2. Runs(downloadPeer)' \/ queue' # <<>>
      BY <1>1, <1>2, <1>3, <1>6, <3>1, IndexFacts DEF Reported
    <3>3. StopsOnlyWhenNotified'
      BY <1>2, <3>1, <3>2 DEF StopsOnlyWhenNotified, NotifiedOrTrying, Idle
    <3>4. QED
      BY <1>2, <1>3, <1>6, <2>1, <3>3, LeavingQueue
  <2>6. QED
    BY <2>2, <2>3, <2>4, <2>5
<1>7. QED
  BY <1>4, <1>5, <1>6 DEF Retry

\* Connections are asked to close, and no block is given to q.
LEMMA AskingKeeps ==
  ASSUME IInv, \/ SyncTimeout \/ ResignActive \/ SeedObserver
               \/ \E p \in Peer : Downloaded(p)
  PROVE  IInv'
<1>1. ManagerTypes /\ PeerTypes /\ HandshakeTypes
  BY TypesSplit DEF IInv
<1>2. /\ UNCHANGED <<downloadPeer, connected, connectFailures, main, queue, runLoop, handshake, lastblock,
                     notified, goneChosen>>
      /\ \E ps \in SUBSET Peer : Disconnect(ps)
  BY <1>1 DEF SyncTimeout, ResignActive, SeedObserver, Downloaded, managerVars, ManagerTypes
<1>3. /\ connectedPeers' \subseteq Peer /\ Cardinality(connectedPeers') <= MaxConnections
      /\ syncTimer' \in BOOLEAN /\ breaks' \in 0..MaxBreaks /\ lastBlock' \in LastBlocks \cup {0}
  <2>1. CASE SyncTimeout
    BY <1>1, <2>1 DEF SyncTimeout, ManagerTypes
  <2>2. CASE ResignActive
    BY <1>1, <2>2, GivenUpFacts DEF ResignActive, ManagerTypes, managerVars
  <2>3. CASE SeedObserver
    BY <1>1, <2>3, GivenUpFacts DEF SeedObserver, ManagerTypes
  <2>4. CASE \E p \in Peer : Downloaded(p)
    <3>1. lastBlock' \in LastBlocks \cup {0}
      BY <1>1, <2>4 DEF Downloaded, HandshakeTypes
    <3>2. QED
      BY <1>1, <2>4, <3>1, SyncStoppedFacts DEF Downloaded
  <2>5. QED
    BY <2>1, <2>2, <2>3, <2>4
<1>4. ManagerTypes'
  BY <1>1, <1>2, <1>3 DEF ManagerTypes
<1>5. PeerTypes' /\ HandshakeTypes' /\ Threads' /\ \A p \in Peer : Runs(p)' <=> Runs(p)
  BY <1>2, DisconnectFacts
<1>6. StopsOnlyWhenNotified'
  BY <1>2, <1>5, StillUnderWay
<1>7. QED
  BY <1>2, <1>4, <1>5, <1>6, LeavingQueue

\* Connections are asked to close, and others looked for.
LEMMA AskingAndConnectingKeeps ==
  ASSUME IInv, Rescan \/ \E p \in Peer : PeerMisbehavin(p)
  PROVE  IInv'
<1>1. ManagerTypes /\ PeerTypes /\ HandshakeTypes /\ queue \in Seq(QueueBlock)
  BY TypesSplit DEF IInv
<1>2. /\ UNCHANGED <<connectedPeers, downloadPeer, connected, syncTimer, main, runLoop, handshake, lastblock,
                     goneChosen>>
      /\ \E ps \in SUBSET Peer : Disconnect(ps)
      /\ Connect(connectFailures, queue) /\ GivenUp
      /\ lastBlock' = 0 \/ UNCHANGED lastBlock
  BY DEF Rescan, PeerMisbehavin
<1>3. /\ connectFailures' \in Nat /\ notified' = FALSE /\ queue' = Append(queue, ConnectBlock)
      /\ ConnectBlock \in QueueBlock /\ ConnectBlock.type = "connect"
  BY <1>1, <1>2, ConnectFacts DEF ManagerTypes
<1>4. ManagerTypes'
  BY <1>1, <1>2, <1>3, GivenUpFacts DEF ManagerTypes
<1>5. PeerTypes' /\ HandshakeTypes' /\ Threads' /\ \A p \in Peer : Runs(p)' <=> Runs(p)
  BY <1>2, DisconnectFacts
<1>6. QED
  BY <1>2, <1>3, <1>4, <1>5, GivingQueue

----------------------------------------------------------------------------
(***************************************************************************)
(* The queue q.                                                            *)
(***************************************************************************)
\* q takes a block: what it leaves, and what it still reports when no run loop stops.
LEMMA TakenFacts ==
  ASSUME IInv, NEW type, Taken(type)
  PROVE  /\ queue \in Seq(QueueBlock) /\ queue # <<>>
         /\ Tail(queue) \in Seq(QueueBlock) /\ Head(queue) \in QueueBlock /\ Head(queue).type = type
         /\ Watched(Tail(queue), Running)
         /\ \A p \in Peer : Reported(p) =>
              Gone(Tail(queue), 0, p) \/ (type = "disconnected" /\ Head(queue).peer = p)
         /\ type = "connected" => Runs(Head(queue).peer) \/ Gone(Tail(queue), 0, Head(queue).peer)
         /\ type \in {"connected", "disconnected"} => Head(queue).peer \in Peer /\ Head(queue).error \in Error
<1>1. queue \in Seq(QueueBlock) /\ queue # <<>> /\ Head(queue).type = type /\ Watched(queue, Running)
  BY TypesSplit DEF IInv, Taken
<1>2. /\ Tail(queue) \in Seq(QueueBlock) /\ Head(queue) \in QueueBlock /\ Watched(Tail(queue), Running)
      /\ \A p \in Peer : Gone(queue, 0, p) =>
           Gone(Tail(queue), 0, p) \/ (Head(queue).type = "disconnected" /\ Head(queue).peer = p)
      /\ Head(queue).type = "connected" =>
           Head(queue).peer \in Running \/ Gone(Tail(queue), 0, Head(queue).peer)
  BY <1>1, TakingReports
<1>3. type \in {"connected", "disconnected"} => Head(queue).peer \in Peer /\ Head(queue).error \in Error
  BY <1>1, <1>2 DEF QueueBlock, ConnectBlock
<1>4. \A p \in Peer : Reported(p) => Gone(queue, 0, p)
  BY <1>1, IndexFacts DEF Reported, Gone
<1>5. QED
  BY <1>1, <1>2, <1>3, <1>4 DEF Running

\* What the manager watches when a block was taken and no run loop has stopped.
LEMMA TakingQueue ==
  ASSUME IInv, ManagerTypes', PeerTypes', HandshakeTypes', Threads',
         NEW s \in Seq(QueueBlock), Watched(s, Running), queue' = s,
         \A p \in Peer : Runs(p) => Runs(p)',
         connected' => downloadPeer' \in Peer,
         connected' /\ ~goneChosen' => Runs(downloadPeer') \/ Gone(s, 0, downloadPeer'),
         StopsOnlyWhenNotified'
  PROVE  IInv'
<1>1. ConnectionsTypeOK'
  BY DEF ConnectionsTypeOK, ManagerTypes, PeerTypes, HandshakeTypes, QueueBlock, Error
<1>2. Watched(queue, Running)'
  <2>1. Running \subseteq Running'
    BY DEF Running
  <2>2. QED
    BY <2>1, LeavingReports
<1>3. DownloadPeerChosen'
  BY DEF DownloadPeerChosen
<1>4. DownloadPeerWatched'
  <2>1. SUFFICES ASSUME connected', ~goneChosen' PROVE (Runs(downloadPeer) \/ Reported(downloadPeer))'
    BY DEF DownloadPeerWatched
  <2>2. CASE Runs(downloadPeer')
    <3>1. PICK c \in Peer : c = downloadPeer'
      BY <2>1
    <3>2. Runs(c)'
      BY <2>2, <3>1
    <3>3. QED
      BY <3>1, <3>2 DEF Runs
  <2>3. CASE Gone(s, 0, downloadPeer')
    BY <2>3 DEF Gone, Reported
  <2>4. QED
    BY <2>1, <2>2, <2>3
<1>5. QED
  BY <1>1, <1>2, <1>3, <1>4 DEF IInv

\* With those that are there, no more peers than allowed.
LEMMA RoomFacts ==
  ASSUME ManagerTypes, NEW kept \in SUBSET connectedPeers, NEW new \in SUBSET Untried,
         Cardinality(new) = Room(kept)
  PROVE  kept \cup new \subseteq Peer /\ Cardinality(kept \cup new) <= MaxConnections
<1>1. /\ IsFiniteSet(kept) /\ Cardinality(kept) \in Nat /\ Cardinality(kept) <= MaxConnections
      /\ kept \subseteq Peer
  BY FewerPeers
<1>2. new \subseteq Peer /\ IsFiniteSet(new) /\ Cardinality(new) \in Nat
  BY ConnectionsAssumption, FS_Subset, FS_CardinalityType DEF Untried
<1>3. IsFiniteSet(Untried) /\ Cardinality(Untried) \in Nat /\ MaxConnections \in Nat
  BY ConnectionsAssumption, FS_Subset, FS_CardinalityType, Untried \subseteq Peer DEF Untried
<1>4. Cardinality(new) <= MaxConnections - Cardinality(kept)
  BY <1>1, <1>3 DEF Room, Smaller
<1>5. IsFiniteSet(kept \cap new) /\ Cardinality(kept \cap new) \in Nat
  BY <1>1, FS_Subset, FS_CardinalityType, kept \cap new \subseteq kept
<1>6. Cardinality(kept \cup new) = Cardinality(kept) + Cardinality(new) - Cardinality(kept \cap new)
  BY <1>1, <1>2, FS_Union
<1>7. QED
  BY <1>1, <1>2, <1>3, <1>4, <1>5, <1>6

\* There is a peer to wait for, or the user was told that there is none.
LEMMA ConnectPeersKeeps ==
  ASSUME IInv, ConnectPeers
  PROVE  IInv'
<1>1. ManagerTypes /\ PeerTypes /\ HandshakeTypes /\ Threads
  BY TypesSplit DEF IInv
<1> DEFINE kept == Present(connectedPeers)
<1>2. PICK new \in SUBSET Untried :
        /\ Cardinality(new) = Room(kept)
        /\ connectedPeers' = kept \cup new
        /\ status' = [p \in Peer |-> IF p \in new THEN "connecting" ELSE status[p]]
        /\ runLoop' = [p \in Peer |-> IF p \in new THEN "starting" ELSE runLoop[p]]
        /\ notified' = IF kept \cup new = {} THEN TRUE ELSE notified
        /\ syncTimer' = (syncTimer /\ kept \cup new # {})
  BY DEF ConnectPeers
<1>3. /\ Taken("connect") /\ queue' = Tail(queue)
      /\ UNCHANGED <<downloadPeer, connected, connectFailures, lastBlock, main, timer, closes,
                     handshake, lastblock, goneChosen, breaks>>
  BY DEF ConnectPeers
<1>4. new \subseteq Peer /\ \A p \in new : runLoop[p] = "none"
  BY DEF Untried
<1>5. kept \in SUBSET connectedPeers /\ \A p \in kept : p \in Peer /\ runLoop[p] \in {"starting", "open"}
  BY <1>1 DEF Present, Threads, ManagerTypes
<1>6. ManagerTypes' /\ HandshakeTypes'
  <2>1. connectedPeers' \subseteq Peer /\ Cardinality(connectedPeers') <= MaxConnections
    BY <1>1, <1>2, <1>5, RoomFacts
  <2>2. QED
    BY <1>1, <1>2, <1>3, <2>1 DEF ManagerTypes, HandshakeTypes
<1>7. PeerTypes' /\ Threads'
  BY <1>1, <1>2, <1>3, <1>4 DEF PeerTypes, Threads
<1>8. \A p \in Peer : Runs(p) => Runs(p)'
  BY <1>1, <1>2, <1>3, <1>4 DEF PeerTypes, Threads, Runs
<1>9. StopsOnlyWhenNotified'
  <2>1. CASE kept \cup new = {}
    BY <1>2, <2>1 DEF StopsOnlyWhenNotified, NotifiedOrTrying
  <2>2. CASE kept \cup new # {}
    <3>1. PICK p \in Peer : p \in kept \cup new
      BY <2>2, <1>4, <1>5
    <3>2. runLoop'[p] \in {"starting", "open"}
      BY <3>1, <1>2, <1>5
    <3>3. Runs(p)' \/ runLoop'[p] = "starting"
      BY <3>2 DEF Runs
    <3>4. QED
      BY <3>3 DEF StopsOnlyWhenNotified, NotifiedOrTrying, Idle
  <2>3. QED
    BY <2>1, <2>2
<1>10. /\ Tail(queue) \in Seq(QueueBlock) /\ Watched(Tail(queue), Running)
       /\ \A p \in Peer : Reported(p) => Gone(Tail(queue), 0, p)
  BY <1>3, TakenFacts
<1>11. /\ connected' => downloadPeer' \in Peer
       /\ connected' /\ ~goneChosen' => Runs(downloadPeer') \/ Gone(Tail(queue), 0, downloadPeer')
  BY <1>3, <1>10 DEF IInv, DownloadPeerChosen, DownloadPeerWatched
<1>12. QED
  BY <1>3, <1>6, <1>7, <1>8, <1>9, <1>10, <1>11, TakingQueue

\* A peer that is there ends the row of failures; one that is not has closed, or will,
\* and is reported after this.
LEMMA PeerConnectedKeeps ==
  ASSUME IInv, PeerConnected
  PROVE  IInv'
<1>1. ManagerTypes /\ PeerTypes /\ HandshakeTypes /\ Threads
  BY TypesSplit DEF IInv
<1>2. PICK p \in Peer : p = Head(queue).peer
  BY TakenFacts DEF PeerConnected
<1>3. /\ queue' = Tail(queue)
      /\ UNCHANGED <<lastBlock, main, runLoop, handshake, lastblock, notified>>
      /\ connectFailures' = IF status[p] = "connected" THEN 0 ELSE connectFailures
  BY <1>2 DEF PeerConnected
<1>4. /\ Tail(queue) \in Seq(QueueBlock) /\ Watched(Tail(queue), Running)
      /\ \A x \in Peer : Reported(x) => Gone(Tail(queue), 0, x)
      /\ Runs(p) \/ Gone(Tail(queue), 0, p)
  BY <1>2, TakenFacts DEF PeerConnected
<1>5. \/ /\ UNCHANGED <<status, timer, closes>> \/ Disconnect({p})
         /\ UNCHANGED <<connectedPeers, downloadPeer, connected, syncTimer, goneChosen, breaks>>
      \/ /\ status[p] = "connected" /\ connected' = TRUE
         /\ \E c \in Chosen(p) :
              /\ downloadPeer' = c
              /\ goneChosen' = (goneChosen \/ ~Runs(c))
              /\ \/ /\ syncTimer' = TRUE /\ Disconnect({downloadPeer} \cap Peer)
                    /\ UNCHANGED <<connectedPeers, breaks>>
                 \/ \E dropped \in {{}, connectedPeers} :
                      /\ SyncStopped(dropped)
                      /\ DisconnectBoth({downloadPeer} \cap Peer, dropped)
  BY <1>2 DEF PeerConnected
<1>6. Chosen(p) \subseteq Peer
  BY <1>1 DEF Chosen, ManagerTypes
<1>7. PeerTypes' /\ HandshakeTypes' /\ Threads' /\ \A x \in Peer : Runs(x)' <=> Runs(x)
  <2>1. CASE UNCHANGED <<status, timer, closes>>
    BY <1>1, <1>3, <2>1 DEF PeerTypes, HandshakeTypes, Threads, Runs
  <2>2. CASE \E ps, qs \in SUBSET Peer : Disconnect(ps) \/ DisconnectBoth(ps, qs)
    BY <1>3, <2>2, DisconnectFacts
  <2>3. connectedPeers \in SUBSET Peer /\ {} \in SUBSET Peer /\ {p} \in SUBSET Peer /\ {downloadPeer} \cap Peer \in SUBSET Peer
    BY <1>1 DEF ManagerTypes
  <2>4. QED
    BY <1>5, <2>1, <2>2, <2>3
<1>8. ManagerTypes'
  <2>1. /\ connectedPeers' \subseteq Peer /\ Cardinality(connectedPeers') <= MaxConnections
        /\ syncTimer' \in BOOLEAN /\ breaks' \in 0..MaxBreaks
    BY <1>1, <1>5, SyncStoppedFacts DEF ManagerTypes
  <2>2. downloadPeer' \in Peer \cup {None} /\ connected' \in BOOLEAN /\ goneChosen' \in BOOLEAN
    BY <1>1, <1>5, <1>6 DEF ManagerTypes
  <2>3. connectFailures' \in Nat
    BY <1>1, <1>3 DEF ManagerTypes
  <2>4. QED
    BY <1>1, <1>3, <2>1, <2>2, <2>3 DEF ManagerTypes
<1>9. /\ connected' => downloadPeer' \in Peer
      /\ connected' /\ ~goneChosen' => Runs(downloadPeer') \/ Gone(Tail(queue), 0, downloadPeer')
  <2>1. CASE UNCHANGED <<downloadPeer, connected, goneChosen>>
    BY <1>4, <2>1 DEF IInv, DownloadPeerChosen, DownloadPeerWatched
  <2>2. CASE \E c \in Chosen(p) : downloadPeer' = c /\ goneChosen' = (goneChosen \/ ~Runs(c))
    BY <1>6, <2>2
  <2>3. QED
    BY <1>5, <2>1, <2>2
<1>10. StopsOnlyWhenNotified'
  <2>1. CASE status[p] = "connected"
    BY <1>3, <2>1 DEF StopsOnlyWhenNotified, NotifiedOrTrying
  <2>2. CASE status[p] # "connected"
    <3>1. Runs(p)' \/ queue' # <<>>
      BY <1>3, <1>4, <1>7, IndexFacts DEF Gone
    <3>2. QED
      BY <3>1 DEF StopsOnlyWhenNotified, NotifiedOrTrying, Idle
  <2>3. QED
    BY <2>1, <2>2
<1>11. QED
  BY <1>3, <1>4, <1>7, <1>8, <1>9, <1>10, TakingQueue

\* The main thread is going to try again, and the download peer is not this one.
LEMMA DisconnectedKeeps ==
  ASSUME IInv, DisconnectedWithError
  PROVE  IInv'
<1>1. ManagerTypes /\ PeerTypes /\ HandshakeTypes /\ Threads
  BY TypesSplit DEF IInv
<1>2. PICK p \in Peer : p = Head(queue).peer
  BY TakenFacts DEF DisconnectedWithError
<1>3. /\ Taken("disconnected") /\ main' = Append(main, "retry")
      /\ UNCHANGED <<lastBlock, runLoop, handshake, lastblock, goneChosen>>
  BY DEF DisconnectedWithError
<1>4. PICK dropped \in {{}, connectedPeers}, ps \in {{}, {p}}, n \in Nat :
        /\ DownloadPeerLost(p, ps, dropped)
        /\ \/ Connect(n, Tail(queue))
           \/ connectFailures' \in Nat /\ queue' = Tail(queue) /\ UNCHANGED notified
  <2> DEFINE m == connectFailures + (IF Head(queue).error = "network" THEN 1 ELSE 0)
  <2>1. m \in Nat /\ Limited(m) \in Nat
    BY <1>1, ConnectionsAssumption DEF ManagerTypes, Limited
  <2>2. PICK dropped \in {{}, connectedPeers} :
          \/ Connect(m, Tail(queue)) /\ DownloadPeerLost(p, {p}, dropped)
          \/ /\ connectFailures' = IF downloadPeer = p THEN Limited(m) ELSE m
             /\ queue' = Tail(queue) /\ DownloadPeerLost(p, {}, dropped) /\ UNCHANGED notified
    BY <1>2 DEF DisconnectedWithError
  <2>3. QED
    BY <2>1, <2>2
<1>5. /\ Tail(queue) \in Seq(QueueBlock) /\ Watched(Tail(queue), Running)
      /\ \A x \in Peer : Reported(x) => Gone(Tail(queue), 0, x) \/ x = p
  BY <1>2, <1>3, TakenFacts
<1>6. PeerTypes' /\ HandshakeTypes' /\ Threads' /\ \A x \in Peer : Runs(x)' <=> Runs(x)
  <2>1. ps \in SUBSET Peer /\ dropped \in SUBSET Peer
    BY <1>1 DEF ManagerTypes
  <2>2. QED
    BY <1>3, <1>4, <2>1, DisconnectFacts DEF DownloadPeerLost
<1>7. \/ connected' = FALSE /\ downloadPeer' = None /\ SyncStopped(dropped)
      \/ downloadPeer # p /\ UNCHANGED <<connectedPeers, downloadPeer, connected, syncTimer, breaks>>
  BY <1>4 DEF DownloadPeerLost
<1>8. /\ connected' => downloadPeer' \in Peer
      /\ connected' /\ ~goneChosen' => Runs(downloadPeer') \/ Gone(Tail(queue), 0, downloadPeer')
  BY <1>3, <1>5, <1>7 DEF IInv, DownloadPeerChosen, DownloadPeerWatched
<1>9. main' \in Seq({"retry"}) /\ main' # <<>>
  BY <1>1, <1>3, AppendFacts, IndexFacts DEF ManagerTypes
<1>10. connectFailures' \in Nat /\ notified' \in BOOLEAN
  BY <1>1, <1>4, <1>5, ConnectFacts DEF ManagerTypes
<1>11. ManagerTypes'
  <2>1. /\ connectedPeers' \subseteq Peer /\ Cardinality(connectedPeers') <= MaxConnections
        /\ syncTimer' \in BOOLEAN /\ breaks' \in 0..MaxBreaks
        /\ downloadPeer' \in Peer \cup {None} /\ connected' \in BOOLEAN
    BY <1>1, <1>7, SyncStoppedFacts DEF ManagerTypes
  <2>2. QED
    BY <1>1, <1>3, <1>9, <1>10, <2>1 DEF ManagerTypes
<1>12. StopsOnlyWhenNotified'
  BY <1>9 DEF StopsOnlyWhenNotified, NotifiedOrTrying, Idle
<1>13. CASE queue' = Tail(queue)
  BY <1>5, <1>6, <1>8, <1>11, <1>12, <1>13, TakingQueue
<1>14. CASE queue' = Append(Tail(queue), ConnectBlock)
  <2>1. ConnectBlock \in QueueBlock /\ ConnectBlock.type = "connect"
    BY DEF QueueBlock, ConnectBlock
  <2>2. /\ queue' \in Seq(QueueBlock) /\ Watched(queue', Running)
        /\ \A x \in Peer : Gone(Tail(queue), 0, x) => Gone(queue', 0, x)
    BY <1>5, <1>14, <2>1, GivingReports
  <2>3. PICK s \in Seq(QueueBlock) : s = queue'
    BY <2>2
  <2>4. Watched(s, Running) /\ \A x \in Peer : Gone(Tail(queue), 0, x) => Gone(s, 0, x)
    BY <2>2, <2>3
  <2>5. connected' /\ ~goneChosen' => Runs(downloadPeer') \/ Gone(s, 0, downloadPeer')
    BY <1>8, <2>4
  <2>6. QED
    BY <1>6, <1>8, <1>11, <1>12, <2>3, <2>4, <2>5, TakingQueue
<1>15. QED
  BY <1>4, <1>5, <1>13, <1>14, ConnectFacts

----------------------------------------------------------------------------
(***************************************************************************)
(* The theorems.                                                           *)
(***************************************************************************)
LEMMA InitInv == Init => IInv
<1> SUFFICES ASSUME Init PROVE IInv
  OBVIOUS
<1>1. Cardinality({}) <= MaxConnections
  BY ConnectionsAssumption, FS_EmptySet
<1>2. ManagerTypes
  <2>1. connectedPeers = {} /\ main = <<>> /\ main \in Seq({"retry"}) /\ breaks \in 0..MaxBreaks
    BY ConnectionsAssumption DEF Init
  <2>2. Cardinality(connectedPeers) <= MaxConnections
    BY <1>1, <2>1, Zenon
  <2>3. QED
    BY <2>1, <2>2 DEF Init, ManagerTypes
<1>3. PeerTypes /\ HandshakeTypes /\ queue \in Seq(QueueBlock) /\ queue = <<>>
  BY DEF Init, PeerTypes, HandshakeTypes
<1>4. Threads /\ DownloadPeerChosen /\ DownloadPeerWatched /\ StopsOnlyWhenNotified
  BY DEF Init, Threads, DownloadPeerChosen, DownloadPeerWatched, StopsOnlyWhenNotified, NotifiedOrTrying
<1>5. Watched(queue, Running)
  BY <1>3 DEF Watched
<1>6. QED
  BY <1>2, <1>3, <1>4, <1>5, TypesSplit DEF IInv

LEMMA StepInv == IInv /\ [Next]_vars => IInv'
<1> SUFFICES ASSUME IInv, [Next]_vars PROVE IInv'
  OBVIOUS
<1>1. CASE UserConnects
  BY <1>1, UserConnectsKeeps
<1>2. CASE Retry
  BY <1>2, RetryKeeps
<1>3. CASE SyncTimeout \/ ResignActive \/ SeedObserver \/ \E p \in Peer : Downloaded(p)
  BY <1>3, AskingKeeps
<1>4. CASE Rescan \/ \E p \in Peer : PeerMisbehavin(p)
  BY <1>4, AskingAndConnectingKeeps
<1>5. CASE ConnectPeers
  BY <1>5, ConnectPeersKeeps
<1>6. CASE PeerConnected
  BY <1>6, PeerConnectedKeeps
<1>7. CASE DisconnectedWithError
  BY <1>7, DisconnectedKeeps
<1>8. ASSUME NEW p \in Peer, Open(p) \/ Version(p) \/ Verack(p) \/ Timeout(p) \/ Break(p) \/ Close(p)
      PROVE  IInv'
  BY <1>8, OpenKeeps, VersionKeeps, VerackKeeps, TimeoutBreakKeeps, CloseKeeps
<1>9. CASE UNCHANGED vars
  BY <1>9 DEF vars, managerVars, peerVars, IInv, ConnectionsTypeOK, Threads, DownloadPeerChosen, Watched,
     Gone, Running, Runs, DownloadPeerWatched, Reported, StopsOnlyWhenNotified, NotifiedOrTrying, Idle
<1>10. QED
  BY <1>1, <1>2, <1>3, <1>4, <1>5, <1>6, <1>7, <1>8, <1>9 DEF Next

\* What the manager and the connections leave behind, in every state.
THEOREM ConnectionsFollowed == Spec => []IInv
<1>1. QED
  BY InitInv, StepInv, PTL DEF Spec

\* The types, and never more than MAX_CONNECTIONS peers: connect fills up what the
\* peers that are there leave (BRPeerManager.m, connect).
THEOREM ConnectionsTypeCorrect == Spec => []ConnectionsTypeOK
<1>1. IInv => ConnectionsTypeOK
  BY DEF IInv
<1>2. QED
  BY <1>1, ConnectionsFollowed, PTL

\* A download peer that was there when peerConnected: chose it is there, or q has yet to
\* hear from disconnectedWithError: that it is not, however the errors, the timers and the
\* closing of the others fall in between.
THEOREM DownloadPeerAlwaysWatched == Spec => []DownloadPeerWatched
<1>1. IInv => DownloadPeerWatched
  BY DEF IInv
<1>2. QED
  BY <1>1, ConnectionsFollowed, PTL

\* With connections failing and nothing under way, the user was told: for any number of
\* peers, connections and failures allowed.
THEOREM NeverStopsSilently == Spec => []StopsOnlyWhenNotified
<1>1. IInv => StopsOnlyWhenNotified
  BY DEF IInv
<1>2. QED
  BY <1>1, ConnectionsFollowed, PTL
=============================================================================

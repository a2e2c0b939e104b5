----------------------------- MODULE Connections -----------------------------
(***************************************************************************)
(* The connections of BRPeerManager: how they are opened and lost, which   *)
(* one becomes the download peer, and when the manager tries again or      *)
(* tells the user.                                                         *)
(*                                                                         *)
(* The main thread and the queue q take their blocks in turn (`main',      *)
(* `queue'); every connection has a thread with a run loop, where its      *)
(* timer and its socket live and where it is closed (`closes').            *)
(* disconnect, from any thread, only asks the run loop to close it.        *)
(*                                                                         *)
(* Every connection here is to an address not tried before: the list holds *)
(* up to 2500 of them.  A BRPeer used again before its last run loop has   *)
(* stopped is left out.  Scheduling and canceling syncTimeout, and telling *)
(* the user that no peers are found, which are further blocks of the main  *)
(* thread, happen at once.                                                 *)
(***************************************************************************)
EXTENDS Integers, Sequences, FiniteSets

CONSTANTS
  Peer,            \* bound: the addresses there are to try
  LastBlocks,      \* bound: the heights that peers report
  MaxConnections,  \* MAX_CONNECTIONS
  MaxFailures,     \* MAX_CONNENCT_FAILURES
  MaxBreaks,       \* bound: how often a connection is given up for a reason from outside
  None

ASSUME ConnectionsAssumption ==
  /\ IsFiniteSet(Peer) /\ None \notin Peer
  /\ LastBlocks \subseteq Nat
  /\ MaxConnections \in Nat \ {0} /\ MaxFailures \in Nat \ {0} /\ MaxBreaks \in Nat

VARIABLES
  \* of BRPeerManager
  connectedPeers, downloadPeer, connected, connectFailures,
  lastBlock,     \* the height of its chain
  syncTimer,     \* syncTimeout is scheduled
  main, queue,
  \* of each BRPeer
  status, runLoop, timer, closes,
  handshake,     \* how many of version and verack have come
  lastblock,     \* the height it reports, 0 before its version
  \* what has happened
  notified,      \* what the user knows last is that the connection failed
  goneChosen,    \* the download peer was chosen after its run loop had stopped
  breaks

managerVars == <<connectedPeers, downloadPeer, connected, connectFailures, lastBlock, syncTimer>>
peerVars == <<status, runLoop, timer, closes, handshake, lastblock>>
vars == <<managerVars, main, queue, peerVars, notified, goneChosen, breaks>>

----------------------------------------------------------------------------
(***************************************************************************)
(* BRPeer.                                                                 *)
(***************************************************************************)
\* A run loop goes on as long as it has a socket or a timer.
Runs(p) == runLoop[p] = "open" \/ closes[p] # <<>> \/ (runLoop[p] = "closed" /\ timer[p])

Times(p, ps, qs) == Cardinality({i \in 1..2 : p \in <<ps, qs>>[i]})

\* disconnectWithError: called for the peers ps, then for qs.  The status changes at once,
\* the rest is for the run loop, if there is one.  Only its own thread can cancel the timer.
Asked(ps, qs, error) ==
  /\ status' = [p \in Peer |-> IF p \in ps \cup qs THEN "disconnected" ELSE status[p]]
  /\ closes' = [p \in Peer |->
                 IF Runs(p) THEN closes[p] \o [i \in 1..Times(p, ps, qs) |-> error] ELSE closes[p]]

Disconnect(ps) == Asked(ps, {}, "none") /\ UNCHANGED timer

DisconnectBoth(ps, qs) == Asked(ps, qs, "none") /\ UNCHANGED timer

OwnDisconnect(p, error) == Asked({p}, {}, error) /\ timer' = [timer EXCEPT ![p] = FALSE]

\* The block of connect on the thread of the peer.
Open(p) ==
  /\ runLoop[p] = "starting"
  /\ runLoop' = [runLoop EXCEPT ![p] = "open"] /\ timer' = [timer EXCEPT ![p] = TRUE]
  /\ UNCHANGED <<managerVars, main, queue, status, closes, handshake, lastblock, notified, goneChosen, breaks>>

Version(p) ==
  /\ runLoop[p] = "open" /\ handshake[p] = 0
  /\ handshake' = [handshake EXCEPT ![p] = 1]
  /\ \E h \in LastBlocks : lastblock' = [lastblock EXCEPT ![p] = h]
  /\ UNCHANGED <<managerVars, main, queue, status, runLoop, timer, closes, notified, goneChosen, breaks>>

Block(type, p, error) == [type |-> type, peer |-> p, error |-> error]

\* Cancels the timer, and with that the handshake is over (didConnect).
Verack(p) ==
  /\ runLoop[p] = "open" /\ handshake[p] = 1
  /\ handshake' = [handshake EXCEPT ![p] = 2] /\ timer' = [timer EXCEPT ![p] = FALSE]
  /\ IF status[p] = "connecting"
     THEN /\ status' = [status EXCEPT ![p] = "connected"]
          /\ queue' = Append(queue, Block("connected", p, "none"))
     ELSE UNCHANGED <<status, queue>>
  /\ UNCHANGED <<managerVars, main, runLoop, closes, lastblock, notified, goneChosen, breaks>>

Timeout(p) ==
  /\ timer[p] /\ OwnDisconnect(p, "network")
  /\ UNCHANGED <<managerVars, main, queue, runLoop, handshake, lastblock, notified, goneChosen, breaks>>

GivenUp == breaks < MaxBreaks /\ breaks' = breaks + 1

\* The other side closes the connection, the network fails, or a message is malformed.
Break(p) ==
  /\ runLoop[p] = "open" /\ GivenUp
  /\ \E error \in {"none", "network", "protocol"} : OwnDisconnect(p, error)
  /\ UNCHANGED <<managerVars, main, queue, runLoop, handshake, lastblock, notified, goneChosen>>

\* The block of disconnectWithError: on the run loop.
Close(p) ==
  /\ closes[p] # <<>>
  /\ closes' = [closes EXCEPT ![p] = Tail(@)]
  /\ runLoop' = [runLoop EXCEPT ![p] = "closed"] /\ status' = [status EXCEPT ![p] = "disconnected"]
  /\ queue' = Append(queue, Block("disconnected", p, Head(closes[p])))
  /\ UNCHANGED <<managerVars, main, timer, handshake, lastblock, notified, goneChosen, breaks>>

----------------------------------------------------------------------------
(***************************************************************************)
(* The main thread.                                                        *)
(***************************************************************************)
ConnectBlock == [type |-> "connect"]

\* connect, when the count of failures is n and after the blocks q has in s.
Connect(n, s) ==
  /\ connectFailures' = IF n >= MaxFailures THEN 0 ELSE n
  /\ queue' = Append(s, ConnectBlock)
  /\ notified' = FALSE

\* A screen is shown, or the app comes back: a manual retry.  Bound: when both threads
\* have nothing to do and there is no download peer.
UserConnects ==
  /\ queue = <<>> /\ main = <<>> /\ downloadPeer = None
  /\ Connect(connectFailures, queue)
  /\ UNCHANGED <<connectedPeers, downloadPeer, connected, lastBlock, syncTimer, main, peerVars, goneChosen, breaks>>

GivesUp == ~connected /\ connectFailures = MaxFailures

\* Mutant of TriesAgain: stops one failure too early.
TriesLess == connectFailures < MaxFailures - 1

TriesAgain == connectFailures < MaxFailures

\* The block of disconnectedWithError: tells the user, or tries another peer.
Retry ==
  /\ main # <<>> /\ main' = Tail(main)
  /\ \/ /\ GivesUp /\ connectedPeers' = {} /\ notified' = TRUE
        /\ UNCHANGED <<connectFailures, queue>>
     \/ /\ ~GivesUp /\ TriesAgain
        /\ Connect(connectFailures, queue)
        /\ UNCHANGED connectedPeers
     \/ /\ ~GivesUp /\ ~TriesAgain
        /\ UNCHANGED <<connectedPeers, connectFailures, notified, queue>>
  /\ UNCHANGED <<downloadPeer, connected, lastBlock, syncTimer, peerVars, goneChosen, breaks>>

\* syncTimeout, after the download peer has relayed nothing for PROTOCOL_TIMEOUT.
SyncTimeout ==
  /\ syncTimer /\ syncTimer' = FALSE
  /\ Disconnect({downloadPeer} \cap Peer)
  /\ UNCHANGED <<connectedPeers, downloadPeer, connected, connectFailures, lastBlock, main, queue, runLoop,
                 handshake, lastblock, notified, goneChosen, breaks>>

\* The app resigns; it connects again when it comes back.
ResignActive ==
  /\ downloadPeer # None /\ lastBlock >= lastblock[downloadPeer]
  /\ GivenUp /\ Disconnect(connectedPeers)
  /\ UNCHANGED <<managerVars, main, queue, runLoop, handshake, lastblock, notified, goneChosen>>

\* The wallet is another one: its chain starts again.
SeedObserver ==
  /\ lastBlock' = 0
  /\ GivenUp /\ Disconnect(connectedPeers)
  /\ UNCHANGED <<connectedPeers, downloadPeer, connected, connectFailures, syncTimer, main, queue,
                 runLoop, handshake, lastblock, notified, goneChosen>>

Rescan ==
  /\ connected /\ lastBlock' = 0
  /\ GivenUp /\ Disconnect({downloadPeer} \cap Peer)
  /\ Connect(connectFailures, queue)
  /\ UNCHANGED <<connectedPeers, downloadPeer, connected, syncTimer, main, runLoop, handshake,
                 lastblock, goneChosen>>

----------------------------------------------------------------------------
(***************************************************************************)
(* The queue q.                                                            *)
(***************************************************************************)
Taken(type) == queue # <<>> /\ Head(queue).type = type

\* syncStopped: with the app in the background, it drops the connections.
SyncStopped(dropped) ==
  /\ syncTimer' = FALSE
  /\ connectedPeers' = connectedPeers \ dropped
  /\ \/ dropped = {} /\ UNCHANGED breaks
     \/ dropped = connectedPeers /\ GivenUp

Present(ps) == {p \in ps : status[p] # "disconnected"}

Smaller(m, n) == IF m < n THEN m ELSE n

Untried == {p \in Peer : runLoop[p] = "none"}

\* Mutant of Room: does not count those that are there.
AllRoom(kept) == Smaller(MaxConnections, Cardinality(Untried))

Room(kept) == Smaller(MaxConnections - Cardinality(kept), Cardinality(Untried))

\* The block of connect: forgets the peers that are gone, and connects to others.
ConnectPeers ==
  /\ Taken("connect") /\ queue' = Tail(queue)
  /\ LET kept == Present(connectedPeers)
     IN  \E new \in SUBSET Untried :
           /\ Cardinality(new) = Room(kept)
           /\ connectedPeers' = kept \cup new
           /\ status' = [p \in Peer |-> IF p \in new THEN "connecting" ELSE status[p]]
           /\ runLoop' = [p \in Peer |-> IF p \in new THEN "starting" ELSE runLoop[p]]
           /\ notified' = IF kept \cup new = {} THEN TRUE ELSE notified
           /\ syncTimer' = (syncTimer /\ kept \cup new # {})
  /\ UNCHANGED <<downloadPeer, connected, connectFailures, lastBlock, main, timer, closes,
                 handshake, lastblock, goneChosen, breaks>>

\* Which of the peers peerConnected: takes for the download: one of the greatest height,
\* and of those the one with the least ping time, which is infinite before verack.
Chosen(p) ==
  LET all == connectedPeers \cup {p}
      highest == {x \in all : \A y \in all : lastblock[y] <= lastblock[x]}
      timed == {x \in highest : handshake[x] = 2}
  IN  IF timed # {} THEN timed ELSE highest

\* peerConnected: of a peer whose chain is not much shorter than the manager's.
PeerConnected ==
  /\ Taken("connected") /\ queue' = Tail(queue)
  /\ LET p == Head(queue).peer
         behind == lastblock[p] + 10 < lastBlock
         other == /\ connected
                  /\ lastblock[downloadPeer] >= lastblock[p] \/ lastBlock >= lastblock[p]
         ready == status[p] = "connected"
     IN  /\ connectFailures' = IF ready THEN 0 ELSE connectFailures
         /\ \/ /\ ready /\ behind /\ Disconnect({p})
               /\ UNCHANGED <<connectedPeers, downloadPeer, connected, syncTimer, goneChosen, breaks>>
            \/ /\ ~ready \/ (~behind /\ other)
               /\ UNCHANGED <<connectedPeers, downloadPeer, connected, syncTimer, goneChosen, breaks,
                              status, timer, closes>>
            \/ /\ ready /\ ~behind /\ ~other /\ connected' = TRUE
               /\ \E c \in Chosen(p) :
                    /\ downloadPeer' = c
                    /\ goneChosen' = (goneChosen \/ ~Runs(c))
                    /\ \/ /\ lastBlock < lastblock[c] /\ syncTimer' = TRUE
                          /\ Disconnect({downloadPeer} \cap Peer)
                          /\ UNCHANGED <<connectedPeers, breaks>>
                       \/ /\ lastBlock >= lastblock[c]
                          /\ \E dropped \in {{}, connectedPeers} :
                               /\ SyncStopped(dropped)
                               /\ DisconnectBoth({downloadPeer} \cap Peer, dropped)
  /\ UNCHANGED <<lastBlock, main, runLoop, handshake, lastblock, notified>>

\* Mutant of DownloadPeerLost: whoever was chosen last stays.
DownloadPeerKept(p, ps, dropped) ==
  /\ dropped = {} /\ DisconnectBoth(ps, {})
  /\ UNCHANGED <<connectedPeers, downloadPeer, connected, syncTimer, breaks>>

\* What disconnectedWithError: of p does to the download, and with the peers ps.
DownloadPeerLost(p, ps, dropped) ==
  /\ DisconnectBoth(ps, dropped)
  /\ \/ /\ downloadPeer = p /\ downloadPeer' = None /\ connected' = FALSE
        /\ SyncStopped(dropped)
     \/ /\ downloadPeer # p /\ dropped = {}
        /\ UNCHANGED <<connectedPeers, downloadPeer, connected, syncTimer, breaks>>

Limited(n) == IF n > MaxFailures THEN MaxFailures ELSE n

\* disconnectedWithError: one that broke the rules is disconnected again and another
\* looked for, with any other error the failures are counted.
DisconnectedWithError ==
  /\ Taken("disconnected") /\ main' = Append(main, "retry")
  /\ LET p == Head(queue).peer
         error == Head(queue).error
         n == connectFailures + (IF error = "network" THEN 1 ELSE 0)
     IN  \E dropped \in {{}, connectedPeers} :
           \/ /\ error = "protocol"
              /\ Connect(n, Tail(queue))
              /\ DownloadPeerLost(p, {p}, dropped)
           \/ /\ error # "protocol"
              /\ connectFailures' = IF downloadPeer = p THEN Limited(n) ELSE n
              /\ queue' = Tail(queue)
              /\ DownloadPeerLost(p, {}, dropped)
              /\ UNCHANGED notified
  /\ UNCHANGED <<lastBlock, runLoop, handshake, lastblock, goneChosen>>

\* peerMisbehavin: after a block that does not fit.
PeerMisbehavin(p) ==
  /\ status[p] = "connected" /\ runLoop[p] = "open"
  /\ GivenUp /\ Disconnect({p})
  /\ Connect(connectFailures, queue)
  /\ UNCHANGED <<connectedPeers, downloadPeer, connected, lastBlock, syncTimer, main, runLoop, handshake,
                 lastblock, goneChosen>>

\* relayedBlock: of the last block of a peer: its download is complete.
Downloaded(p) ==
  /\ status[p] = "connected" /\ lastBlock < lastblock[p]
  /\ lastBlock' = lastblock[p]
  /\ \E dropped \in {{}, connectedPeers} : SyncStopped(dropped) /\ Disconnect(dropped)
  /\ UNCHANGED <<downloadPeer, connected, connectFailures, main, queue, runLoop, handshake, lastblock,
                 notified, goneChosen>>

----------------------------------------------------------------------------
Init ==
  /\ connectedPeers = {} /\ downloadPeer = None /\ connected = FALSE /\ connectFailures = 0
  /\ lastBlock = 0 /\ syncTimer = FALSE /\ main = <<>> /\ queue = <<>>
  /\ status = [p \in Peer |-> "disconnected"] /\ runLoop = [p \in Peer |-> "none"]
  /\ timer = [p \in Peer |-> FALSE] /\ closes = [p \in Peer |-> <<>>]
  /\ handshake = [p \in Peer |-> 0] /\ lastblock = [p \in Peer |-> 0]
  /\ notified = FALSE /\ goneChosen = FALSE /\ breaks = 0

Next ==
  \/ UserConnects \/ Retry \/ SyncTimeout \/ ResignActive \/ SeedObserver \/ Rescan
  \/ ConnectPeers \/ PeerConnected \/ DisconnectedWithError
  \/ \E p \in Peer : \/ Open(p) \/ Version(p) \/ Verack(p) \/ Timeout(p) \/ Break(p) \/ Close(p)
                     \/ PeerMisbehavin(p) \/ Downloaded(p)

Spec == Init /\ [][Next]_vars

----------------------------------------------------------------------------
(***************************************************************************)
(* Properties.                                                             *)
(***************************************************************************)
\* The types; never more than MaxConnections peers.
ConnectionsTypeOK ==
  /\ connectedPeers \subseteq Peer /\ Cardinality(connectedPeers) <= MaxConnections
  /\ downloadPeer \in Peer \cup {None} /\ connected \in BOOLEAN /\ connectFailures \in Nat
  /\ lastBlock \in LastBlocks \cup {0} /\ syncTimer \in BOOLEAN
  /\ main \in Seq({"retry"})
  /\ queue \in Seq({ConnectBlock} \cup [type : {"connected", "disconnected"}, peer : Peer,
                                         error : {"none", "network", "protocol"}])
  /\ status \in [Peer -> {"disconnected", "connecting", "connected"}]
  /\ runLoop \in [Peer -> {"none", "starting", "open", "closed"}]
  /\ timer \in [Peer -> BOOLEAN] /\ closes \in [Peer -> Seq({"none", "network", "protocol"})]
  /\ handshake \in [Peer -> 0..2] /\ lastblock \in [Peer -> LastBlocks \cup {0}]
  /\ notified \in BOOLEAN /\ goneChosen \in BOOLEAN /\ breaks \in 0..MaxBreaks

\* The manager is going to learn that p is gone.
Reported(p) == \E i \in DOMAIN queue : queue[i].type = "disconnected" /\ queue[i].peer = p

\* A manager that is connected has a download peer that is there, or will learn that it
\* is not: nothing else makes it choose another one.  Unless that was gone when it was
\* chosen: see DownloadPeerIsThere.
DownloadPeerWatched ==
  connected /\ ~goneChosen => Runs(downloadPeer) \/ Reported(downloadPeer)

\* Nothing is under way: no block, no connection.
Idle == main = <<>> /\ queue = <<>> /\ \A p \in Peer : ~Runs(p) /\ runLoop[p] # "starting"

\* "notify user of network problems after this many connect failures in a row":
\* BRPeerManager.m, MAX_CONNENCT_FAILURES.
NotifiedOrTrying == Idle /\ connectFailures > 0 => notified

\* A manager that has stopped trying has told the user, unless the failures were counted
\* past the maximum, or it takes a peer that was gone when it was chosen for connected.
StopsOnlyWhenNotified ==
  NotifiedOrTrying \/ connectFailures > MaxFailures \/ (connected /\ goneChosen)

\* "we're already connected to a download peer": BRPeerManager.m, peerConnected.
DownloadPeerIsThere == connected => Runs(downloadPeer) \/ Reported(downloadPeer)
=============================================================================

----------------------------- MODULE Publication -----------------------------
(***************************************************************************)
(* Publishing a transaction: publishTransaction:completion: and the timer  *)
(* on the main thread, the answers to the peers that ask for it on the     *)
(* queue q, and who has relayed or rejected it.                            *)
(*                                                                         *)
(* q takes the blocks the run loops of the peers have given it in turn     *)
(* (`queue'); answering a getdata takes it several steps (`answer'),       *)
(* between which the main thread goes on: it has blocks of its own         *)
(* (`main') and the timers.  A screen publishes a transaction once.        *)
(***************************************************************************)
EXTENDS Naturals, Sequences, FiniteSets

CONSTANTS
  Tx,         \* the transactions the screens publish
  Posted,     \* those that a merchant gets too, and may broadcast
  Peer,       \* the connections, as many as MAX_CONNECTIONS
  None,
  MaxQueue    \* bound: the blocks waiting for q

ASSUME PublicationAssumption ==
  Posted \subseteq Tx /\ None \notin Peer /\ IsFiniteSet(Peer) /\ MaxQueue \in Nat

VARIABLES
  publishedTx,        \* by hash, in BRPeerManager
  publishedCallback,  \* the transactions that have a completion there
  timer,              \* those with a txTimeout: scheduled
  main,               \* the blocks waiting for the main thread
  queue,              \* the blocks waiting for q
  answer,             \* the getdata q is about to answer, or None
  txRelays,           \* by hash, the peers that have relayed a transaction
  txRejections,       \* by hash, those that have rejected it
  wallet,             \* the registered transactions
  confirmed,          \* those with a height
  seedChanged,        \* the wallet is another one
  status,             \* of each peer
  attached,           \* the peers of which q has not seen the disconnection
  at,                 \* what the node of each peer knows of each transaction
  network,            \* the transactions some other node has
  inChain,            \* the transactions in the blocks the manager has taken
  \* what has happened
  accepted, registered, given, reported

tables == <<publishedTx, publishedCallback, txRelays, txRejections>>
threads == <<timer, main, queue, answer>>
walletVars == <<wallet, confirmed, seedChanged>>
peerVars == <<status, attached>>
nodeVars == <<at, network, inChain>>
history == <<accepted, registered, given, reported>>
vars == <<tables, threads, walletVars, peerVars, nodeVars, history>>

Connected(p) == status[p] = "connected"

Relays(t) == IF t \in DOMAIN txRelays THEN txRelays[t] ELSE {}

----------------------------------------------------------------------------
(***************************************************************************)
(* The main thread.                                                        *)
(***************************************************************************)
StartBlock(t, peers) == [type |-> "start", tx |-> t, peers |-> peers]

\* Mutant of SuccessBlock: calls the completion in any case.
AlwaysCalls(t, called) == [type |-> "success", tx |-> t, called |-> TRUE]

SuccessBlock(t, called) == [type |-> "success", tx |-> t, called |-> called]

\* publishTransaction:completion: of a signed transaction while the manager is
\* connected; in other states it calls the completion with an error and does nothing.
\* The download peer is left out where there are others.
PublishTransaction(t) ==
  /\ t \notin accepted /\ ~seedChanged
  /\ publishedTx' = publishedTx \cup {t}
  /\ publishedCallback' = publishedCallback \cup {t}
  /\ accepted' = accepted \cup {t}
  /\ \E downloadPeer \in attached :
       main' = Append(main, StartBlock(t, IF Cardinality({p \in Peer : Connected(p)}) > 1
                                          THEN attached \ {downloadPeer} ELSE attached))
  /\ UNCHANGED <<txRelays, txRejections, timer, queue, answer, walletVars, peerVars, nodeVars,
                 registered, given, reported>>

\* The block of publishTransaction: starts the timer and sends inv.
Start ==
  /\ main # <<>> /\ Head(main).type = "start" /\ main' = Tail(main)
  /\ timer' = timer \cup {Head(main).tx}
  /\ at' = [p \in Peer |-> [t \in Tx |->
              IF p \in Head(main).peers /\ t = Head(main).tx /\ Connected(p) /\ at[p][t] = "unknown"
              THEN "offered" ELSE at[p][t]]]
  /\ UNCHANGED <<tables, queue, answer, walletVars, peerVars, network, inChain, history>>

\* The block of requestedTransaction: cancels the timer and calls the completion.
Success ==
  /\ main # <<>> /\ Head(main).type = "success" /\ main' = Tail(main)
  /\ timer' = timer \ {Head(main).tx}
  /\ reported' = IF Head(main).called THEN [reported EXCEPT ![Head(main).tx] = Append(@, "success")]
                 ELSE reported
  /\ UNCHANGED <<tables, queue, answer, walletVars, peerVars, nodeVars, accepted, registered, given>>

\* Mutant of TxTimeout: forgets the completion without calling it.
SilentTimeout(t) ==
  /\ t \in timer /\ timer' = timer \ {t}
  /\ publishedTx' = publishedTx \ {t}
  /\ publishedCallback' = publishedCallback \ {t}
  /\ UNCHANGED <<txRelays, txRejections, main, queue, answer, walletVars, peerVars, nodeVars, history>>

TxTimeout(t) ==
  /\ t \in timer /\ timer' = timer \ {t}
  /\ publishedTx' = publishedTx \ {t}
  /\ publishedCallback' = publishedCallback \ {t}
  /\ reported' = IF t \in publishedCallback THEN [reported EXCEPT ![t] = Append(@, "error")] ELSE reported
  /\ UNCHANGED <<txRelays, txRejections, main, queue, answer, walletVars, peerVars, nodeVars,
                 accepted, registered, given>>

\* The wallet becomes another one: setSeed:, or wallet that finds the keychain changed.
NewWallet ==
  /\ ~seedChanged /\ seedChanged' = TRUE
  /\ wallet' = {} /\ confirmed' = {}
  /\ main' = Append(main, [type |-> "seed"])
  /\ UNCHANGED <<tables, timer, queue, answer, peerVars, nodeVars, history>>

\* The seed observer: empties the tables and disconnects the peers.
SeedObserver ==
  /\ main # <<>> /\ Head(main).type = "seed" /\ main' = Tail(main)
  /\ publishedTx' = {} /\ publishedCallback' = {}
  /\ txRelays' = <<>> /\ txRejections' = [t \in Tx |-> {}]
  /\ status' = [p \in Peer |-> IF Connected(p) THEN "closing" ELSE status[p]]
  /\ UNCHANGED <<timer, queue, answer, walletVars, attached, nodeVars, history>>

----------------------------------------------------------------------------
(***************************************************************************)
(* The queue q.                                                            *)
(***************************************************************************)
Getdata(p, t) == [type |-> "getdata", peer |-> p, tx |-> t]
Relayed(p, t) == [type |-> "relayed", peer |-> p, tx |-> t]
Rejected(p, t) == [type |-> "rejected", peer |-> p, tx |-> t]
Block(p, t) == [type |-> "block", peer |-> p, tx |-> t]
Disconnected(p) == [type |-> "disconnected", peer |-> p]

Taken(type) == answer = None /\ queue # <<>> /\ Head(queue).type = type /\ queue' = Tail(queue)

\* Mutant of RelayedBy: forgets the others.
OnlyRelayedBy(t, p) == txRelays' = [u \in DOMAIN txRelays \cup {t} |-> IF u = t THEN {p} ELSE txRelays[u]]

RelayedBy(t, p) ==
  txRelays' = [u \in DOMAIN txRelays \cup {t} |-> IF u = t THEN Relays(t) \cup {p} ELSE txRelays[u]]

\* requestedTransaction: looks the transaction and its completion up...
RequestedTransaction ==
  /\ Taken("getdata")
  /\ LET p == Head(queue).peer
         t == Head(queue).tx
     IN  \/ /\ t \in publishedTx
            /\ answer' = [peer |-> p, tx |-> t, called |-> t \in publishedCallback, step |-> "register"]
            /\ UNCHANGED at
         \/ /\ t \notin publishedTx
            /\ at' = [at EXCEPT ![p][t] = "notfound"]
            /\ UNCHANGED answer
  /\ UNCHANGED <<tables, timer, main, walletVars, peerVars, network, inChain, history>>

\* registers it, which does nothing in another wallet than its own...
Register ==
  /\ answer # None /\ answer.step = "register"
  /\ answer' = [answer EXCEPT !.step = "callback"]
  /\ IF seedChanged THEN UNCHANGED <<wallet, registered>>
     ELSE wallet' = wallet \cup {answer.tx} /\ registered' = registered \cup {answer.tx}
  /\ RelayedBy(answer.tx, answer.peer)
  /\ UNCHANGED <<publishedTx, publishedCallback, txRejections, timer, main, queue, confirmed, seedChanged,
                 peerVars, nodeVars, accepted, given, reported>>

\* Mutant of CallbackTaken: leaves it in the table.
CallbackLeft(t) == publishedCallback' = publishedCallback

CallbackTaken(t) == publishedCallback' = publishedCallback \ {t}

\* has the main thread call the completion...
Callback ==
  /\ answer # None /\ answer.step = "callback"
  /\ answer' = [answer EXCEPT !.step = "send"]
  /\ CallbackTaken(answer.tx)
  /\ main' = Append(main, SuccessBlock(answer.tx, answer.called))
  /\ UNCHANGED <<publishedTx, txRelays, txRejections, timer, queue, walletVars, peerVars, nodeVars, history>>

\* and the transaction is sent, if the connection is still there.
SendTx ==
  /\ answer # None /\ answer.step = "send" /\ answer' = None
  /\ IF Connected(answer.peer)
     THEN /\ at' = [at EXCEPT ![answer.peer][answer.tx] = "given"]
          /\ network' = network \cup {answer.tx}
          /\ given' = given \cup {answer.tx}
     ELSE UNCHANGED <<at, network, given>>
  /\ UNCHANGED <<tables, timer, main, queue, walletVars, peerVars, inChain, accepted, registered, reported>>

RelayedTransaction ==
  /\ Taken("relayed")
  /\ LET p == Head(queue).peer
         t == Head(queue).tx
     IN  IF Connected(p) /\ ~seedChanged
         THEN /\ wallet' = wallet \cup {t} /\ registered' = registered \cup {t}
              /\ publishedTx' = publishedTx \cup {t}
              /\ RelayedBy(t, p)
         ELSE UNCHANGED <<wallet, registered, publishedTx, txRelays>>
  /\ UNCHANGED <<publishedCallback, txRejections, timer, main, answer, confirmed, seedChanged, peerVars,
                 nodeVars, accepted, given, reported>>

RejectedTransaction ==
  /\ Taken("rejected")
  /\ LET p == Head(queue).peer
         t == Head(queue).tx
     IN  IF Connected(p)
         THEN /\ txRelays' = [u \in DOMAIN txRelays |-> IF u = t THEN txRelays[u] \ {p} ELSE txRelays[u]]
              /\ txRejections' = [txRejections EXCEPT ![t] = IF t \in publishedTx THEN @ \cup {p} ELSE @]
         ELSE UNCHANGED <<txRelays, txRejections>>
  /\ UNCHANGED <<publishedTx, publishedCallback, timer, main, answer, walletVars, peerVars, nodeVars, history>>

\* setBlockHeight:forTxHashes: of a block that a peer has relayed.
SetBlockHeight ==
  /\ Taken("block")
  /\ LET t == Head(queue).tx
     IN  IF Connected(Head(queue).peer)
         THEN /\ confirmed' = confirmed \cup ({t} \cap wallet)
              /\ publishedTx' = publishedTx \ {t} /\ publishedCallback' = publishedCallback \ {t}
              /\ txRelays' = [u \in DOMAIN txRelays \ {t} |-> txRelays[u]]
              /\ txRejections' = [txRejections EXCEPT ![t] = {}]
              /\ inChain' = inChain \cup {t}
         ELSE UNCHANGED <<confirmed, tables, inChain>>
  /\ UNCHANGED <<timer, main, answer, wallet, seedChanged, peerVars, at, network, history>>

\* Mutant of RejectionsWithout: only the relays are cleaned up.
RejectionsKept(p) == txRejections

RejectionsWithout(p) ==
  [t \in Tx |-> IF t \in DOMAIN txRelays THEN txRejections[t] \ {p} ELSE txRejections[t]]

\* disconnectedWithError: goes through the hashes of txRelays only.
DisconnectedWithError ==
  /\ Taken("disconnected")
  /\ LET p == Head(queue).peer
     IN  /\ attached' = attached \ {p}
         /\ txRelays' = [t \in DOMAIN txRelays |-> txRelays[t] \ {p}]
         /\ txRejections' = RejectionsWithout(p)
  /\ UNCHANGED <<publishedTx, publishedCallback, timer, main, answer, walletVars, status, nodeVars, history>>

\* removeUnrelayedTransactions, when all peers are there and one has relayed peers.
RemoveUnrelayedTransactions ==
  /\ answer = None /\ \A p \in Peer : Connected(p)
  /\ wallet' = {t \in wallet : t \in confirmed \/ Relays(t) # {}}
  /\ UNCHANGED <<tables, threads, confirmed, seedChanged, peerVars, nodeVars, history>>

----------------------------------------------------------------------------
(***************************************************************************)
(* The peers.  A node asks once for a transaction it was offered, relays   *)
(* one that it has from elsewhere, and may reject what it was given.       *)
(***************************************************************************)
\* The run loop of a peer gives q a block.
Queued(b) == Len(queue) < MaxQueue /\ queue' = Append(queue, b)

Knows(p, t, s) == at' = [at EXCEPT ![p][t] = s]

RunLoop(p) == status[p] # "gone"

AskFor(p, t) ==
  /\ RunLoop(p) /\ at[p][t] = "offered"
  /\ Queued(Getdata(p, t)) /\ Knows(p, t, "asked")
  /\ UNCHANGED <<tables, timer, main, answer, walletVars, peerVars, network, inChain, history>>

Relay(p, t) ==
  /\ RunLoop(p) /\ at[p][t] \in {"unknown", "offered"} /\ t \in network
  /\ Queued(Relayed(p, t)) /\ Knows(p, t, "relayed")
  /\ UNCHANGED <<tables, timer, main, answer, walletVars, peerVars, network, inChain, history>>

Reject(p, t) ==
  /\ RunLoop(p) /\ at[p][t] = "given"
  /\ Queued(Rejected(p, t)) /\ Knows(p, t, "rejected")
  /\ UNCHANGED <<tables, timer, main, answer, walletVars, peerVars, network, inChain, history>>

RelayBlock(p, t) ==
  /\ RunLoop(p) /\ t \in network \ inChain
  /\ \A i \in DOMAIN queue : queue[i] # Block(p, t)
  /\ Queued(Block(p, t))
  /\ UNCHANGED <<tables, timer, main, answer, walletVars, peerVars, nodeVars, history>>

Broadcast(t) ==
  /\ t \in accepted \cap Posted /\ network' = network \cup {t}
  /\ UNCHANGED <<tables, threads, walletVars, peerVars, at, inChain, history>>

\* An error, or the other side closes...
LosePeer(p) ==
  /\ Connected(p) /\ status' = [status EXCEPT ![p] = "closing"]
  /\ UNCHANGED <<tables, threads, walletVars, attached, nodeVars, history>>

\* Mutant of Close: a second time.
CloseAgain(p) ==
  /\ status[p] # "connected"
  /\ status' = [status EXCEPT ![p] = "gone"]
  /\ queue' = Append(queue, Disconnected(p))
  /\ UNCHANGED <<tables, timer, main, answer, walletVars, attached, nodeVars, history>>

\* and the last thing the run loop does is to tell q.
Close(p) ==
  /\ status[p] = "closing" /\ status' = [status EXCEPT ![p] = "gone"]
  /\ queue' = Append(queue, Disconnected(p))
  /\ UNCHANGED <<tables, timer, main, answer, walletVars, attached, nodeVars, history>>

Connect(p) ==
  /\ status[p] = "gone" /\ p \notin attached
  /\ status' = [status EXCEPT ![p] = "connected"] /\ attached' = attached \cup {p}
  /\ at' = [at EXCEPT ![p] = [t \in Tx |-> "unknown"]]
  /\ UNCHANGED <<tables, threads, walletVars, network, inChain, history>>

----------------------------------------------------------------------------
Init ==
  /\ publishedTx = {} /\ publishedCallback = {}
  /\ txRelays = <<>> /\ txRejections = [t \in Tx |-> {}]
  /\ timer = {} /\ main = <<>> /\ queue = <<>> /\ answer = None
  /\ wallet = {} /\ confirmed = {} /\ seedChanged = FALSE
  /\ status = [p \in Peer |-> "connected"] /\ attached = Peer
  /\ at = [p \in Peer |-> [t \in Tx |-> "unknown"]] /\ network = {} /\ inChain = {}
  /\ accepted = {} /\ registered = {} /\ given = {} /\ reported = [t \in Tx |-> <<>>]

Next ==
  \/ \E t \in Tx : PublishTransaction(t) \/ TxTimeout(t) \/ Broadcast(t)
  \/ Start \/ Success \/ NewWallet \/ SeedObserver
  \/ RequestedTransaction \/ Register \/ Callback \/ SendTx
  \/ RelayedTransaction \/ RejectedTransaction \/ SetBlockHeight \/ DisconnectedWithError
  \/ RemoveUnrelayedTransactions
  \/ \E p \in Peer, t \in Tx : AskFor(p, t) \/ Relay(p, t) \/ Reject(p, t) \/ RelayBlock(p, t)
  \/ \E p \in Peer : LosePeer(p) \/ Close(p) \/ Connect(p)

Spec == Init /\ [][Next]_vars

\* Both queues are drained and the timers fire.  No peer has to do anything.
Fairness ==
  /\ WF_vars(Start \/ Success \/ SeedObserver)
  /\ WF_vars(\/ RequestedTransaction \/ Register \/ Callback \/ SendTx
             \/ RelayedTransaction \/ RejectedTransaction \/ SetBlockHeight \/ DisconnectedWithError)
  /\ \A t \in Tx : WF_vars(TxTimeout(t))

FairSpec == Spec /\ Fairness

----------------------------------------------------------------------------
(***************************************************************************)
(* Properties.                                                             *)
(***************************************************************************)
PeerBlock == [type : {"getdata", "relayed", "rejected", "block"}, peer : Peer, tx : Tx]
             \cup [type : {"disconnected"}, peer : Peer]

MainBlock == [type : {"start"}, tx : Tx, peers : SUBSET Peer]
             \cup [type : {"success"}, tx : Tx, called : BOOLEAN] \cup [type : {"seed"}]

\* The types; a connection that ends is one block for q.
PublicationTypeOK ==
  /\ Len(queue) <= MaxQueue + Cardinality(Peer)
  /\ publishedTx \subseteq Tx /\ publishedCallback \subseteq Tx /\ timer \subseteq Tx
  /\ main \in Seq(MainBlock) /\ queue \in Seq(PeerBlock)
  /\ answer \in {None} \cup [peer : Peer, tx : Tx, called : BOOLEAN, step : {"register", "callback", "send"}]
  /\ DOMAIN txRelays \subseteq Tx /\ txRelays \in [DOMAIN txRelays -> SUBSET Peer]
  /\ txRejections \in [Tx -> SUBSET Peer]
  /\ wallet \subseteq Tx /\ confirmed \subseteq Tx /\ seedChanged \in BOOLEAN
  /\ status \in [Peer -> {"connected", "closing", "gone"}] /\ attached \subseteq Peer
  /\ at \in [Peer -> [Tx -> {"unknown", "offered", "asked", "notfound", "given", "relayed", "rejected"}]]
  /\ network \subseteq Tx /\ inChain \subseteq Tx
  /\ accepted \subseteq Tx /\ registered \subseteq Tx /\ given \subseteq Tx
  /\ reported \in [Tx -> Seq({"success", "error"})]

\* A completion that was not called has a timer, or will when the main thread gets to it:
\* nothing that cancels the timer leaves the completion waiting.
CompletionHasTimer ==
  \A t \in publishedCallback :
    t \in timer \/ \E i \in DOMAIN main : main[i].type = "start" /\ main[i].tx = t

\* Only peers that are there count as having relayed or rejected a transaction, though
\* what they did may wait for q when they go: how often it was relayed is shown to the
\* user, and two rejections make an alert.
OnlyPeersThatAreThere ==
  \A t \in Tx : Relays(t) \cup txRejections[t] \subseteq attached

\* A transaction is not taken out of the wallet while a peer that was given it is there
\* and has not rejected it.
KeptWhileHeld ==
  [][\A t \in wallet \ wallet' :
       seedChanged' \/ \A p \in Peer : Connected(p) => at[p][t] # "given"]_vars

\* The promise of publishTransaction:completion:, whatever the timer, the getdata of
\* several peers, blocks and a new wallet do to the same entries...
Promised == INSTANCE Promise WITH
  settled <- IF seedChanged THEN accepted ELSE inChain

PromiseKept == Promised!Safety

\* ... and that an answer comes.
PromiseAnswered == Promised!Answers

\* "transaction canceled, network timeout": BRPeerManager.m, txTimeout.  A transaction
\* that was canceled is not sent.
CanceledIsNotSent == \A t \in given : "error" \notin {reported[t][i] : i \in DOMAIN reported[t]}
=============================================================================

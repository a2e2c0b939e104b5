-------------------------- MODULE Publication_proofs --------------------------
(***************************************************************************)
(* Proofs about Publication: a completion that waits has a timer, and      *)
(* every step of the tables, threads and peers is one that Promise allows  *)
(* or changes nothing that it speaks of.                                   *)
(*                                                                         *)
(* The argument follows a completion: it is in the table, or the getdata   *)
(* being answered has it, or one block of the main thread does, and never  *)
(* two of the last three; and only q puts the transaction, registered by   *)
(* then, on the way from one to the next.                                  *)
(***************************************************************************)
EXTENDS Publication, SharedFacts, FiniteSetTheorems

Answered == [peer : Peer, tx : Tx, called : BOOLEAN, step : {"register", "callback", "send"}]

\* The types of what the argument looks at.
Types ==
  /\ publishedCallback \subseteq Tx /\ accepted \subseteq Tx /\ seedChanged \in BOOLEAN
  /\ attached \subseteq Peer
  /\ main \in Seq(MainBlock) /\ queue \in Seq(PeerBlock)
  /\ answer \in {None} \cup Answered
  /\ reported \in [Tx -> Seq({"success", "error"})]

\* Nothing but published transactions is published, asked for, relayed or in a block.
OnlyAccepted ==
  /\ publishedTx \subseteq accepted /\ publishedCallback \subseteq accepted
  /\ network \subseteq accepted /\ inChain \subseteq accepted
  /\ answer # None => answer.tx \in accepted
  /\ \A i \in DOMAIN queue : queue[i].type \in {"relayed", "block"} => queue[i].tx \in accepted

\* The i-th block of the main thread is the success of t, and calls the completion.
SuccessOf(i, t) == main[i].type = "success" /\ main[i].tx = t
CallOf(i, t) == SuccessOf(i, t) /\ main[i].called

Open(t) == reported[t] \in {<<>>, <<"error">>}

\* The completion is in the table, or the transaction is not published yet: it was not
\* called, and no block that cancels the timer is on its way.
Untouched ==
  \A t \in Tx : t \in publishedCallback \/ t \notin accepted =>
    reported[t] = <<>> /\ \A i \in DOMAIN main : ~SuccessOf(i, t)

\* One block of the main thread at most calls it.
CalledOnce ==
  \A t \in Tx : \A i, j \in DOMAIN main : CallOf(i, t) /\ CallOf(j, t) => i = j

CalledOpen == \A t \in Tx : \A i \in DOMAIN main : CallOf(i, t) => Open(t)

\* The getdata being answered is about to have it called: no block does.
AnswerOpen ==
  answer # None /\ answer.step # "send" /\ answer.called =>
    Open(answer.tx) /\ \A i \in DOMAIN main : ~CallOf(i, answer.tx)

Settled == IF seedChanged THEN accepted ELSE inChain

\* What is reported and sent is registered, or nobody waits for it.
Backed ==
  /\ answer # None /\ answer.step # "register" => answer.tx \in registered \cup Settled
  /\ \A t \in Tx : \A i \in DOMAIN main : SuccessOf(i, t) => t \in registered \cup Settled

IInv ==
  /\ Types /\ OnlyAccepted /\ CompletionHasTimer /\ Untouched
  /\ CalledOnce /\ CalledOpen /\ AnswerOpen /\ Backed

----------------------------------------------------------------------------
(***************************************************************************)
(* What the steps have in common.                                          *)
(***************************************************************************)
\* The answers to a completion, one at a time.
LEMMA AnswerFacts ==
  ASSUME NEW s \in Seq({"success", "error"}), NEW x \in {"success", "error"}
  PROVE  Append(s, x) \in Seq({"success", "error"}) /\ (s = <<>> => Append(s, x) = <<x>>)
<1>1. Append(s, x) \in Seq({"success", "error"}) /\ Append(s, x) = s \o <<x>>
  BY AppendProperties, AppendIsConcat, Zenon
<1>2. <<>> \o <<x>> = <<x>>
  BY ConcatEmptySeq, <<x>> \in Seq({"success", "error"})
<1>3. QED
  BY <1>1, <1>2, Zenon


----------------------------------------------------------------------------
(***************************************************************************)
(* The queue of q, and the actions that leave the main thread alone.       *)
(***************************************************************************)
OfAccepted(b) == b.type \in {"relayed", "block"} => b.tx \in accepted

\* q takes a block: it is of an accepted transaction, as are those left.
LEMMA TakenFacts ==
  ASSUME IInv, NEW type, Taken(type)
  PROVE  /\ queue # <<>> /\ Head(queue) \in PeerBlock /\ Head(queue).type = type
         /\ OfAccepted(Head(queue)) /\ queue' \in Seq(PeerBlock)
         /\ \A i \in DOMAIN queue' : OfAccepted(queue'[i])
<1>1. queue \in Seq(PeerBlock) /\ queue # <<>> /\ queue' = Tail(queue) /\ Head(queue).type = type
  BY DEF IInv, Types, Taken
<1>2. \A i \in DOMAIN queue : OfAccepted(queue[i])
  BY DEF IInv, OnlyAccepted, OfAccepted
<1>3. QED
  BY <1>1, <1>2, TailFacts, Zenon

\* A run loop gives q a block.
LEMMA QueuedFacts ==
  ASSUME IInv, NEW b \in PeerBlock, OfAccepted(b), queue' = Append(queue, b)
  PROVE  queue' \in Seq(PeerBlock) /\ \A i \in DOMAIN queue' : OfAccepted(queue'[i])
<1>1. queue \in Seq(PeerBlock) /\ \A i \in DOMAIN queue : OfAccepted(queue[i])
  BY DEF IInv, Types, OnlyAccepted, OfAccepted
<1>2. /\ Append(queue, b) \in Seq(PeerBlock)
      /\ \A i \in DOMAIN queue : Append(queue, b)[i] = queue[i]
      /\ \A i \in DOMAIN Append(queue, b) : i = Len(queue) + 1 \/ i \in DOMAIN queue
      /\ Append(queue, b)[Len(queue) + 1] = b
  BY <1>1, AppendFacts
<1>3. QED
  BY <1>1, <1>2, Zenon

\* Whatever else happens, the argument goes on if the main thread, the timers, the
\* answer and what was reported stay, and no more than that is registered or settled.
LEMMA Elsewhere ==
  ASSUME IInv, UNCHANGED <<main, timer, answer, reported, accepted, seedChanged>>,
         publishedCallback' \subseteq publishedCallback, attached' \subseteq Peer,
         registered \subseteq registered', inChain \subseteq inChain',
         publishedTx' \subseteq accepted, network' \subseteq accepted, inChain' \subseteq accepted,
         queue' \in Seq(PeerBlock), \A i \in DOMAIN queue' : OfAccepted(queue'[i])
  PROVE  IInv'
<1>1. Types'
  BY DEF IInv, Types
<1>2. OnlyAccepted'
  BY DEF IInv, OnlyAccepted, OfAccepted
<1>3. CompletionHasTimer'
  BY DEF IInv, CompletionHasTimer
<1>4. Untouched' /\ CalledOnce' /\ CalledOpen'
  BY DEF IInv, Untouched, CalledOnce, CalledOpen, CallOf, SuccessOf, Open
<1>5. AnswerOpen'
  BY DEF IInv, AnswerOpen, CallOf, SuccessOf, Open
<1>6. Backed'
  BY DEF IInv, Backed, Settled, SuccessOf
<1>7. QED
  BY <1>1, <1>2, <1>3, <1>4, <1>5, <1>6 DEF IInv

\* The actions of the peers and of q that are such.
LEMMA PeersKeep ==
  ASSUME IInv,
         \/ \E t \in Tx : Broadcast(t)
         \/ \E p \in Peer, t \in Tx : AskFor(p, t) \/ Relay(p, t) \/ Reject(p, t) \/ RelayBlock(p, t)
         \/ \E p \in Peer : LosePeer(p) \/ Close(p) \/ Connect(p)
  PROVE  IInv'
<1>1. \A i \in DOMAIN queue : OfAccepted(queue[i])
  BY DEF IInv, OnlyAccepted, OfAccepted
<1>2. /\ queue \in Seq(PeerBlock) /\ publishedTx \subseteq accepted /\ attached \subseteq Peer
      /\ network \subseteq accepted /\ inChain \subseteq accepted
  BY DEF IInv, Types, OnlyAccepted
<1>3. ASSUME NEW t \in Tx, Broadcast(t) PROVE IInv'
  <2>1. t \in accepted /\ network' = network \cup {t} /\ UNCHANGED <<tables, threads, inChain, history, seedChanged, attached>>
    BY <1>3 DEF Broadcast, walletVars, peerVars
  <2>2. QED
    BY <2>1, <1>1, <1>2, Elsewhere DEF tables, threads, history, OfAccepted
<1>4. ASSUME NEW p \in Peer, NEW t \in Tx, AskFor(p, t) \/ Reject(p, t) PROVE IInv'
  <2>1. \E b \in PeerBlock : OfAccepted(b) /\ queue' = Append(queue, b)
    BY <1>4 DEF AskFor, Reject, Queued, Getdata, Rejected, PeerBlock, OfAccepted
  <2>2. queue' \in Seq(PeerBlock) /\ \A i \in DOMAIN queue' : OfAccepted(queue'[i])
    BY <2>1, QueuedFacts
  <2>3. QED
    BY <2>2, <1>2, <1>4, Elsewhere DEF AskFor, Reject, tables, history, walletVars, peerVars
<1>5. ASSUME NEW p \in Peer, NEW t \in Tx, Relay(p, t) \/ RelayBlock(p, t) PROVE IInv'
  <2>1. \E b \in PeerBlock : OfAccepted(b) /\ queue' = Append(queue, b)
    BY <1>2, <1>5 DEF Relay, RelayBlock, Queued, Relayed, Block, PeerBlock, OfAccepted
  <2>2. queue' \in Seq(PeerBlock) /\ \A i \in DOMAIN queue' : OfAccepted(queue'[i])
    BY <2>1, QueuedFacts
  <2>3. QED
    BY <2>2, <1>2, <1>5, Elsewhere DEF Relay, RelayBlock, tables, history, walletVars, peerVars, nodeVars
<1>6. ASSUME NEW p \in Peer, Close(p) PROVE IInv'
  <2>1. \E b \in PeerBlock : OfAccepted(b) /\ queue' = Append(queue, b)
    BY <1>6 DEF Close, Disconnected, PeerBlock, OfAccepted
  <2>2. queue' \in Seq(PeerBlock) /\ \A i \in DOMAIN queue' : OfAccepted(queue'[i])
    BY <2>1, QueuedFacts
  <2>3. QED
    BY <2>2, <1>2, <1>6, Elsewhere DEF Close, tables, history, walletVars, nodeVars
<1>7. ASSUME NEW p \in Peer, LosePeer(p) \/ Connect(p) PROVE IInv'
  BY <1>1, <1>2, <1>7, Elsewhere DEF LosePeer, Connect, tables, threads, history, walletVars, nodeVars, OfAccepted
<1>8. QED
  BY <1>3, <1>4, <1>5, <1>6, <1>7

LEMMA QueueKeeps ==
  ASSUME IInv, \/ RelayedTransaction \/ RejectedTransaction \/ SetBlockHeight \/ DisconnectedWithError
               \/ RemoveUnrelayedTransactions
  PROVE  IInv'
<1>1. \A i \in DOMAIN queue : OfAccepted(queue[i])
  BY DEF IInv, OnlyAccepted, OfAccepted
<1>2. /\ queue \in Seq(PeerBlock) /\ publishedTx \subseteq accepted /\ attached \subseteq Peer
      /\ network \subseteq accepted /\ inChain \subseteq accepted
  BY DEF IInv, Types, OnlyAccepted
<1>3. CASE RelayedTransaction
  <2>1. /\ Head(queue).tx \in accepted
        /\ queue' \in Seq(PeerBlock) /\ \A i \in DOMAIN queue' : OfAccepted(queue'[i])
    BY <1>3, TakenFacts DEF RelayedTransaction, OfAccepted
  <2>2. /\ publishedTx' \subseteq publishedTx \cup {Head(queue).tx} /\ registered \subseteq registered'
        /\ UNCHANGED <<main, timer, answer, reported, accepted, seedChanged, publishedCallback, attached,
                       network, inChain>>
    BY <1>3 DEF RelayedTransaction, peerVars, nodeVars
  <2>3. QED
    BY <2>1, <2>2, <1>2, Elsewhere
<1>4. CASE RejectedTransaction
  <2>1. queue' \in Seq(PeerBlock) /\ \A i \in DOMAIN queue' : OfAccepted(queue'[i])
    BY <1>4, TakenFacts DEF RejectedTransaction
  <2>2. QED
    BY <2>1, <1>2, <1>4, Elsewhere DEF RejectedTransaction, walletVars, peerVars, nodeVars, history
<1>5. CASE SetBlockHeight
  <2>1. /\ Head(queue).tx \in accepted
        /\ queue' \in Seq(PeerBlock) /\ \A i \in DOMAIN queue' : OfAccepted(queue'[i])
    BY <1>5, TakenFacts DEF SetBlockHeight, OfAccepted
  <2>2. /\ publishedTx' \subseteq publishedTx /\ publishedCallback' \subseteq publishedCallback
        /\ inChain \subseteq inChain' /\ inChain' \subseteq inChain \cup {Head(queue).tx}
        /\ UNCHANGED <<main, timer, answer, reported, accepted, registered, seedChanged, attached,
                       network>>
    BY <1>5 DEF SetBlockHeight, tables, peerVars, history
  <2>3. QED
    BY <2>1, <2>2, <1>2, Elsewhere
<1>6. CASE DisconnectedWithError
  <2>1. queue' \in Seq(PeerBlock) /\ \A i \in DOMAIN queue' : OfAccepted(queue'[i])
    BY <1>6, TakenFacts DEF DisconnectedWithError
  <2>2. QED
    BY <2>1, <1>2, <1>6, Elsewhere DEF DisconnectedWithError, walletVars, nodeVars, history
<1>7. CASE RemoveUnrelayedTransactions
  BY <1>1, <1>2, <1>7, Elsewhere DEF RemoveUnrelayedTransactions, tables, threads, peerVars, nodeVars, history, OfAccepted
<1>8. QED
  BY <1>3, <1>4, <1>5, <1>6, <1>7

----------------------------------------------------------------------------
(***************************************************************************)
(* The main thread.                                                        *)
(***************************************************************************)
\* What the main thread has left to do when it has taken a block.
LEMMA MainTaken ==
  ASSUME IInv, main # <<>>, main' = Tail(main)
  PROVE  /\ main' \in Seq(MainBlock) /\ Head(main) \in MainBlock
         /\ 1 \in DOMAIN main /\ Head(main) = main[1]
         /\ \A i \in DOMAIN main' : i + 1 \in DOMAIN main /\ i + 1 # 1 /\ main'[i] = main[i + 1]
         /\ \A i \in DOMAIN main : i # 1 => i - 1 \in DOMAIN main' /\ main'[i - 1] = main[i]
         /\ DOMAIN main' \subseteq Nat
<1>1. main \in Seq(MainBlock)
  BY DEF IInv, Types
<1>2. QED
  BY <1>1

\* When it is given one.
LEMMA MainGiven ==
  ASSUME IInv, NEW b \in MainBlock, main' = Append(main, b)
  PROVE  /\ main' \in Seq(MainBlock)
         /\ \A i \in DOMAIN main : i \in DOMAIN main' /\ main'[i] = main[i]
         /\ \A i \in DOMAIN main' : (i \in DOMAIN main /\ main'[i] = main[i]) \/ (i = Len(main) + 1 /\ main'[i] = b)
         /\ Len(main) + 1 \in DOMAIN main' /\ main'[Len(main) + 1] = b
<1>1. main \in Seq(MainBlock)
  BY DEF IInv, Types
<1>2. QED
  BY <1>1

LEMMA PublishKeeps ==
  ASSUME IInv, NEW t \in Tx, PublishTransaction(t)
  PROVE  IInv'
<1>1. PICK peers \in SUBSET Peer : main' = Append(main, StartBlock(t, peers))
  BY DEF PublishTransaction, IInv, Types
<1>2. /\ t \notin accepted /\ ~seedChanged /\ accepted' = accepted \cup {t}
      /\ publishedTx' = publishedTx \cup {t} /\ publishedCallback' = publishedCallback \cup {t}
      /\ UNCHANGED <<timer, queue, answer, seedChanged, attached, network, inChain, registered, reported>>
  BY DEF PublishTransaction, walletVars, peerVars, nodeVars
<1>3. StartBlock(t, peers) \in MainBlock /\ StartBlock(t, peers).type = "start" /\ StartBlock(t, peers).tx = t
  BY DEF StartBlock, MainBlock
<1>4. /\ main' \in Seq(MainBlock)
      /\ \A i \in DOMAIN main : i \in DOMAIN main' /\ main'[i] = main[i]
      /\ \A i \in DOMAIN main' : (i \in DOMAIN main /\ main'[i] = main[i]) \/ main'[i].type = "start"
      /\ \E i \in DOMAIN main' : main'[i].type = "start" /\ main'[i].tx = t
  BY <1>1, <1>3, MainGiven
<1>5. Types'
  BY <1>2, <1>4 DEF IInv, Types
<1>6. OnlyAccepted'
  BY <1>2 DEF IInv, OnlyAccepted
<1>7. CompletionHasTimer'
  BY <1>2, <1>4 DEF IInv, CompletionHasTimer
<1>8. Untouched'
  BY <1>2, <1>4 DEF IInv, Untouched, SuccessOf
<1>9. CalledOnce' /\ CalledOpen'
  BY <1>2, <1>4 DEF IInv, CalledOnce, CalledOpen, CallOf, SuccessOf, Open
<1>10. AnswerOpen'
  BY <1>2, <1>4 DEF IInv, AnswerOpen, CallOf, SuccessOf, Open
<1>11. Backed'
  BY <1>2, <1>4 DEF IInv, Backed, Settled, SuccessOf
<1>12. QED
  BY <1>5, <1>6, <1>7, <1>8, <1>9, <1>10, <1>11 DEF IInv

LEMMA StartKeeps ==
  ASSUME IInv, Start
  PROVE  IInv'
<1>1. /\ main # <<>> /\ Head(main).type = "start" /\ main' = Tail(main)
      /\ timer' = timer \cup {Head(main).tx}
      /\ UNCHANGED <<publishedTx, publishedCallback, queue, answer, seedChanged, attached, network,
                     inChain, accepted, registered, reported>>
  BY DEF Start, tables, walletVars, peerVars, history
<1>2. /\ main' \in Seq(MainBlock)
      /\ \A i \in DOMAIN main' : i + 1 \in DOMAIN main /\ main'[i] = main[i + 1]
      /\ \A i \in DOMAIN main : main[i] = Head(main) \/ (i - 1 \in DOMAIN main' /\ main'[i - 1] = main[i])
      /\ DOMAIN main' \subseteq Nat
  BY <1>1, MainTaken
<1>3. Types'
  BY <1>1, <1>2 DEF IInv, Types
<1>4. OnlyAccepted'
  BY <1>1 DEF IInv, OnlyAccepted
<1>5. CompletionHasTimer'
  BY <1>1, <1>2 DEF IInv, CompletionHasTimer
<1>6. Untouched'
  BY <1>1, <1>2 DEF IInv, Untouched, SuccessOf
<1>7. CalledOnce' /\ CalledOpen'
  BY <1>1, <1>2 DEF IInv, CalledOnce, CalledOpen, CallOf, SuccessOf, Open
<1>8. AnswerOpen'
  BY <1>1, <1>2 DEF IInv, AnswerOpen, CallOf, SuccessOf, Open
<1>9. Backed'
  BY <1>1, <1>2 DEF IInv, Backed, Settled, SuccessOf
<1>10. QED
  BY <1>3, <1>4, <1>5, <1>6, <1>7, <1>8, <1>9 DEF IInv

LEMMA SuccessKeeps ==
  ASSUME IInv, Success
  PROVE  IInv'
<1>. PICK t : t = Head(main).tx
  OBVIOUS
<1>1. /\ main # <<>> /\ Head(main).type = "success" /\ main' = Tail(main)
      /\ timer' = timer \ {t}
      /\ reported' = IF Head(main).called THEN [reported EXCEPT ![t] = Append(@, "success")] ELSE reported
      /\ UNCHANGED <<publishedTx, publishedCallback, queue, answer, seedChanged, attached, network,
                     inChain, accepted, registered>>
  BY DEF Success, tables, walletVars, peerVars, nodeVars
<1>2. /\ main' \in Seq(MainBlock) /\ Head(main) \in MainBlock
      /\ 1 \in DOMAIN main /\ Head(main) = main[1]
      /\ \A i \in DOMAIN main' : i + 1 \in DOMAIN main /\ i + 1 # 1 /\ main'[i] = main[i + 1]
      /\ \A i \in DOMAIN main : i # 1 => i - 1 \in DOMAIN main' /\ main'[i - 1] = main[i]
      /\ DOMAIN main' \subseteq Nat
  BY <1>1, MainTaken
<1>3. t \in Tx /\ SuccessOf(1, t) /\ (Head(main).called => CallOf(1, t))
  BY <1>1, <1>2 DEF MainBlock, SuccessOf, CallOf
<1>4. t \notin publishedCallback /\ t \in accepted
  BY <1>2, <1>3 DEF IInv, Untouched
<1>5. reported' \in [Tx -> Seq({"success", "error"})] /\ \A u \in Tx : u # t => reported'[u] = reported[u]
  BY <1>1, <1>3, AnswerFacts DEF IInv, Types
<1>6. Head(main).called => /\ \A i \in DOMAIN main' : ~CallOf(i, t)'
                           /\ answer # None /\ answer.step # "send" /\ answer.called => answer.tx # t
  BY <1>1, <1>2, <1>3 DEF IInv, CalledOnce, AnswerOpen, CallOf, SuccessOf
<1>7. Types'
  BY <1>1, <1>2, <1>5 DEF IInv, Types
<1>8. OnlyAccepted'
  BY <1>1 DEF IInv, OnlyAccepted
<1>9. CompletionHasTimer'
  <2>1. SUFFICES ASSUME NEW u \in publishedCallback
                 PROVE  u \in timer' \/ \E i \in DOMAIN main' : main'[i].type = "start" /\ main'[i].tx = u
    BY <1>1 DEF CompletionHasTimer
  <2>2. u \in timer \/ \E i \in DOMAIN main : main[i].type = "start" /\ main[i].tx = u
    BY DEF IInv, CompletionHasTimer
  <2>3. u # t
    BY <1>4
  <2>4. QED
    BY <1>1, <1>2, <2>2, <2>3
<1>10. Untouched'
  BY <1>1, <1>2, <1>4, <1>5 DEF IInv, Untouched, SuccessOf
<1>11. CalledOnce'
  BY <1>1, <1>2 DEF IInv, CalledOnce, CallOf, SuccessOf
<1>12. CalledOpen'
  BY <1>1, <1>2, <1>5, <1>6 DEF IInv, CalledOpen, CallOf, SuccessOf, Open
<1>13. AnswerOpen'
  BY <1>1, <1>2, <1>3, <1>5, <1>6 DEF IInv, Types, Answered, AnswerOpen, CallOf, SuccessOf, Open
<1>14. Backed'
  BY <1>1, <1>2 DEF IInv, Backed, Settled, SuccessOf
<1>15. QED
  BY <1>7, <1>8, <1>9, <1>10, <1>11, <1>12, <1>13, <1>14 DEF IInv

LEMMA TimeoutKeeps ==
  ASSUME IInv, NEW t \in Tx, TxTimeout(t)
  PROVE  IInv'
<1>1. /\ timer' = timer \ {t} /\ publishedTx' = publishedTx \ {t} /\ publishedCallback' = publishedCallback \ {t}
      /\ reported' = IF t \in publishedCallback THEN [reported EXCEPT ![t] = Append(@, "error")] ELSE reported
      /\ UNCHANGED <<main, queue, answer, seedChanged, attached, network, inChain, accepted, registered>>
  BY DEF TxTimeout, walletVars, peerVars, nodeVars
<1>2. /\ reported' \in [Tx -> Seq({"success", "error"})] /\ \A u \in Tx : u # t => reported'[u] = reported[u]
      /\ reported'[t] # reported[t] => reported'[t] = <<"error">> /\ t \in accepted
  BY <1>1, AnswerFacts DEF IInv, Types, Untouched, OnlyAccepted
<1>3. Types'
  BY <1>1, <1>2 DEF IInv, Types
<1>4. OnlyAccepted'
  BY <1>1 DEF IInv, OnlyAccepted
<1>5. CompletionHasTimer'
  BY <1>1 DEF IInv, CompletionHasTimer
<1>6. Untouched'
  BY <1>1, <1>2 DEF IInv, Untouched, SuccessOf
<1>7. CalledOnce' /\ CalledOpen'
  BY <1>1, <1>2 DEF IInv, CalledOnce, CalledOpen, CallOf, SuccessOf, Open
<1>8. AnswerOpen'
  BY <1>1, <1>2 DEF IInv, Types, Answered, AnswerOpen, CallOf, SuccessOf, Open
<1>9. Backed'
  BY <1>1 DEF IInv, Backed, Settled, SuccessOf
<1>10. QED
  BY <1>3, <1>4, <1>5, <1>6, <1>7, <1>8, <1>9 DEF IInv

LEMMA NewWalletKeeps ==
  ASSUME IInv, NewWallet
  PROVE  IInv'
<1>1. /\ ~seedChanged /\ seedChanged' = TRUE /\ main' = Append(main, [type |-> "seed"])
      /\ UNCHANGED <<publishedTx, publishedCallback, timer, queue, answer, attached, network, inChain,
                     accepted, registered, reported>>
  BY DEF NewWallet, tables, peerVars, nodeVars, history
<1>2. [type |-> "seed"] \in MainBlock
  BY DEF MainBlock
<1>3. /\ main' \in Seq(MainBlock)
      /\ \A i \in DOMAIN main : i \in DOMAIN main' /\ main'[i] = main[i]
      /\ \A i \in DOMAIN main' : (i \in DOMAIN main /\ main'[i] = main[i]) \/ main'[i].type = "seed"
  BY <1>1, <1>2, MainGiven
<1>4. Types'
  BY <1>1, <1>3 DEF IInv, Types
<1>5. OnlyAccepted'
  BY <1>1 DEF IInv, OnlyAccepted
<1>6. CompletionHasTimer'
  BY <1>1, <1>3 DEF IInv, CompletionHasTimer
<1>7. Untouched'
  BY <1>1, <1>3 DEF IInv, Untouched, SuccessOf
<1>8. CalledOnce' /\ CalledOpen'
  BY <1>1, <1>3 DEF IInv, CalledOnce, CalledOpen, CallOf, SuccessOf, Open
<1>9. AnswerOpen'
  BY <1>1, <1>3 DEF IInv, AnswerOpen, CallOf, SuccessOf, Open
<1>10. Backed'
  BY <1>1, <1>3 DEF IInv, OnlyAccepted, Backed, Settled, SuccessOf
<1>11. QED
  BY <1>4, <1>5, <1>6, <1>7, <1>8, <1>9, <1>10 DEF IInv

LEMMA SeedObserverKeeps ==
  ASSUME IInv, SeedObserver
  PROVE  IInv'
<1>1. /\ main # <<>> /\ main' = Tail(main) /\ publishedTx' = {} /\ publishedCallback' = {}
      /\ UNCHANGED <<timer, queue, answer, seedChanged, attached, network, inChain, accepted, registered, reported>>
  BY DEF SeedObserver, walletVars, nodeVars, history
<1>2. /\ main' \in Seq(MainBlock) /\ DOMAIN main' \subseteq Nat
      /\ \A i \in DOMAIN main' : i + 1 \in DOMAIN main /\ main'[i] = main[i + 1]
  BY <1>1, MainTaken
<1>3. Types'
  BY <1>1, <1>2 DEF IInv, Types
<1>4. OnlyAccepted' /\ CompletionHasTimer'
  BY <1>1 DEF IInv, OnlyAccepted, CompletionHasTimer
<1>5. Untouched'
  BY <1>1, <1>2 DEF IInv, Untouched, SuccessOf
<1>6. CalledOnce' /\ CalledOpen'
  BY <1>1, <1>2 DEF IInv, CalledOnce, CalledOpen, CallOf, SuccessOf, Open
<1>7. AnswerOpen'
  BY <1>1, <1>2 DEF IInv, AnswerOpen, CallOf, SuccessOf, Open
<1>8. Backed'
  BY <1>1, <1>2 DEF IInv, Backed, Settled, SuccessOf
<1>9. QED
  BY <1>3, <1>4, <1>5, <1>6, <1>7, <1>8 DEF IInv

----------------------------------------------------------------------------
(***************************************************************************)
(* The answer to a getdata, on q.                                          *)
(***************************************************************************)
LEMMA RequestKeeps ==
  ASSUME IInv, RequestedTransaction
  PROVE  IInv'
<1>1. PICK p, t : p = Head(queue).peer /\ t = Head(queue).tx
  OBVIOUS
<1>2. /\ answer = None
      /\ \/ /\ t \in publishedTx
            /\ answer' = [peer |-> p, tx |-> t, called |-> t \in publishedCallback, step |-> "register"]
         \/ answer' = None
      /\ UNCHANGED <<publishedTx, publishedCallback, timer, main, seedChanged, attached, network, inChain,
                     accepted, registered, reported>>
  BY <1>1 DEF RequestedTransaction, Taken, tables, walletVars, peerVars, history
<1>3. /\ Head(queue) \in PeerBlock /\ Head(queue).type = "getdata"
      /\ queue' \in Seq(PeerBlock) /\ \A i \in DOMAIN queue' : OfAccepted(queue'[i])
  BY TakenFacts DEF RequestedTransaction
<1>4. p \in Peer /\ t \in Tx
  BY <1>1, <1>3 DEF PeerBlock
<1>5. CompletionHasTimer'
  BY <1>2 DEF IInv, CompletionHasTimer
<1>6. Untouched' /\ CalledOnce' /\ CalledOpen'
  BY <1>2 DEF IInv, Untouched, CalledOnce, CalledOpen, CallOf, SuccessOf, Open
<1>7. CASE /\ t \in publishedTx
           /\ answer' = [peer |-> p, tx |-> t, called |-> t \in publishedCallback, step |-> "register"]
  <2>1. PICK c \in BOOLEAN : c = (t \in publishedCallback)
    BY (t \in publishedCallback) \in BOOLEAN, Zenon
  <2>2. answer' = [peer |-> p, tx |-> t, called |-> c, step |-> "register"]
    BY <1>7, <2>1, Zenon
  <2>3. answer' \in Answered /\ answer'.tx = t /\ answer'.called = c /\ answer'.step = "register"
    BY <1>4, <2>2 DEF Answered
  <2>4. Types'
    BY <1>2, <1>3, <2>3 DEF IInv, Types
  <2>5. OnlyAccepted'
    BY <1>2, <1>3, <1>7, <2>3 DEF IInv, OnlyAccepted, OfAccepted
  <2>6. c => t \in publishedCallback
    BY <2>1, Zenon
  <2>7. AnswerOpen'
    BY <1>2, <1>4, <2>3, <2>6 DEF IInv, Untouched, AnswerOpen, CallOf, SuccessOf, Open
  <2>8. Backed'
    BY <1>2, <2>3 DEF IInv, Backed, Settled, SuccessOf
  <2>9. QED
    BY <1>5, <1>6, <2>4, <2>5, <2>7, <2>8 DEF IInv
<1>8. CASE answer' = None
  <2>1. Types'
    BY <1>2, <1>3, <1>8 DEF IInv, Types
  <2>2. OnlyAccepted'
    BY <1>2, <1>3, <1>8 DEF IInv, OnlyAccepted, OfAccepted
  <2>3. AnswerOpen' /\ Backed'
    BY <1>2, <1>8 DEF IInv, AnswerOpen, Backed, Settled, SuccessOf
  <2>4. QED
    BY <1>5, <1>6, <2>1, <2>2, <2>3 DEF IInv
<1>9. QED
  BY <1>2, <1>7, <1>8

LEMMA RegisterKeeps ==
  ASSUME IInv, Register
  PROVE  IInv'
<1>1. /\ answer # None /\ answer' = [answer EXCEPT !.step = "callback"]
      /\ UNCHANGED <<publishedTx, publishedCallback, timer, main, queue, seedChanged, attached, network,
                     inChain, accepted, reported>>
  BY DEF Register, peerVars, nodeVars
<1>2. registered \subseteq registered' /\ (seedChanged \/ answer.tx \in registered')
  BY DEF Register
<1>3. answer \in Answered /\ answer.step = "register"
  BY <1>1 DEF IInv, Types, Register
<1>4. /\ answer' \in Answered /\ answer'.step = "callback"
      /\ answer'.tx = answer.tx /\ answer'.called = answer.called
  BY <1>1, <1>3 DEF Answered
<1>5. Types'
  BY <1>1, <1>4 DEF IInv, Types
<1>6. OnlyAccepted'
  BY <1>1, <1>4 DEF IInv, OnlyAccepted
<1>7. CompletionHasTimer'
  BY <1>1 DEF IInv, CompletionHasTimer
<1>8. Untouched' /\ CalledOnce' /\ CalledOpen'
  BY <1>1 DEF IInv, Untouched, CalledOnce, CalledOpen, CallOf, SuccessOf, Open
<1>9. AnswerOpen'
  BY <1>1, <1>3, <1>4 DEF IInv, AnswerOpen, CallOf, SuccessOf, Open
<1>10. Backed'
  BY <1>1, <1>2, <1>4 DEF IInv, OnlyAccepted, Backed, Settled, SuccessOf
<1>11. QED
  BY <1>5, <1>6, <1>7, <1>8, <1>9, <1>10 DEF IInv

LEMMA CallbackKeeps ==
  ASSUME IInv, Callback
  PROVE  IInv'
<1>1. PICK t, b : t = answer.tx /\ b = SuccessBlock(answer.tx, answer.called)
  OBVIOUS
<1>2. /\ answer # None /\ answer' = [answer EXCEPT !.step = "send"]
      /\ publishedCallback' = publishedCallback \ {t} /\ main' = Append(main, b)
      /\ UNCHANGED <<publishedTx, timer, queue, seedChanged, attached, network, inChain, accepted,
                     registered, reported>>
  BY <1>1 DEF Callback, CallbackTaken, walletVars, peerVars, nodeVars, history
<1>3. answer \in Answered /\ answer.step = "callback"
  BY <1>2 DEF IInv, Types, Callback
<1>4. /\ answer' \in Answered /\ answer'.step = "send" /\ answer'.tx = t /\ t \in Tx
      /\ b \in MainBlock /\ b.type = "success" /\ b.tx = t /\ b.called = answer.called
  BY <1>1, <1>2, <1>3 DEF Answered, SuccessBlock, MainBlock
<1>5. /\ main' \in Seq(MainBlock) /\ \A i \in DOMAIN main : i \in DOMAIN main' /\ main'[i] = main[i]
      /\ \A i \in DOMAIN main' : (i \in DOMAIN main /\ main'[i] = main[i]) \/ (i = Len(main) + 1 /\ main'[i] = b)
  BY <1>2, <1>4, MainGiven
<1>6. t \in accepted /\ t \in registered \cup Settled
  BY <1>1, <1>2, <1>3 DEF IInv, OnlyAccepted, Backed
<1>7. answer.called => Open(t) /\ \A i \in DOMAIN main : ~CallOf(i, t)
  BY <1>1, <1>2, <1>3 DEF IInv, AnswerOpen
<1>8. Types'
  BY <1>2, <1>4, <1>5 DEF IInv, Types
<1>9. OnlyAccepted'
  BY <1>1, <1>2, <1>4 DEF IInv, OnlyAccepted
<1>10. CompletionHasTimer'
  BY <1>2, <1>5 DEF IInv, CompletionHasTimer
<1>11. Untouched'
  BY <1>2, <1>4, <1>5, <1>6 DEF IInv, Untouched, SuccessOf
<1>12. CalledOnce'
  BY <1>4, <1>5, <1>7 DEF IInv, CalledOnce, CallOf, SuccessOf
<1>13. CalledOpen'
  BY <1>2, <1>4, <1>5, <1>7 DEF IInv, CalledOpen, CallOf, SuccessOf, Open
<1>14. AnswerOpen'
  BY <1>4 DEF AnswerOpen
<1>15. Backed'
  BY <1>2, <1>4, <1>5, <1>6 DEF IInv, Backed, Settled, SuccessOf
<1>16. QED
  BY <1>8, <1>9, <1>10, <1>11, <1>12, <1>13, <1>14, <1>15 DEF IInv

LEMMA SendKeeps ==
  ASSUME IInv, SendTx
  PROVE  IInv'
<1>1. /\ answer # None /\ answer' = None /\ network' \subseteq network \cup {answer.tx}
      /\ UNCHANGED <<publishedTx, publishedCallback, timer, main, queue, seedChanged, attached, inChain,
                     accepted, registered, reported>>
  BY DEF SendTx, tables, walletVars, peerVars
<1>2. Types'
  BY <1>1 DEF IInv, Types
<1>3. OnlyAccepted'
  BY <1>1 DEF IInv, OnlyAccepted
<1>4. CompletionHasTimer'
  BY <1>1 DEF IInv, CompletionHasTimer
<1>5. Untouched' /\ CalledOnce' /\ CalledOpen'
  BY <1>1 DEF IInv, Untouched, CalledOnce, CalledOpen, CallOf, SuccessOf, Open
<1>6. AnswerOpen'
  BY <1>1 DEF AnswerOpen
<1>7. Backed'
  BY <1>1 DEF IInv, Backed, Settled, SuccessOf
<1>8. QED
  BY <1>2, <1>3, <1>4, <1>5, <1>6, <1>7 DEF IInv

----------------------------------------------------------------------------
(***************************************************************************)
(* The invariant.                                                          *)
(***************************************************************************)
LEMMA InitInv ==
  ASSUME Init
  PROVE  IInv
<1>1. main = <<>> /\ queue = <<>> /\ DOMAIN main = {} /\ DOMAIN queue = {}
  BY DEF Init
<1>2. main \in Seq(MainBlock) /\ queue \in Seq(PeerBlock) /\ <<>> \in Seq({"success", "error"})
  BY <1>1, EmptySeq
<1>3. Types
  BY <1>2 DEF Init, Types
<1>4. OnlyAccepted /\ CompletionHasTimer
  BY <1>1 DEF Init, OnlyAccepted, CompletionHasTimer
<1>5. Untouched /\ CalledOnce /\ CalledOpen /\ AnswerOpen /\ Backed
  BY <1>1 DEF Init, Untouched, CalledOnce, CalledOpen, AnswerOpen, Backed, CallOf, SuccessOf
<1>6. QED
  BY <1>3, <1>4, <1>5 DEF IInv

LEMMA StepInv ==
  ASSUME IInv, [Next]_vars
  PROVE  IInv'
<1>1. CASE UNCHANGED vars
  <2>1. \A i \in DOMAIN queue : OfAccepted(queue[i])
    BY DEF IInv, OnlyAccepted, OfAccepted
  <2>2. QED
    BY <1>1, <2>1, Elsewhere DEF IInv, Types, OnlyAccepted, OfAccepted, vars, tables, threads, walletVars,
      peerVars, nodeVars, history
<1>2. CASE Next
  BY <1>2, PeersKeep, QueueKeeps, PublishKeeps, StartKeeps, SuccessKeeps, TimeoutKeeps, NewWalletKeeps,
    SeedObserverKeeps, RequestKeeps, RegisterKeeps, CallbackKeeps, SendKeeps, Zenon DEF Next
<1>3. QED
  BY <1>1, <1>2

\* What the argument follows holds in every state, for any transactions, any number of
\* peers, and any number of blocks that wait.
THEOREM CompletionFollowed == Spec => []IInv
<1>1. Init => IInv
  BY InitInv
<1>2. IInv /\ [Next]_vars => IInv'
  BY StepInv
<1>3. QED
  BY <1>1, <1>2, PTL DEF Spec

\* No completion is left waiting without a timer: publishTransaction:, txTimeout: and the
\* block of requestedTransaction: never cancel one while the table has the other.
THEOREM EveryCompletionHasTimer == Spec => []CompletionHasTimer
<1>1. IInv => CompletionHasTimer
  BY DEF IInv
<1>2. QED
  BY <1>1, CompletionFollowed, PTL

----------------------------------------------------------------------------
(***************************************************************************)
(* The refinement: what settles a transaction is its block, or another     *)
(* wallet.  A step that changes nothing the promise speaks of stutters.    *)
(***************************************************************************)
LEMMA InitPromised ==
  ASSUME Init
  PROVE  Promised!Init
BY DEF Init, Promised!Init

LEMMA Stutters ==
  ASSUME UNCHANGED <<accepted, registered, given, reported, seedChanged, inChain>>
  PROVE  UNCHANGED Promised!vars
BY DEF Promised!vars

\* publishTransaction: accepts; a canceled timer fails what it still finds in the table.
LEMMA PublishPromised ==
  ASSUME IInv, NEW t \in Tx, PublishTransaction(t)
  PROVE  Promised!Accept(t)
BY DEF PublishTransaction, walletVars, nodeVars, Promised!Accept

LEMMA TimeoutPromised ==
  ASSUME IInv, NEW t \in Tx, TxTimeout(t)
  PROVE  Promised!Fail(t) \/ UNCHANGED Promised!vars
<1>1. UNCHANGED <<accepted, registered, given, seedChanged, inChain>>
  BY DEF TxTimeout, walletVars, nodeVars
<1>2. CASE t \in publishedCallback
  <2>1. t \in accepted /\ reported[t] = <<>> /\ reported' = [reported EXCEPT ![t] = Append(@, "error")]
    BY <1>2 DEF IInv, OnlyAccepted, Untouched, TxTimeout
  <2>2. Append(reported[t], "error") = <<"error">>
    BY <2>1, AnswerFacts DEF IInv, Types
  <2>3. reported' = [reported EXCEPT ![t] = <<"error">>]
    BY <2>1, <2>2, Zenon
  <2>4. QED
    BY <1>1, <2>1, <2>3 DEF Promised!Fail
<1>3. CASE t \notin publishedCallback
  BY <1>1, <1>3, Stutters DEF TxTimeout
<1>4. QED
  BY <1>2, <1>3

\* The block of the main thread is the only one that calls the completion, and finds
\* that it was not called with success.
LEMMA SuccessPromised ==
  ASSUME IInv, Success
  PROVE  (\E t \in Tx : Promised!Succeed(t)) \/ UNCHANGED Promised!vars
<1>1. UNCHANGED <<accepted, registered, given, seedChanged, inChain>>
  BY DEF Success, walletVars, nodeVars
<1>2. PICK b : b = Head(main)
  OBVIOUS
<1>3. main # <<>> /\ b.type = "success"
  BY <1>2 DEF Success
<1>4. b \in MainBlock /\ b = main[1] /\ 1 \in DOMAIN main
  BY <1>2, <1>3, TailFacts DEF IInv, Types
<1>5. b.tx \in Tx
  BY <1>3, <1>4 DEF MainBlock
<1>6. b.tx \in registered \cup Settled /\ SuccessOf(1, b.tx)
  BY <1>3, <1>4, <1>5 DEF IInv, Backed, SuccessOf
<1>7. b.tx \in accepted
  BY <1>4, <1>5, <1>6 DEF IInv, Untouched
<1>8. CASE b.called
  <2>1. reported[b.tx] \in {<<>>, <<"error">>}
    BY <1>4, <1>5, <1>6, <1>8 DEF IInv, CalledOpen, CallOf, Open
  <2>2. reported' = [reported EXCEPT ![b.tx] = Append(@, "success")]
    BY <1>2, <1>8 DEF Success
  <2>3. Promised!Succeed(b.tx)
    BY <1>1, <1>6, <1>7, <2>1, <2>2 DEF Promised!Succeed, Settled
  <2>4. QED
    BY <1>5, <2>3
<1>9. CASE ~b.called
  BY <1>1, <1>2, <1>9, Stutters DEF Success
<1>10. QED
  BY <1>8, <1>9

\* Another wallet: nobody waits for what was published from the old one.
LEMMA NewWalletPromised ==
  ASSUME IInv, NewWallet
  PROVE  Promised!Settle(accepted)
BY DEF NewWallet, nodeVars, history, IInv, OnlyAccepted, Promised!Settle

\* q registers what it is about to send, and what is relayed.
LEMMA RegisterPromised ==
  ASSUME IInv, Register \/ RelayedTransaction
  PROVE  (\E t \in Tx : Promised!Register(t)) \/ UNCHANGED Promised!vars
<1>1. UNCHANGED <<accepted, given, reported, seedChanged, inChain>>
  BY DEF Register, RelayedTransaction, nodeVars
<1>2. CASE Register
  <2>1. answer \in Answered
    BY <1>2 DEF IInv, Types, Register
  <2>2. answer.tx \in Tx /\ (registered' = registered \/ registered' = registered \cup {answer.tx})
    BY <1>2, <2>1 DEF Register, Answered
  <2>3. QED
    BY <1>1, <2>2, Stutters DEF Promised!Register
<1>3. CASE RelayedTransaction
  <2>1. Head(queue) \in PeerBlock /\ Head(queue).type = "relayed"
    BY <1>3, TakenFacts DEF RelayedTransaction
  <2>2. Head(queue).tx \in Tx
    BY <2>1 DEF PeerBlock
  <2>3. registered' = registered \/ registered' = registered \cup {Head(queue).tx}
    BY <1>3 DEF RelayedTransaction
  <2>4. QED
    BY <1>1, <2>2, <2>3, Stutters DEF Promised!Register
<1>4. QED
  BY <1>2, <1>3

\* It is sent after it was registered.
LEMMA SendPromised ==
  ASSUME IInv, SendTx
  PROVE  (\E t \in Tx : Promised!Give(t)) \/ UNCHANGED Promised!vars
<1>1. UNCHANGED <<accepted, registered, reported, seedChanged, inChain>>
  BY DEF SendTx, walletVars
<1>2. answer \in Answered /\ answer.step = "send" /\ answer # None
  BY DEF IInv, Types, SendTx
<1>3. answer.tx \in Tx /\ answer.tx \in accepted /\ answer.tx \in registered \cup Settled
  BY <1>2 DEF IInv, OnlyAccepted, Backed, Answered
<1>4. given' = given \/ given' = given \cup {answer.tx}
  BY DEF SendTx
<1>5. QED
  BY <1>1, <1>3, <1>4, Stutters DEF Promised!Give, Settled

\* A block settles its transaction.
LEMMA BlockPromised ==
  ASSUME IInv, SetBlockHeight
  PROVE  (\E T \in SUBSET Tx : Promised!Settle(T)) \/ UNCHANGED Promised!vars
<1>1. UNCHANGED <<accepted, registered, given, reported, seedChanged>>
  BY DEF SetBlockHeight, history
<1>2. Head(queue) \in PeerBlock /\ Head(queue).type = "block"
  BY TakenFacts DEF SetBlockHeight
<1>3. {Head(queue).tx} \in SUBSET Tx
  BY <1>2 DEF PeerBlock
<1>4. inChain' = inChain \/ inChain' = inChain \cup {Head(queue).tx}
  BY DEF SetBlockHeight
<1>5. CASE ~seedChanged /\ inChain' = inChain \cup {Head(queue).tx}
  <2>1. Promised!Settle({Head(queue).tx})
    BY <1>1, <1>5 DEF Promised!Settle
  <2>2. QED
    BY <1>3, <2>1
<1>6. CASE seedChanged \/ inChain' = inChain
  BY <1>1, <1>6 DEF Promised!vars
<1>7. QED
  BY <1>4, <1>5, <1>6

LEMMA OthersStutter ==
  ASSUME \/ Start \/ SeedObserver \/ RequestedTransaction \/ Callback \/ RejectedTransaction
         \/ DisconnectedWithError \/ RemoveUnrelayedTransactions
         \/ \E t \in Tx : Broadcast(t)
         \/ \E p \in Peer, t \in Tx : AskFor(p, t) \/ Relay(p, t) \/ Reject(p, t) \/ RelayBlock(p, t)
         \/ \E p \in Peer : LosePeer(p) \/ Close(p) \/ Connect(p)
  PROVE  UNCHANGED Promised!vars
<1>1. UNCHANGED <<accepted, registered, given, reported, seedChanged, inChain>>
  BY DEF Start, SeedObserver, RequestedTransaction, Callback, RejectedTransaction, DisconnectedWithError,
    RemoveUnrelayedTransactions, Broadcast, AskFor, Relay, Reject, RelayBlock, LosePeer, Close, Connect,
    walletVars, nodeVars, history
<1>2. QED
  BY <1>1, Stutters

LEMMA StepPromised ==
  ASSUME IInv, [Next]_vars
  PROVE  [Promised!Next]_Promised!vars
<1>1. CASE UNCHANGED vars
  BY <1>1, Stutters DEF vars, walletVars, nodeVars, history
<1>2. ASSUME NEW t \in Tx, PublishTransaction(t)
      PROVE  Promised!Next
  BY <1>2, PublishPromised DEF Promised!Next
<1>3. ASSUME NEW t \in Tx, TxTimeout(t)
      PROVE  [Promised!Next]_Promised!vars
  BY <1>3, TimeoutPromised DEF Promised!Next
<1>4. CASE Success
  BY <1>4, SuccessPromised DEF Promised!Next
<1>5. CASE NewWallet
  <2>1. accepted \in SUBSET Tx
    BY DEF IInv, Types
  <2>2. QED
    BY <1>5, <2>1, NewWalletPromised DEF Promised!Next
<1>6. CASE Register \/ RelayedTransaction
  BY <1>6, RegisterPromised DEF Promised!Next
<1>7. CASE SendTx
  BY <1>7, SendPromised DEF Promised!Next
<1>8. CASE SetBlockHeight
  BY <1>8, BlockPromised DEF Promised!Next
<1>9. QED
  BY <1>1, <1>2, <1>3, <1>4, <1>5, <1>6, <1>7, <1>8, OthersStutter, Zenon DEF Next

\* What publishTransaction:completion: promises is kept, whatever the main thread, the
\* timers, q, the peers and another wallet do in whatever order: no second success, no
\* error after success, and nothing sent or reported that is not registered.
THEOREM PublicationKeepsPromise == Spec => PromiseKept
<1>1. Init => Promised!Init
  BY InitPromised
<1>2. IInv /\ [Next]_vars => [Promised!Next]_Promised!vars
  BY StepPromised
<1>3. QED
  BY <1>1, <1>2, CompletionFollowed, PTL DEF Spec, PromiseKept, Promised!Safety

----------------------------------------------------------------------------
(***************************************************************************)
(* Who relays and rejects what is published: the tables name only peers    *)
(* that are there, and a transaction stays in the wallet while a peer      *)
(* holds it.                                                               *)
(*                                                                         *)
(* The argument is in layers, each inductive with those before it: the     *)
(* types; what q has yet to hear of a peer; what a peer was asked for, was *)
(* given, and has rejected; what it holds.                                 *)
(***************************************************************************)
NodeState == {"unknown", "offered", "asked", "notfound", "given", "relayed", "rejected"}

TableTypes ==
  /\ publishedTx \subseteq Tx
  /\ DOMAIN txRelays \subseteq Tx /\ \A t \in DOMAIN txRelays : txRelays[t] \in SUBSET Peer
  /\ txRelays = [t \in DOMAIN txRelays |-> txRelays[t]]
  /\ txRejections \in [Tx -> SUBSET Peer]

NodeTypes ==
  /\ status \in [Peer -> {"connected", "closing", "gone"}]
  /\ at \in [Peer -> [Tx -> NodeState]]

HistoryTypes ==
  /\ timer \subseteq Tx /\ wallet \subseteq Tx /\ confirmed \subseteq Tx
  /\ network \subseteq Tx /\ inChain \subseteq Tx /\ registered \subseteq Tx /\ given \subseteq Tx

\* All types but the length of the queue.
AllTypes == Types /\ TableTypes /\ NodeTypes /\ HistoryTypes

----------------------------------------------------------------------------
(***************************************************************************)
(* The types.                                                              *)
(***************************************************************************)
\* The first block that q takes, and the transaction and peer it is of.
LEMMA HeadFacts ==
  ASSUME Types, NEW type, Taken(type)
  PROVE  /\ queue # <<>> /\ queue' = Tail(queue) /\ Head(queue).type = type /\ answer = None
         /\ Head(queue) \in PeerBlock /\ Head(queue).peer \in Peer
         /\ type # "disconnected" => Head(queue).tx \in Tx
<1>1. queue \in Seq(PeerBlock) /\ queue # <<>> /\ queue' = Tail(queue) /\ Head(queue).type = type /\ answer = None
  BY DEF Types, Taken
<1>2. Head(queue) \in PeerBlock
  BY <1>1, TailFacts
<1>3. QED
  BY <1>1, <1>2 DEF PeerBlock

LEMMA MainHeadFacts ==
  ASSUME Types, main # <<>>, Head(main).type \in {"start", "success"}
  PROVE  Head(main).tx \in Tx
<1>1. Head(main) \in MainBlock
  BY TailFacts DEF Types
<1>2. QED
  BY <1>1 DEF MainBlock

LEMMA AnswerTypes ==
  ASSUME Types, answer # None
  PROVE  answer.peer \in Peer /\ answer.tx \in Tx
BY DEF Types, Answered

\* A peer is counted among those that relayed t.
LEMMA RelayedByFacts ==
  ASSUME TableTypes, NEW t \in Tx, NEW p \in Peer, RelayedBy(t, p)
  PROVE  /\ DOMAIN txRelays' = DOMAIN txRelays \cup {t} /\ DOMAIN txRelays' \subseteq Tx
         /\ \A u \in DOMAIN txRelays' : txRelays'[u] \in SUBSET Peer
         /\ txRelays' = [u \in DOMAIN txRelays' |-> txRelays'[u]]
         /\ \A u \in Tx : Relays(u)' = IF u = t THEN Relays(u) \cup {p} ELSE Relays(u)
BY DEF RelayedBy, Relays, TableTypes

\* The steps that the layers treat alike: those that leave the tables alone...
Elsewhere1 ==
  \/ Start \/ Success \/ NewWallet \/ RequestedTransaction \/ Callback \/ SendTx
  \/ RemoveUnrelayedTransactions
  \/ \E t \in Tx : Broadcast(t)

\* ... and are of the peers, with those that give q a block.
Gives(p, t) == AskFor(p, t) \/ Relay(p, t) \/ Reject(p, t) \/ RelayBlock(p, t)

LEMMA TableTypesStep ==
  ASSUME Types, TableTypes, Next
  PROVE  TableTypes'
<1>1. CASE UNCHANGED <<publishedTx, txRelays, txRejections>>
  BY <1>1 DEF TableTypes
<1>2. CASE Elsewhere1
  <2>1. UNCHANGED <<publishedTx, txRelays, txRejections>>
    BY <1>2 DEF Elsewhere1, Start, Success, NewWallet, RequestedTransaction, Callback, SendTx,
       RemoveUnrelayedTransactions, Broadcast, tables
  <2>2. QED
    BY <1>1, <2>1
<1>3. CASE \E p \in Peer : LosePeer(p) \/ Close(p) \/ Connect(p) \/ \E t \in Tx : Gives(p, t)
  <2>1. UNCHANGED <<publishedTx, txRelays, txRejections>>
    BY <1>3 DEF Gives, LosePeer, Close, Connect, AskFor, Relay, Reject, RelayBlock, tables
  <2>2. QED
    BY <1>1, <2>1
<1>4. CASE \E t \in Tx : PublishTransaction(t) \/ TxTimeout(t)
  BY <1>4 DEF PublishTransaction, TxTimeout, TableTypes
<1>5. CASE SeedObserver
  BY <1>5 DEF SeedObserver, TableTypes
<1>6. CASE Register
  <2>1. answer.peer \in Peer /\ answer.tx \in Tx
    BY <1>6, AnswerTypes DEF Register
  <2>2. RelayedBy(answer.tx, answer.peer) /\ UNCHANGED <<publishedTx, txRejections>>
    BY <1>6 DEF Register
  <2>3. QED
    BY <2>1, <2>2, RelayedByFacts DEF TableTypes
<1>7. CASE RelayedTransaction
  <2>1. Head(queue).peer \in Peer /\ Head(queue).tx \in Tx
    BY <1>7, HeadFacts DEF RelayedTransaction
  <2>2. CASE UNCHANGED <<publishedTx, txRelays>>
    BY <1>1, <1>7, <2>2 DEF RelayedTransaction
  <2>3. CASE RelayedBy(Head(queue).tx, Head(queue).peer) /\ publishedTx' = publishedTx \cup {Head(queue).tx}
    BY <1>7, <2>1, <2>3, RelayedByFacts DEF RelayedTransaction, TableTypes
  <2>4. QED
    BY <1>7, <2>2, <2>3 DEF RelayedTransaction
<1>8. CASE RejectedTransaction
  <2>1. Head(queue).peer \in Peer /\ Head(queue).tx \in Tx
    BY <1>8, HeadFacts DEF RejectedTransaction
  <2>2. CASE UNCHANGED <<txRelays, txRejections>>
    BY <1>1, <1>8, <2>2 DEF RejectedTransaction
  <2>3. CASE Connected(Head(queue).peer)
    BY <1>8, <2>1, <2>3 DEF RejectedTransaction, TableTypes
  <2>4. QED
    BY <1>8, <2>2, <2>3 DEF RejectedTransaction
<1>9. CASE SetBlockHeight
  <2>1. CASE UNCHANGED tables
    BY <1>1, <2>1 DEF tables
  <2>2. CASE Connected(Head(queue).peer)
    BY <1>9, <2>2 DEF SetBlockHeight, TableTypes
  <2>3. QED
    BY <1>9, <2>1, <2>2 DEF SetBlockHeight
<1>10. CASE DisconnectedWithError
  BY <1>10 DEF DisconnectedWithError, RejectionsWithout, TableTypes
<1>11. QED
  BY <1>2, <1>3, <1>4, <1>5, <1>6, <1>7, <1>8, <1>9, <1>10 DEF Next, Elsewhere1, Gives

LEMMA NodeTypesStep ==
  ASSUME Types, NodeTypes, Next
  PROVE  NodeTypes'
<1>1. CASE UNCHANGED <<status, at>>
  BY <1>1 DEF NodeTypes
<1>2. CASE \/ Success \/ NewWallet \/ Callback \/ Register \/ RelayedTransaction
           \/ RejectedTransaction \/ SetBlockHeight \/ DisconnectedWithError \/ RemoveUnrelayedTransactions
           \/ \E t \in Tx : Broadcast(t) \/ PublishTransaction(t) \/ TxTimeout(t)
           \/ \E p \in Peer, t \in Tx : RelayBlock(p, t)
  <2>1. UNCHANGED <<status, at>>
    BY <1>2 DEF Success, NewWallet, Callback, Register, RelayedTransaction, RejectedTransaction,
       SetBlockHeight, DisconnectedWithError, RemoveUnrelayedTransactions, Broadcast, PublishTransaction,
       TxTimeout, RelayBlock, peerVars, nodeVars
  <2>2. QED
    BY <1>1, <2>1
<1>3. CASE Start
  BY <1>3 DEF Start, NodeTypes, NodeState, peerVars
<1>4. CASE SeedObserver
  BY <1>4 DEF SeedObserver, NodeTypes, nodeVars
<1>5. CASE RequestedTransaction
  <2>1. UNCHANGED <<status, at>> \/ (status' = status /\ at' = [at EXCEPT ![Head(queue).peer][Head(queue).tx] = "notfound"])
    BY <1>5 DEF RequestedTransaction, peerVars
  <2>2. QED
    BY <2>1, <1>1 DEF NodeTypes, NodeState
<1>6. CASE SendTx
  <2>1. UNCHANGED <<status, at>> \/ (status' = status /\ at' = [at EXCEPT ![answer.peer][answer.tx] = "given"])
    BY <1>6 DEF SendTx, peerVars
  <2>2. QED
    BY <2>1, <1>1 DEF NodeTypes, NodeState
<1>7. ASSUME NEW p \in Peer, NEW t \in Tx, AskFor(p, t) \/ Relay(p, t) \/ Reject(p, t)
      PROVE  NodeTypes'
  <2>1. status' = status /\ \E s \in NodeState : at' = [at EXCEPT ![p][t] = s]
    BY <1>7 DEF AskFor, Relay, Reject, Knows, NodeState, peerVars
  <2>2. QED
    BY <2>1 DEF NodeTypes
<1>8. ASSUME NEW p \in Peer, LosePeer(p) \/ Close(p) PROVE NodeTypes'
  BY <1>8 DEF LosePeer, Close, NodeTypes, nodeVars
<1>9. ASSUME NEW p \in Peer, Connect(p) PROVE NodeTypes'
  <2>1. [t \in Tx |-> "unknown"] \in [Tx -> NodeState]
    BY DEF NodeState
  <2>2. QED
    BY <1>9, <2>1 DEF Connect, NodeTypes
<1>10. QED
  BY <1>2, <1>3, <1>4, <1>5, <1>6, <1>7, <1>8, <1>9 DEF Next

LEMMA HistoryTypesStep ==
  ASSUME Types, HistoryTypes, Next
  PROVE  HistoryTypes'
<1>1. CASE UNCHANGED <<timer, wallet, confirmed, network, inChain, registered, given>>
  BY <1>1 DEF HistoryTypes
<1>2. CASE \/ SeedObserver \/ RequestedTransaction \/ Callback \/ RejectedTransaction \/ DisconnectedWithError
           \/ \E p \in Peer : LosePeer(p) \/ Close(p) \/ Connect(p) \/ \E t \in Tx : Gives(p, t)
           \/ \E t \in Tx : PublishTransaction(t)
  <2>1. UNCHANGED <<timer, wallet, confirmed, network, inChain, registered, given>>
    BY <1>2 DEF SeedObserver, RequestedTransaction, Callback, RejectedTransaction, DisconnectedWithError,
       LosePeer, Close, Connect, Gives, AskFor, Relay, Reject, RelayBlock, PublishTransaction,
       threads, walletVars, nodeVars, history
  <2>2. QED
    BY <1>1, <2>1
<1>3. CASE Start \/ Success
  <2>1. timer' \subseteq Tx
    BY <1>3, MainHeadFacts DEF Start, Success, HistoryTypes
  <2>2. QED
    BY <1>3, <2>1 DEF Start, Success, HistoryTypes, walletVars, nodeVars, history
<1>4. CASE \E t \in Tx : TxTimeout(t) \/ Broadcast(t)
  BY <1>4 DEF TxTimeout, Broadcast, HistoryTypes, threads, walletVars, nodeVars, history
<1>5. CASE NewWallet \/ RemoveUnrelayedTransactions
  BY <1>5 DEF NewWallet, RemoveUnrelayedTransactions, HistoryTypes, threads, walletVars, nodeVars, history
<1>6. CASE Register \/ SendTx
  <2>1. answer.tx \in Tx
    BY <1>6, AnswerTypes DEF Register, SendTx
  <2>2. QED
    BY <1>6, <2>1 DEF Register, SendTx, HistoryTypes, threads, walletVars, nodeVars, history
<1>7. CASE RelayedTransaction
  <2>1. Head(queue).tx \in Tx
    BY <1>7, HeadFacts DEF RelayedTransaction
  <2>2. QED
    BY <1>7, <2>1 DEF RelayedTransaction, HistoryTypes, threads, walletVars, nodeVars, history
<1>8. CASE SetBlockHeight
  <2>1. Head(queue).tx \in Tx
    BY <1>8, HeadFacts DEF SetBlockHeight
  <2>2. QED
    BY <1>8, <2>1 DEF SetBlockHeight, HistoryTypes, threads, walletVars, nodeVars, history
<1>9. QED
  BY <1>2, <1>3, <1>4, <1>5, <1>6, <1>7, <1>8 DEF Next, Gives

----------------------------------------------------------------------------
(***************************************************************************)
(* What q has yet to hear of a peer.                                       *)
(***************************************************************************)
\* The peers that are gone, of which q does not know yet.
Leaving == {p \in attached : status[p] = "gone"}

QueueLimit == Len(queue) <= MaxQueue + Cardinality(Leaving)

\* A block is of a peer that q counts as there; one that a peer is gone is its last.
Heard ==
  /\ \A p \in Peer : status[p] # "gone" => p \in attached
  /\ \A i \in DOMAIN queue : queue[i].peer \in attached
  /\ \A i \in DOMAIN queue : queue[i].type = "disconnected" => status[queue[i].peer] = "gone"
  /\ \A i, j \in DOMAIN queue :
       i < j /\ queue[i].type = "disconnected" => queue[j].peer # queue[i].peer
  /\ answer # None => answer.peer \in attached

Layer1 == AllTypes /\ QueueLimit /\ Heard

LEMMA LeavingFacts ==
  ASSUME Types
  PROVE  IsFiniteSet(Leaving) /\ Cardinality(Leaving) \in Nat /\ Leaving \subseteq Peer
         /\ Cardinality(Leaving) <= Cardinality(Peer) /\ Cardinality(Peer) \in Nat
BY PublicationAssumption, FS_Subset, FS_CardinalityType, Leaving \subseteq Peer DEF Leaving, Types

LEMMA HeardElsewhere ==
  ASSUME Layer1, UNCHANGED <<attached, queue>>,
         \A p \in Peer : status'[p] = "gone" <=> status[p] = "gone",
         answer' = None \/ (answer # None /\ answer'.peer = answer.peer)
  PROVE  QueueLimit' /\ Heard'
<1>1. Leaving' = Leaving
  BY DEF Layer1, AllTypes, Types, Leaving
<1>2. \A i \in DOMAIN queue : queue[i].peer \in Peer
  BY DEF Layer1, AllTypes, Types, Heard
<1>3. QED
  BY <1>1, <1>2 DEF Layer1, QueueLimit, Heard

\* What the rest of the queue says.
LEMMA RestFacts ==
  ASSUME Layer1, queue # <<>>
  PROVE  /\ Head(queue).peer \in attached /\ Head(queue) = queue[1] /\ 1 \in DOMAIN queue
         /\ Len(Tail(queue)) = Len(queue) - 1 /\ Len(queue) \in Nat
         /\ DOMAIN Tail(queue) \subseteq Nat \ {0}
         /\ \A i \in DOMAIN Tail(queue) : i + 1 \in DOMAIN queue /\ Tail(queue)[i] = queue[i + 1]
<1>1. queue \in Seq(PeerBlock)
  BY DEF Layer1, AllTypes, Types
<1>2. QED
  BY <1>1, TailFacts, IndexFacts DEF Layer1, Heard

LEMMA HeardTaken ==
  ASSUME Layer1, queue # <<>>, Head(queue).type # "disconnected",
         queue' = Tail(queue), UNCHANGED <<attached, status>>,
         answer' = None \/ answer'.peer = Head(queue).peer
  PROVE  QueueLimit' /\ Heard'
<1>1. UNCHANGED Leaving
  BY DEF Leaving
<1>2. Cardinality(Leaving) \in Nat
  BY LeavingFacts DEF Layer1, AllTypes
<1>3. QueueLimit'
  BY <1>1, <1>2, RestFacts, PublicationAssumption DEF Layer1, QueueLimit
<1>4. Heard'
  BY RestFacts DEF Layer1, Heard
<1>5. QED
  BY <1>3, <1>4

LEMMA HeardGiven ==
  ASSUME Layer1, NEW b \in PeerBlock, b.type # "disconnected", b.peer \in Peer, RunLoop(b.peer),
         Queued(b), UNCHANGED <<attached, status, answer>>
  PROVE  QueueLimit' /\ Heard'
<1>1. UNCHANGED Leaving
  BY DEF Leaving
<1>2. Cardinality(Leaving) \in Nat
  BY LeavingFacts DEF Layer1, AllTypes
<1>3. queue \in Seq(PeerBlock)
  BY DEF Layer1, AllTypes, Types
<1>4. Len(queue') = Len(queue) + 1 /\ Len(queue) \in Nat
  BY <1>3 DEF Queued
<1>5. QueueLimit'
  BY <1>1, <1>2, <1>4, PublicationAssumption DEF QueueLimit, Queued
<1>6. /\ \A i \in DOMAIN queue : queue'[i] = queue[i] /\ i \in Nat /\ i <= Len(queue)
      /\ \A i \in DOMAIN queue' : i \in DOMAIN queue \/ (i = Len(queue) + 1 /\ queue'[i] = b)
  BY <1>3, AppendFacts, IndexFacts DEF Queued
<1>7. Heard'
  <2>1. b.peer \in attached /\ \A i \in DOMAIN queue : queue[i].type = "disconnected" => queue[i].peer # b.peer
    BY DEF Layer1, Heard, RunLoop
  <2>2. \A i, j \in DOMAIN queue' : i < j => i \in DOMAIN queue
    BY <1>4, <1>6
  <2>3. QED
    BY <2>1, <2>2, <1>6 DEF Layer1, Heard
<1>8. QED
  BY <1>5, <1>7

\* The run loop ends, and its last block is that it does.
LEMMA HeardClose ==
  ASSUME Layer1, NEW p \in Peer, Close(p)
  PROVE  QueueLimit' /\ Heard'
<1>1. /\ status[p] = "closing" /\ status' = [status EXCEPT ![p] = "gone"]
      /\ queue' = Append(queue, Disconnected(p)) /\ UNCHANGED <<attached, answer>>
  BY DEF Close
<1>2. queue \in Seq(PeerBlock) /\ Disconnected(p) \in PeerBlock
      /\ Disconnected(p).type = "disconnected" /\ Disconnected(p).peer = p
  BY DEF Layer1, AllTypes, Types, Disconnected, PeerBlock
<1>3. /\ \A x \in Peer : status'[x] = IF x = p THEN "gone" ELSE status[x]
      /\ attached \subseteq Peer /\ p \in attached
  BY <1>1 DEF Layer1, AllTypes, Types, NodeTypes, Heard
<1>4. Leaving' = Leaving \cup {p} /\ p \notin Leaving
  BY <1>1, <1>3 DEF Leaving
<1>5. Cardinality(Leaving') = Cardinality(Leaving) + 1 /\ Cardinality(Leaving) \in Nat
  BY <1>4, LeavingFacts, FS_AddElement DEF Layer1, AllTypes
<1>6. Len(queue') = Len(queue) + 1 /\ Len(queue) \in Nat
  BY <1>1, <1>2
<1>7. QueueLimit'
  BY <1>5, <1>6, PublicationAssumption DEF Layer1, QueueLimit
<1>8. /\ \A i \in DOMAIN queue : queue'[i] = queue[i] /\ i \in Nat /\ i <= Len(queue)
      /\ \A i \in DOMAIN queue' : i \in DOMAIN queue \/ (i = Len(queue) + 1 /\ queue'[i] = Disconnected(p))
  BY <1>1, <1>2, AppendFacts, IndexFacts
<1>9. \A i \in DOMAIN queue : queue[i].type = "disconnected" => queue[i].peer # p
  BY <1>1 DEF Layer1, Heard
<1>10. Heard'
  <2>1. \A i, j \in DOMAIN queue' : i < j => i \in DOMAIN queue
    BY <1>6, <1>8
  <2>2. \A i \in DOMAIN queue : queue[i].peer \in Peer
    BY <1>3 DEF Layer1, Heard
  <2>3. /\ \A x \in Peer : status'[x] # "gone" => x \in attached'
        /\ \A i \in DOMAIN queue' : queue'[i].peer \in attached'
    BY <1>1, <1>2, <1>3, <1>8 DEF Layer1, Heard
  <2>4. \A i \in DOMAIN queue' : queue'[i].type = "disconnected" => status'[queue'[i].peer] = "gone"
    BY <1>2, <1>3, <1>8, <2>2 DEF Layer1, Heard
  <2>5. \A i, j \in DOMAIN queue' :
          i < j /\ queue'[i].type = "disconnected" => queue'[j].peer # queue'[i].peer
    BY <1>2, <1>8, <1>9, <2>1 DEF Layer1, Heard
  <2>6. QED
    BY <1>1, <2>3, <2>4, <2>5 DEF Layer1, Heard
<1>11. QED
  BY <1>7, <1>10

\* q hears of it.
LEMMA HeardDisconnected ==
  ASSUME Layer1, DisconnectedWithError
  PROVE  QueueLimit' /\ Heard'
<1>1. PICK p \in Peer : p = Head(queue).peer
  BY HeadFacts DEF DisconnectedWithError, Layer1, AllTypes
<1>2. /\ queue # <<>> /\ Head(queue).type = "disconnected" /\ queue' = Tail(queue)
      /\ answer = None /\ attached' = attached \ {p} /\ UNCHANGED <<status, answer>>
  BY <1>1 DEF DisconnectedWithError, Taken
<1>3. p \in attached /\ status[p] = "gone" /\ \A i \in DOMAIN Tail(queue) : Tail(queue)[i].peer # p
  <2>1. \A i \in DOMAIN Tail(queue) : 1 < i + 1
    BY <1>2, RestFacts
  <2>2. QED
    BY <1>1, <1>2, <2>1, RestFacts DEF Layer1, Heard
<1>4. Leaving' = Leaving \ {p} /\ p \in Leaving
  BY <1>2, <1>3 DEF Leaving
<1>5. Cardinality(Leaving') = Cardinality(Leaving) - 1 /\ Cardinality(Leaving) \in Nat
  BY <1>4, LeavingFacts, FS_RemoveElement DEF Layer1, AllTypes
<1>6. QueueLimit'
  BY <1>2, <1>5, RestFacts, PublicationAssumption DEF Layer1, QueueLimit
<1>7. Heard'
  BY <1>2, <1>3, RestFacts DEF Layer1, Heard
<1>8. QED
  BY <1>6, <1>7

LEMMA HeardConnect ==
  ASSUME Layer1, NEW p \in Peer, Connect(p)
  PROVE  QueueLimit' /\ Heard'
<1>1. /\ status[p] = "gone" /\ p \notin attached
      /\ status' = [status EXCEPT ![p] = "connected"] /\ attached' = attached \cup {p}
      /\ UNCHANGED <<queue, answer>>
  BY DEF Connect, threads
<1>2. /\ \A x \in Peer : status'[x] = IF x = p THEN "connected" ELSE status[x]
      /\ attached \subseteq Peer
  BY <1>1 DEF Layer1, AllTypes, Types, NodeTypes
<1>3. UNCHANGED Leaving
  BY <1>1, <1>2 DEF Leaving
<1>4. QueueLimit'
  BY <1>1, <1>3 DEF Layer1, QueueLimit
<1>5. \A i \in DOMAIN queue : queue[i].peer \in attached /\ queue[i].peer \in Peer
  BY <1>2 DEF Layer1, Heard
<1>6. Heard'
  BY <1>1, <1>2, <1>5 DEF Layer1, Heard
<1>7. QED
  BY <1>4, <1>6

LEMMA Layer1Step ==
  ASSUME Layer1, Types', [Next]_vars
  PROVE  Layer1'
<1> USE DEF Layer1, AllTypes
<1>1. CASE UNCHANGED vars
  <2>1. UNCHANGED <<attached, queue, status, answer>>
    BY <1>1 DEF vars, threads, peerVars
  <2>2. QueueLimit' /\ Heard'
    BY <2>1, HeardElsewhere
  <2>3. QED
    BY <1>1, <2>2 DEF vars, tables, threads, walletVars, peerVars, nodeVars, history, TableTypes, NodeTypes,
       HistoryTypes
<1>2. ASSUME Next PROVE TableTypes' /\ NodeTypes' /\ HistoryTypes'
  BY <1>2, TableTypesStep, NodeTypesStep, HistoryTypesStep
<1>3. CASE Register \/ Callback \/ SendTx
  <2>1. UNCHANGED <<attached, queue, status>> /\ (answer' = None \/ (answer # None /\ answer'.peer = answer.peer))
    BY <1>3 DEF Register, Callback, SendTx, peerVars, Types, Answered
  <2>2. QED
    BY <1>2, <1>3, <2>1, HeardElsewhere DEF Next
<1>4. CASE \/ Start \/ Success \/ NewWallet \/ RemoveUnrelayedTransactions
           \/ \E t \in Tx : PublishTransaction(t) \/ TxTimeout(t) \/ Broadcast(t)
  <2>1. UNCHANGED <<attached, queue, status, answer>>
    BY <1>4 DEF Start, Success, NewWallet, RemoveUnrelayedTransactions, PublishTransaction, TxTimeout,
       Broadcast, threads, peerVars
  <2>2. QED
    BY <1>2, <1>4, <2>1, HeardElsewhere DEF Next
<1>5. CASE SeedObserver \/ \E p \in Peer : LosePeer(p)
  <2>1. UNCHANGED <<attached, queue, answer>> /\ \A p \in Peer : status'[p] = "gone" <=> status[p] = "gone"
    BY <1>5 DEF SeedObserver, LosePeer, Connected, threads, NodeTypes
  <2>2. QED
    BY <1>2, <1>5, <2>1, HeardElsewhere DEF Next
<1>6. CASE RelayedTransaction \/ RejectedTransaction \/ SetBlockHeight
  <2>1. /\ queue # <<>> /\ Head(queue).type # "disconnected" /\ queue' = Tail(queue)
        /\ UNCHANGED <<attached, status>> /\ answer' = None
    BY <1>6 DEF RelayedTransaction, RejectedTransaction, SetBlockHeight, Taken, peerVars
  <2>2. QED
    BY <1>2, <1>6, <2>1, HeardTaken DEF Next
<1>7. CASE RequestedTransaction
  <2>1. /\ queue # <<>> /\ Head(queue).type # "disconnected" /\ queue' = Tail(queue)
        /\ UNCHANGED <<attached, status>> /\ (answer' = None \/ answer'.peer = Head(queue).peer)
    BY <1>7 DEF RequestedTransaction, Taken, peerVars
  <2>2. QED
    BY <1>2, <1>7, <2>1, HeardTaken DEF Next
<1>8. ASSUME NEW p \in Peer, NEW t \in Tx, Gives(p, t) PROVE Layer1'
  <2>1. UNCHANGED <<attached, status, answer>> /\ RunLoop(p)
    BY <1>8 DEF Gives, AskFor, Relay, Reject, RelayBlock, peerVars
  <2>2. \E b \in PeerBlock : b.type # "disconnected" /\ b.peer = p /\ Queued(b)
    BY <1>8 DEF Gives, AskFor, Relay, Reject, RelayBlock, Getdata, Relayed, Rejected, Block, PeerBlock
  <2>3. QED
    BY <1>2, <1>8, <2>1, <2>2, HeardGiven DEF Next, Gives
<1>9. CASE DisconnectedWithError
  BY <1>2, <1>9, HeardDisconnected DEF Next
<1>10. ASSUME NEW p \in Peer, Close(p) \/ Connect(p) PROVE Layer1'
  BY <1>2, <1>10, HeardClose, HeardConnect DEF Next
<1>11. QED
  BY <1>1, <1>3, <1>4, <1>5, <1>6, <1>7, <1>8, <1>9, <1>10 DEF Next, Gives

LEMMA Layer1Init == Init => Layer1
<1> SUFFICES ASSUME Init PROVE Layer1
  OBVIOUS
<1>1. Types
  BY InitInv DEF IInv
<1>2. TableTypes /\ NodeTypes /\ HistoryTypes
  BY DEF Init, TableTypes, NodeTypes, HistoryTypes, NodeState
<1>3. Heard
  BY DEF Init, Heard
<1>4. QueueLimit
  <2>1. Cardinality(Leaving) \in Nat
    BY <1>1, LeavingFacts
  <2>2. QED
    BY <2>1, PublicationAssumption DEF Init, QueueLimit
<1>5. QED
  BY <1>1, <1>2, <1>3, <1>4 DEF Layer1, AllTypes

\* The types, with the length of q's queue: a connection that ends gives q one block,
\* whatever was waiting.
THEOREM PublicationTypeCorrect == Spec => []PublicationTypeOK
<1>1. IInv' => Types'
  BY DEF IInv
<1>2. IInv /\ Layer1 => PublicationTypeOK
  <2> SUFFICES ASSUME IInv, Layer1 PROVE PublicationTypeOK
    OBVIOUS
  <2>1. Len(queue) <= MaxQueue + Cardinality(Peer)
    <3>1. queue \in Seq(PeerBlock) /\ Cardinality(Leaving) <= Cardinality(Peer) /\ Cardinality(Leaving) \in Nat
          /\ Cardinality(Peer) \in Nat /\ Len(queue) <= MaxQueue + Cardinality(Leaving)
      BY LeavingFacts DEF Layer1, AllTypes, Types, QueueLimit
    <3>2. QED
      BY <3>1, PublicationAssumption
  <2>2. accepted \subseteq Tx
    BY DEF IInv, Types
  <2>3. QED
    BY <2>1, <2>2 DEF PublicationTypeOK, Layer1, AllTypes, Types, Answered, TableTypes, NodeTypes, NodeState, HistoryTypes
<1>3. QED
  BY <1>1, <1>2, Layer1Init, Layer1Step, CompletionFollowed, PTL DEF Spec

----------------------------------------------------------------------------
(***************************************************************************)
(* What a peer has asked for, was given, and rejects.                      *)
(***************************************************************************)
IsAsked(b, p, t) == b.type = "getdata" /\ b.peer = p /\ b.tx = t
Answers(p, t) == answer # None /\ answer.peer = p /\ answer.tx = t

\* A peer that waits for an answer has asked once.
Asked ==
  /\ \A p \in Peer, t \in Tx : Answers(p, t) => at[p][t] = "asked"
  /\ \A p \in Peer, t \in Tx : \A i \in DOMAIN queue : IsAsked(queue[i], p, t) =>
       /\ at[p][t] = "asked" /\ ~Answers(p, t)
       /\ \A j \in DOMAIN queue : IsAsked(queue[j], p, t) => i = j

\* It rejects what it was given, and that was published.
Given ==
  /\ given \subseteq accepted
  /\ \A p \in Peer, t \in Tx : at[p][t] \in {"given", "rejected"} => t \in given
  /\ \A i \in DOMAIN queue : queue[i].type = "rejected" => at[queue[i].peer][queue[i].tx] = "rejected"

Layer2 == Asked /\ Given

\* What a block in the queue is of.
LEMMA QueuedTypes ==
  ASSUME Types, NEW i \in DOMAIN queue
  PROVE  queue[i].peer \in Peer /\ (queue[i].type # "disconnected" => queue[i].tx \in Tx)
<1>1. queue[i] \in PeerBlock
  BY IndexFacts DEF Types
<1>2. QED
  BY <1>1 DEF PeerBlock

\* No block is new, and no peer has another state, but those that have an offer.
LEMMA AskedElsewhere ==
  ASSUME Layer1, Layer2, UNCHANGED given, accepted \subseteq accepted',
         \A x \in Peer, u \in Tx : at'[x][u] = at[x][u] \/ (at[x][u] = "unknown" /\ at'[x][u] = "offered"),
         answer' = None \/ (answer # None /\ answer'.peer = answer.peer /\ answer'.tx = answer.tx),
         UNCHANGED queue \/ (queue # <<>> /\ queue' = Tail(queue))
  PROVE  Layer2'
<1>1. /\ \A i \in DOMAIN queue' : \E k \in DOMAIN queue : queue'[i] = queue[k]
      /\ \A p, t : \A i, j \in DOMAIN queue' :
           (\A k, l \in DOMAIN queue : IsAsked(queue[k], p, t) /\ IsAsked(queue[l], p, t) => k = l) =>
              (IsAsked(queue'[i], p, t) /\ IsAsked(queue'[j], p, t) => i = j)
  <2>1. CASE UNCHANGED queue
    BY <2>1
  <2>2. CASE queue # <<>> /\ queue' = Tail(queue)
    <3>1. /\ DOMAIN queue' \subseteq Nat
          /\ \A i \in DOMAIN queue' : i + 1 \in DOMAIN queue /\ queue'[i] = queue[i + 1]
      BY <2>2, RestFacts
    <3>2. \A i, j \in DOMAIN queue' : i + 1 = j + 1 => i = j
      BY <3>1
    <3>3. QED
      BY <3>1, <3>2
  <2>3. QED
    BY <2>1, <2>2
<1>2. \A p, t : Answers(p, t)' => Answers(p, t)
  BY DEF Answers
<1>3. ASSUME NEW i \in DOMAIN queue'
      PROVE  queue'[i].peer \in Peer /\ (queue'[i].type # "disconnected" => queue'[i].tx \in Tx)
  BY <1>1, QueuedTypes DEF Layer1, AllTypes
<1>4. Asked'
  BY <1>1, <1>2 DEF Layer2, Asked
<1>5. Given'
  BY <1>1, <1>3 DEF Layer2, Given
<1>6. QED
  BY <1>4, <1>5 DEF Layer2

\* The first block goes to the answer, or the peer hears that it is not found.
LEMMA AskedRequested ==
  ASSUME Layer1, Layer2, RequestedTransaction
  PROVE  Layer2'
<1>1. PICK p \in Peer, t \in Tx : p = Head(queue).peer /\ t = Head(queue).tx
  BY HeadFacts DEF RequestedTransaction, Layer1, AllTypes
<1>2. /\ queue # <<>> /\ queue' = Tail(queue) /\ Head(queue).type = "getdata" /\ answer = None
      /\ UNCHANGED <<given, accepted>>
      /\ \/ UNCHANGED at /\ answer'.peer = p /\ answer'.tx = t
         \/ at' = [at EXCEPT ![p][t] = "notfound"] /\ answer' = None
  <2>1. PICK c \in BOOLEAN : c = (t \in publishedCallback)
    BY (t \in publishedCallback) \in BOOLEAN, Zenon
  <2>2. \/ UNCHANGED at /\ answer' = [peer |-> p, tx |-> t, called |-> c, step |-> "register"]
        \/ at' = [at EXCEPT ![p][t] = "notfound"] /\ answer' = answer
    BY <1>1, <2>1, Zenon DEF RequestedTransaction
  <2>3. QED
    BY <2>2 DEF RequestedTransaction, Taken, history
<1>3. /\ \A i \in DOMAIN queue' : i + 1 \in DOMAIN queue /\ queue'[i] = queue[i + 1] /\ i + 1 # 1 /\ i \in Nat
      /\ 1 \in DOMAIN queue /\ queue[1] = Head(queue)
  BY <1>2, RestFacts
<1>4. IsAsked(queue[1], p, t) /\ at[p][t] = "asked" /\ \A i \in DOMAIN queue' : ~IsAsked(queue'[i], p, t)
  BY <1>1, <1>2, <1>3 DEF Layer2, Asked, IsAsked
<1>5. \A x \in Peer, u \in Tx :
        at'[x][u] = at[x][u] \/ (x = p /\ u = t /\ at'[x][u] = "notfound" /\ answer' = None)
  BY <1>2 DEF Layer1, AllTypes, NodeTypes
<1>6. ASSUME NEW i \in DOMAIN queue'
      PROVE  queue'[i].peer \in Peer /\ (queue'[i].type # "disconnected" => queue'[i].tx \in Tx)
  BY <1>3, QueuedTypes DEF Layer1, AllTypes
<1>7. Asked'
  <2>1. \A x \in Peer, u \in Tx : Answers(x, u)' => x = p /\ u = t /\ at'[x][u] = "asked"
    BY <1>2, <1>4, <1>5 DEF Answers
  <2>2. ASSUME NEW x \in Peer, NEW u \in Tx, NEW i \in DOMAIN queue', IsAsked(queue'[i], x, u)
        PROVE  /\ at'[x][u] = "asked" /\ ~Answers(x, u)'
               /\ \A j \in DOMAIN queue' : IsAsked(queue'[j], x, u) => i = j
    <3>1. ~(x = p /\ u = t)
      BY <1>4, <2>2
    <3>2. at[x][u] = "asked" /\ \A j \in DOMAIN queue' : IsAsked(queue'[j], x, u) => i + 1 = j + 1
      BY <1>3, <2>2 DEF Layer2, Asked
    <3>3. QED
      BY <1>3, <1>5, <2>1, <3>1, <3>2
  <2>3. QED
    BY <2>1, <2>2 DEF Asked
<1>8. Given'
  <2>1. ASSUME NEW i \in DOMAIN queue', queue'[i].type = "rejected"
        PROVE  at'[queue'[i].peer][queue'[i].tx] = "rejected"
    <3>1. at[queue'[i].peer][queue'[i].tx] = "rejected"
      BY <1>3, <2>1 DEF Layer2, Given
    <3>2. QED
      BY <1>4, <1>5, <1>6, <2>1, <3>1
  <2>2. QED
    BY <1>2, <1>5, <2>1 DEF Layer2, Given
<1>9. QED
  BY <1>7, <1>8 DEF Layer2

\* The peer is given what it asked for.
LEMMA AskedSent ==
  ASSUME Layer1, Layer2, IInv, SendTx
  PROVE  Layer2'
<1>1. /\ answer # None /\ answer' = None /\ UNCHANGED <<queue, accepted>>
      /\ \/ UNCHANGED <<at, given>>
         \/ at' = [at EXCEPT ![answer.peer][answer.tx] = "given"] /\ given' = given \cup {answer.tx}
  BY DEF SendTx
<1>2. PICK p \in Peer, t \in Tx : p = answer.peer /\ t = answer.tx /\ t \in accepted
  BY <1>1, AnswerTypes DEF Layer1, AllTypes, IInv, OnlyAccepted
<1>3. CASE UNCHANGED <<at, given>>
  BY <1>1, <1>3, AskedElsewhere
<1>4. CASE at' = [at EXCEPT ![p][t] = "given"] /\ given' = given \cup {t}
  <2>1. \A x \in Peer, u \in Tx : at'[x][u] = IF x = p /\ u = t THEN "given" ELSE at[x][u]
    BY <1>4 DEF Layer1, AllTypes, NodeTypes
  <2>2. Answers(p, t) /\ at[p][t] = "asked" /\ \A x, u : ~Answers(x, u)'
    BY <1>1, <1>2 DEF Answers, Layer2, Asked
  <2>3. \A i \in DOMAIN queue : queue[i].peer \in Peer /\ (queue[i].type # "disconnected" => queue[i].tx \in Tx)
    BY QueuedTypes DEF Layer1, AllTypes
  <2>4. Asked'
    BY <1>1, <2>1, <2>2 DEF Layer2, Asked
  <2>5. Given'
    <3>1. \A i \in DOMAIN queue : queue[i].type = "rejected" => at'[queue[i].peer][queue[i].tx] = "rejected"
      BY <2>1, <2>2, <2>3 DEF Layer2, Given
    <3>2. QED
      BY <1>1, <1>2, <1>4, <2>1, <3>1 DEF Layer2, Given
  <2>6. QED
    BY <2>4, <2>5 DEF Layer2
<1>5. QED
  BY <1>1, <1>2, <1>3, <1>4

\* A peer gives q a block of its own.
LEMMA AskedGives ==
  ASSUME Layer1, Layer2, NEW p \in Peer, NEW t \in Tx, Gives(p, t)
  PROVE  Layer2'
<1> DEFINE Becomes(s) == at' = [at EXCEPT ![p][t] = s]
<1>1. PICK b \in PeerBlock :
        /\ queue' = Append(queue, b) /\ b.peer = p /\ b.tx = t
        /\ \/ b.type = "block" /\ UNCHANGED at
           \/ b.type = "relayed" /\ at[p][t] \in {"unknown", "offered"} /\ Becomes("relayed")
           \/ b.type = "getdata" /\ at[p][t] = "offered" /\ Becomes("asked")
           \/ b.type = "rejected" /\ at[p][t] = "given" /\ Becomes("rejected")
  <2>1. \A type \in {"getdata", "relayed", "rejected", "block"} :
          LET b == [type |-> type, peer |-> p, tx |-> t]
          IN  b \in PeerBlock /\ b.type = type /\ b.peer = p /\ b.tx = t
    BY DEF PeerBlock
  <2>2. CASE AskFor(p, t)
    BY <2>1, <2>2 DEF AskFor, Knows, Queued, Getdata
  <2>3. CASE Relay(p, t)
    BY <2>1, <2>3 DEF Relay, Knows, Queued, Relayed
  <2>4. CASE Reject(p, t)
    BY <2>1, <2>4 DEF Reject, Knows, Queued, Rejected
  <2>5. CASE RelayBlock(p, t)
    BY <2>1, <2>5 DEF RelayBlock, Queued, Block, nodeVars
  <2>6. QED
    BY <2>2, <2>3, <2>4, <2>5 DEF Gives
<1>2. UNCHANGED <<answer, given, accepted>>
  BY DEF Gives, AskFor, Relay, Reject, RelayBlock, history
<1>3. /\ \A i \in DOMAIN queue : i \in DOMAIN queue' /\ queue'[i] = queue[i]
      /\ \A i \in DOMAIN queue' : i \in DOMAIN queue \/ (i = Len(queue) + 1 /\ queue'[i] = b)
  BY <1>1, AppendFacts DEF Layer1, AllTypes, Types
<1>4. \A i \in DOMAIN queue : queue[i].peer \in Peer /\ (queue[i].type # "disconnected" => queue[i].tx \in Tx)
  BY QueuedTypes DEF Layer1, AllTypes
<1>5. \A x \in Peer, u \in Tx : ~(x = p /\ u = t) => at'[x][u] = at[x][u]
  BY <1>1 DEF Layer1, AllTypes, NodeTypes
<1>6. \/ b.type = "block" /\ UNCHANGED at
      \/ b.type = "relayed" /\ at[p][t] \in {"unknown", "offered"} /\ at'[p][t] = "relayed"
      \/ b.type = "getdata" /\ at[p][t] = "offered" /\ at'[p][t] = "asked"
      \/ b.type = "rejected" /\ at[p][t] = "given" /\ at'[p][t] = "rejected"
  BY <1>1 DEF Layer1, AllTypes, NodeTypes
<1>7. Asked'
  <2>1. \A x \in Peer, u \in Tx : Answers(x, u)' => Answers(x, u) /\ at[x][u] = "asked"
    BY <1>2 DEF Answers, Layer2, Asked
  <2>2. \A x \in Peer, u \in Tx : at[x][u] = "asked" => at'[x][u] = "asked"
    BY <1>5, <1>6
  <2>3. \A x \in Peer, u \in Tx : IsAsked(b, x, u) =>
          at[x][u] # "asked" /\ at'[x][u] = "asked" /\ ~Answers(x, u)'
    BY <1>1, <1>6, <2>1 DEF IsAsked
  <2>4. QED
    BY <1>2, <1>3, <2>1, <2>2, <2>3 DEF Layer2, Asked
<1>8. Given'
  <2>1. \A x \in Peer, u \in Tx : at'[x][u] \in {"given", "rejected"} => u \in given
    BY <1>5, <1>6 DEF Layer2, Given
  <2>2. \A x \in Peer, u \in Tx : at[x][u] = "rejected" => at'[x][u] = "rejected"
    BY <1>5, <1>6
  <2>3. \A i \in DOMAIN queue : queue[i].type = "rejected" => at'[queue[i].peer][queue[i].tx] = "rejected"
    BY <1>4, <2>2 DEF Layer2, Given
  <2>4. b.type = "rejected" => at'[b.peer][b.tx] = "rejected"
    BY <1>1, <1>6
  <2>5. QED
    BY <1>2, <1>3, <2>1, <2>3, <2>4 DEF Layer2, Given
<1>9. QED
  BY <1>7, <1>8 DEF Layer2

LEMMA AskedClose ==
  ASSUME Layer1, Layer2, NEW p \in Peer, Close(p)
  PROVE  Layer2'
<1>1. Disconnected(p) \in PeerBlock /\ Disconnected(p).type = "disconnected"
  BY DEF Disconnected, PeerBlock
<1>2. queue' = Append(queue, Disconnected(p)) /\ UNCHANGED <<answer, given, accepted, at>>
  BY DEF Close, nodeVars, history
<1>3. /\ \A i \in DOMAIN queue : queue'[i] = queue[i]
      /\ \A i \in DOMAIN queue' : i \in DOMAIN queue \/ queue'[i] = Disconnected(p)
  BY <1>1, <1>2, AppendFacts DEF Layer1, AllTypes, Types
<1>4. \A i \in DOMAIN queue' : queue'[i].type # "disconnected" => i \in DOMAIN queue /\ queue'[i] = queue[i]
  BY <1>1, <1>3
<1>5. Asked'
  BY <1>2, <1>4 DEF Layer2, Asked, IsAsked, Answers
<1>6. Given'
  BY <1>2, <1>4 DEF Layer2, Given
<1>7. QED
  BY <1>5, <1>6 DEF Layer2

\* A new connection: nothing of the last one is left.
LEMMA AskedConnect ==
  ASSUME Layer1, Layer2, NEW p \in Peer, Connect(p)
  PROVE  Layer2'
<1>1. /\ p \notin attached /\ at' = [at EXCEPT ![p] = [t \in Tx |-> "unknown"]]
      /\ UNCHANGED <<queue, answer, given, accepted>>
  BY DEF Connect, threads, history
<1>2. \A x \in Peer, u \in Tx : at'[x][u] = IF x = p THEN "unknown" ELSE at[x][u]
  BY <1>1 DEF Layer1, AllTypes, NodeTypes
<1>3. \A i \in DOMAIN queue :
        queue[i].peer \in Peer \ {p} /\ (queue[i].type # "disconnected" => queue[i].tx \in Tx)
  BY <1>1, QueuedTypes DEF Layer1, AllTypes, Heard
<1>4. \A u : ~Answers(p, u)
  BY <1>1 DEF Layer1, Heard, Answers
<1>5. Asked'
  <2>1. \A x, u : Answers(x, u)' <=> Answers(x, u)
    BY <1>1 DEF Answers
  <2>2. \A x \in Peer, u \in Tx : Answers(x, u)' => at'[x][u] = "asked"
    BY <1>2, <1>4, <2>1 DEF Layer2, Asked
  <2>3. ASSUME NEW x \in Peer, NEW u \in Tx, NEW i \in DOMAIN queue, IsAsked(queue[i], x, u)
        PROVE  /\ at'[x][u] = "asked" /\ ~Answers(x, u)
               /\ \A j \in DOMAIN queue : IsAsked(queue[j], x, u) => i = j
    <3>1. x # p
      BY <1>3, <2>3 DEF IsAsked
    <3>2. QED
      BY <1>2, <2>3, <3>1 DEF Layer2, Asked
  <2>4. QED
    BY <1>1, <2>1, <2>2, <2>3 DEF Asked
<1>6. Given'
  <2>1. ASSUME NEW i \in DOMAIN queue, queue[i].type = "rejected"
        PROVE  at'[queue[i].peer][queue[i].tx] = "rejected"
    <3>1. at[queue[i].peer][queue[i].tx] = "rejected"
      BY <2>1 DEF Layer2, Given
    <3>2. QED
      BY <1>2, <1>3, <2>1, <3>1
  <2>2. QED
    BY <1>1, <1>2, <2>1 DEF Layer2, Given
<1>7. QED
  BY <1>5, <1>6 DEF Layer2

LEMMA Layer2Step ==
  ASSUME IInv, Layer1, Layer2, [Next]_vars
  PROVE  Layer2'
<1>1. CASE UNCHANGED vars
  BY <1>1, AskedElsewhere DEF vars, threads, nodeVars, history
<1>2. CASE \/ Success \/ NewWallet \/ SeedObserver \/ Register \/ Callback \/ RemoveUnrelayedTransactions
           \/ \E t \in Tx : PublishTransaction(t) \/ TxTimeout(t) \/ Broadcast(t)
           \/ \E p \in Peer : LosePeer(p)
  <2>1. /\ UNCHANGED <<given, at, queue>> /\ accepted \subseteq accepted'
        /\ answer' = None \/ (answer # None /\ answer'.peer = answer.peer /\ answer'.tx = answer.tx)
    BY <1>2 DEF Success, NewWallet, SeedObserver, Register, Callback, RemoveUnrelayedTransactions,
       PublishTransaction, TxTimeout, Broadcast, LosePeer, threads, nodeVars, history, Layer1, AllTypes,
       Types, Answered
  <2>2. QED
    BY <2>1, AskedElsewhere
<1>3. CASE Start
  <2>1. UNCHANGED <<given, accepted, queue, answer>>
    BY <1>3 DEF Start, history
  <2>2. \A x \in Peer, u \in Tx : at'[x][u] = at[x][u] \/ (at[x][u] = "unknown" /\ at'[x][u] = "offered")
    BY <1>3 DEF Start
  <2>3. QED
    BY <2>1, <2>2, AskedElsewhere
<1>4. CASE RelayedTransaction \/ RejectedTransaction \/ SetBlockHeight \/ DisconnectedWithError
  <2>1. /\ UNCHANGED <<given, at, accepted, answer>> /\ queue # <<>> /\ queue' = Tail(queue)
    BY <1>4 DEF RelayedTransaction, RejectedTransaction, SetBlockHeight, DisconnectedWithError, Taken,
       nodeVars, history
  <2>2. QED
    BY <2>1, AskedElsewhere
<1>5. CASE RequestedTransaction
  BY <1>5, AskedRequested
<1>6. CASE SendTx
  BY <1>6, AskedSent
<1>7. ASSUME NEW p \in Peer, NEW t \in Tx, Gives(p, t) PROVE Layer2'
  BY <1>7, AskedGives
<1>8. ASSUME NEW p \in Peer, Close(p) \/ Connect(p) PROVE Layer2'
  BY <1>8, AskedClose, AskedConnect
<1>9. QED
  BY <1>1, <1>2, <1>3, <1>4, <1>5, <1>6, <1>7, <1>8 DEF Next, Gives

----------------------------------------------------------------------------
(***************************************************************************)
(* Who has relayed and rejected it.                                        *)
(***************************************************************************)
\* q is about to send t, and has registered it.
Sends(t) == answer # None /\ answer.step # "register" /\ answer.tx = t

\* What is published and was given to a peer, or is about to be, has an entry among the
\* relays; what is rejected has one.  disconnectedWithError: goes through these only.
Tabled ==
  /\ \A t \in publishedTx : t \in given \/ Sends(t) => t \in DOMAIN txRelays
  /\ \A t \in Tx : txRejections[t] # {} => t \in DOMAIN txRelays

Layer3 == Tabled /\ OnlyPeersThatAreThere

\* The tables and the answer stay as they are, or less of them is left.
LEMMA TabledElsewhere ==
  ASSUME Layer3, UNCHANGED <<txRelays, txRejections>>, attached \subseteq attached',
         \A t \in publishedTx' : t \in given' \/ Sends(t)' => t \in publishedTx /\ (t \in given \/ Sends(t))
  PROVE  Layer3'
BY DEF Layer3, Tabled, OnlyPeersThatAreThere, Relays

LEMMA TabledPublish ==
  ASSUME IInv, Layer2, Layer3, NEW t \in Tx, PublishTransaction(t)
  PROVE  Layer3'
<1>1. /\ t \notin accepted /\ publishedTx' = publishedTx \cup {t}
      /\ UNCHANGED <<txRelays, txRejections, attached, given, answer>>
  BY DEF PublishTransaction, peerVars
<1>2. t \notin given /\ ~Sends(t)
  BY <1>1 DEF Layer2, Given, IInv, OnlyAccepted, Sends
<1>3. QED
  BY <1>1, <1>2, TabledElsewhere DEF Sends

LEMMA TabledAnswer ==
  ASSUME Layer1, Layer3, RequestedTransaction \/ Callback \/ SendTx
  PROVE  Layer3'
<1>1. UNCHANGED <<txRelays, txRejections, attached, publishedTx>>
  BY DEF RequestedTransaction, Callback, SendTx, tables, peerVars
<1>2. CASE RequestedTransaction
  <2>1. PICK c \in BOOLEAN : c = (Head(queue).tx \in publishedCallback)
    BY (Head(queue).tx \in publishedCallback) \in BOOLEAN, Zenon
  <2>2. \/ answer' = answer
        \/ answer' = [peer |-> Head(queue).peer, tx |-> Head(queue).tx, called |-> c, step |-> "register"]
    BY <1>2, <2>1, Zenon DEF RequestedTransaction
  <2>3. given' = given /\ \A t : Sends(t)' => Sends(t)
    BY <1>2, <2>2 DEF RequestedTransaction, Sends, history
  <2>4. QED
    BY <1>1, <2>3, TabledElsewhere
<1>3. CASE Callback
  <2>1. given' = given /\ \A t : Sends(t)' => Sends(t)
    BY <1>3 DEF Callback, Sends, history, Layer1, AllTypes, Types, Answered
  <2>2. QED
    BY <1>1, <2>1, TabledElsewhere
<1>4. CASE SendTx
  <2>1. given' \subseteq given \cup {answer.tx} /\ Sends(answer.tx) /\ \A t : ~Sends(t)'
    BY <1>4 DEF SendTx, Sends
  <2>2. QED
    BY <1>1, <2>1, TabledElsewhere
<1>5. QED
  BY <1>2, <1>3, <1>4

\* A peer that is there relays t.
LEMMA TabledRelayed ==
  ASSUME Layer1, Layer3, NEW t \in Tx, NEW p \in attached, RelayedBy(t, p),
         UNCHANGED <<attached, given, txRejections>>, publishedTx' \subseteq publishedTx \cup {t},
         \A u : Sends(u)' => Sends(u) \/ u = t
  PROVE  Layer3'
<1>1. p \in Peer /\ TableTypes
  BY DEF Layer1, AllTypes, Types
<1>2. /\ DOMAIN txRelays' = DOMAIN txRelays \cup {t}
      /\ \A u \in Tx : Relays(u)' = IF u = t THEN Relays(u) \cup {p} ELSE Relays(u)
  BY <1>1, RelayedByFacts
<1>3. Tabled'
  BY <1>2 DEF Layer3, Tabled
<1>4. OnlyPeersThatAreThere'
  BY <1>2 DEF Layer3, OnlyPeersThatAreThere
<1>5. QED
  BY <1>3, <1>4 DEF Layer3

LEMMA TabledRegister ==
  ASSUME Layer1, Layer3, Register \/ RelayedTransaction
  PROVE  Layer3'
<1>1. CASE Register
  <2>1. answer.tx \in Tx /\ answer.peer \in attached
    BY <1>1, AnswerTypes DEF Register, Layer1, AllTypes, Heard
  <2>2. answer \in Answered /\ answer' = [answer EXCEPT !.step = "callback"]
    BY <1>1 DEF Register, Layer1, AllTypes, Types
  <2>3. \A u : Sends(u)' => u = answer.tx
    BY <2>2 DEF Sends, Answered
  <2>4. /\ RelayedBy(answer.tx, answer.peer)
        /\ UNCHANGED <<attached, given, txRejections, publishedTx>>
    BY <1>1 DEF Register, peerVars
  <2>5. QED
    BY <2>1, <2>3, <2>4, TabledRelayed
<1>2. CASE RelayedTransaction
  <2>1. Head(queue).tx \in Tx /\ queue # <<>>
    BY <1>2, HeadFacts DEF RelayedTransaction, Layer1, AllTypes
  <2>2. Head(queue).peer \in attached
    BY <2>1, RestFacts
  <2>3. UNCHANGED <<attached, given, txRejections, answer>> /\ \A u : Sends(u)' => Sends(u)
    BY <1>2 DEF RelayedTransaction, peerVars, Sends
  <2>4. CASE UNCHANGED <<publishedTx, txRelays>>
    BY <2>3, <2>4, TabledElsewhere
  <2>5. CASE /\ RelayedBy(Head(queue).tx, Head(queue).peer)
             /\ publishedTx' = publishedTx \cup {Head(queue).tx}
    BY <2>1, <2>2, <2>3, <2>5, TabledRelayed
  <2>6. QED
    BY <1>2, <2>4, <2>5 DEF RelayedTransaction
<1>3. QED
  BY <1>1, <1>2

\* A peer that was given t and is there rejects it: if t is still published, it has an entry.
LEMMA TabledRejected ==
  ASSUME Layer1, Layer2, Layer3, RejectedTransaction
  PROVE  Layer3'
<1>1. PICK p \in Peer, t \in Tx : p = Head(queue).peer /\ t = Head(queue).tx
  BY HeadFacts DEF RejectedTransaction, Layer1, AllTypes
<1>2. /\ queue # <<>> /\ Head(queue).type = "rejected"
      /\ UNCHANGED <<attached, given, publishedTx, answer>> /\ \A u : Sends(u)' <=> Sends(u)
  BY DEF RejectedTransaction, Taken, peerVars, history, Sends
<1>3. p \in attached /\ t \in given
  BY <1>1, <1>2, RestFacts DEF Layer2, Given
<1>4. CASE UNCHANGED <<txRelays, txRejections>>
  BY <1>2, <1>4, TabledElsewhere
<1>5. CASE /\ txRelays' = [u \in DOMAIN txRelays |-> IF u = t THEN txRelays[u] \ {p} ELSE txRelays[u]]
           /\ txRejections' = [txRejections EXCEPT ![t] = IF t \in publishedTx THEN txRejections[t] \cup {p}
                                                         ELSE txRejections[t]]
  <2>1. DOMAIN txRelays' = DOMAIN txRelays /\ \A u \in Tx : Relays(u)' \subseteq Relays(u)
    BY <1>5 DEF Relays
  <2>2. \A u \in Tx : txRejections'[u] = txRejections[u] \/ (u = t /\ t \in publishedTx /\ txRejections'[u] = txRejections[u] \cup {p})
    BY <1>5 DEF Layer1, AllTypes, TableTypes
  <2>3. Tabled'
    BY <1>2, <1>3, <2>1, <2>2 DEF Layer3, Tabled
  <2>4. OnlyPeersThatAreThere'
    BY <1>2, <1>3, <2>1, <2>2 DEF Layer3, OnlyPeersThatAreThere
  <2>5. QED
    BY <2>3, <2>4 DEF Layer3
<1>6. QED
  BY <1>1, <1>4, <1>5 DEF RejectedTransaction

LEMMA TabledBlock ==
  ASSUME Layer1, Layer3, SetBlockHeight
  PROVE  Layer3'
<1>1. PICK t \in Tx : t = Head(queue).tx
  BY HeadFacts DEF SetBlockHeight, Layer1, AllTypes
<1>2. UNCHANGED <<attached, given, answer>> /\ \A u : Sends(u)' <=> Sends(u)
  BY DEF SetBlockHeight, peerVars, history, Sends
<1>3. CASE UNCHANGED tables
  BY <1>2, <1>3, TabledElsewhere DEF tables
<1>4. CASE /\ publishedTx' = publishedTx \ {t}
           /\ txRelays' = [u \in DOMAIN txRelays \ {t} |-> txRelays[u]]
           /\ txRejections' = [txRejections EXCEPT ![t] = {}]
  <2>1. DOMAIN txRelays' = DOMAIN txRelays \ {t} /\ \A u \in Tx : Relays(u)' \subseteq Relays(u)
    BY <1>4 DEF Relays
  <2>2. \A u \in Tx : txRejections'[u] = IF u = t THEN {} ELSE txRejections[u]
    BY <1>4 DEF Layer1, AllTypes, TableTypes
  <2>3. QED
    BY <1>2, <1>4, <2>1, <2>2 DEF Layer3, Tabled, OnlyPeersThatAreThere
<1>5. QED
  BY <1>1, <1>3, <1>4 DEF SetBlockHeight

\* The peer that is gone is taken out of every entry, and of the rejections of those
\* that have one.
LEMMA TabledDisconnected ==
  ASSUME Layer1, Layer3, DisconnectedWithError
  PROVE  Layer3'
<1> DEFINE p == Head(queue).peer
<1>1. /\ attached' = attached \ {p} /\ txRelays' = [t \in DOMAIN txRelays |-> txRelays[t] \ {p}]
      /\ txRejections' = [t \in Tx |-> IF t \in DOMAIN txRelays THEN txRejections[t] \ {p} ELSE txRejections[t]]
      /\ UNCHANGED <<publishedTx, given, answer>>
  BY DEF DisconnectedWithError, RejectionsWithout, history
<1>2. DOMAIN txRelays' = DOMAIN txRelays /\ \A t \in Tx : Relays(t)' = Relays(t) \ {p}
  BY <1>1 DEF Relays
<1>3. \A t \in Tx : txRejections'[t] = txRejections[t] \ {p}
  BY <1>1 DEF Layer3, Tabled
<1>4. Tabled'
  BY <1>1, <1>2, <1>3 DEF Layer3, Tabled, Sends
<1>5. OnlyPeersThatAreThere'
  BY <1>1, <1>2, <1>3 DEF Layer3, OnlyPeersThatAreThere
<1>6. QED
  BY <1>4, <1>5 DEF Layer3

LEMMA Layer3Step ==
  ASSUME IInv, Layer1, Layer2, Layer3, [Next]_vars
  PROVE  Layer3'
<1>1. CASE \/ UNCHANGED vars
           \/ Start \/ Success \/ NewWallet \/ RemoveUnrelayedTransactions
           \/ \E t \in Tx : TxTimeout(t) \/ Broadcast(t)
           \/ \E p \in Peer : LosePeer(p) \/ Close(p) \/ Connect(p) \/ \E t \in Tx : Gives(p, t)
  <2>1. /\ UNCHANGED <<txRelays, txRejections, given, answer>>
        /\ attached \subseteq attached' /\ publishedTx' \subseteq publishedTx
    BY <1>1 DEF vars, Start, Success, NewWallet, RemoveUnrelayedTransactions, TxTimeout, Broadcast, LosePeer,
       Close, Connect, Gives, AskFor, Relay, Reject, RelayBlock, tables, threads, peerVars, history
  <2>2. QED
    BY <2>1, TabledElsewhere DEF Sends
<1>2. CASE SeedObserver
  BY <1>2 DEF SeedObserver, Layer3, Tabled, OnlyPeersThatAreThere, Relays
<1>3. QED
  BY <1>1, <1>2, TabledPublish, TabledAnswer, TabledRegister, TabledRejected, TabledBlock, TabledDisconnected
     DEF Next, Gives

----------------------------------------------------------------------------
(***************************************************************************)
(* What a peer holds.                                                      *)
(***************************************************************************)
\* p was given t, or is about to be.
Holds(p, t) == Connected(p) /\ (at[p][t] = "given" \/ (Sends(t) /\ answer.peer = p))

\* Until the wallet is another one, what a peer holds is in the wallet, and is confirmed or
\* counted as relayed by that peer.
Held ==
  ~seedChanged => \A p \in Peer, t \in Tx : Holds(p, t) =>
                    t \in wallet /\ (p \in Relays(t) \/ t \in confirmed)

\* The seed observer comes after the change.
SeedSeen == \A i \in DOMAIN main : main[i].type = "seed" => seedChanged

Layer4 == Held /\ SeedSeen

LEMMA SeedSeenStep ==
  ASSUME Types, Types', SeedSeen, [Next]_vars
  PROVE  SeedSeen'
<1>1. main \in Seq(MainBlock) /\ seedChanged \in BOOLEAN
  BY DEF Types
<1>2. CASE main # <<>> /\ main' = Tail(main) /\ UNCHANGED seedChanged
  <2>1. \A i \in DOMAIN main' : i + 1 \in DOMAIN main /\ main'[i] = main[i + 1]
    BY <1>1, <1>2, TailFacts
  <2>2. QED
    BY <1>2, <2>1 DEF SeedSeen
<1>3. ASSUME NEW b \in MainBlock, main' = Append(main, b), b.type = "seed" => seedChanged', seedChanged => seedChanged'
      PROVE  SeedSeen'
  <2>1. \A i \in DOMAIN main' : (i \in DOMAIN main /\ main'[i] = main[i]) \/ main'[i] = b
    BY <1>1, <1>3, AppendFacts
  <2>2. QED
    BY <1>3, <2>1 DEF SeedSeen
<1>4. CASE UNCHANGED <<main, seedChanged>>
  BY <1>4 DEF SeedSeen
<1>5. CASE Start \/ Success \/ SeedObserver
  BY <1>2, <1>5 DEF Start, Success, SeedObserver, walletVars
<1>6. ASSUME NEW t \in Tx, PublishTransaction(t) PROVE SeedSeen'
  <2>1. PICK peers \in SUBSET Peer : main' = Append(main, StartBlock(t, peers))
    BY <1>6 DEF PublishTransaction, Types
  <2>2. StartBlock(t, peers) \in MainBlock /\ StartBlock(t, peers).type = "start"
    BY DEF StartBlock, MainBlock
  <2>3. QED
    BY <1>3, <1>6, <2>1, <2>2 DEF PublishTransaction, walletVars
<1>7. CASE Callback
  <2>1. answer \in Answered
    BY <1>7 DEF Callback, Types
  <2>2. SuccessBlock(answer.tx, answer.called) \in MainBlock /\ SuccessBlock(answer.tx, answer.called).type = "success"
    BY <2>1 DEF SuccessBlock, MainBlock, Answered
  <2>3. QED
    BY <1>3, <1>7, <2>2 DEF Callback, walletVars
<1>8. CASE NewWallet
  <2>1. [type |-> "seed"] \in MainBlock
    BY DEF MainBlock
  <2>2. QED
    BY <1>3, <1>8, <2>1 DEF NewWallet
<1>9. CASE \/ UNCHANGED vars \/ RequestedTransaction \/ Register \/ SendTx \/ RelayedTransaction
           \/ RejectedTransaction \/ SetBlockHeight \/ DisconnectedWithError \/ RemoveUnrelayedTransactions
           \/ \E t \in Tx : TxTimeout(t) \/ Broadcast(t)
           \/ \E p \in Peer : LosePeer(p) \/ Close(p) \/ Connect(p) \/ \E t \in Tx : Gives(p, t)
  BY <1>4, <1>9 DEF vars, RequestedTransaction, Register, SendTx, RelayedTransaction, RejectedTransaction,
     SetBlockHeight, DisconnectedWithError, RemoveUnrelayedTransactions, TxTimeout, Broadcast, LosePeer, Close,
     Connect, Gives, AskFor, Relay, Reject, RelayBlock, threads, walletVars
<1>10. QED
  BY <1>5, <1>6, <1>7, <1>8, <1>9 DEF Next, Gives

\* No peer holds more, and nothing that was known of it is lost.
LEMMA HeldElsewhere ==
  ASSUME Held, seedChanged => seedChanged',
         \A p \in Peer, t \in Tx : Holds(p, t)' => Holds(p, t),
         wallet \subseteq wallet', confirmed \subseteq confirmed',
         \A t \in Tx : Relays(t) \subseteq Relays(t)'
  PROVE  Held'
BY DEF Held

\* The peer that asked is counted before it is given the transaction.
LEMMA HeldRegister ==
  ASSUME Layer1, Held, Register \/ RelayedTransaction
  PROVE  Held'
<1>1. CASE Register
  <2>1. answer.tx \in Tx /\ answer.peer \in Peer /\ TableTypes
    BY <1>1, AnswerTypes DEF Register, Layer1, AllTypes
  <2>2. answer' = [answer EXCEPT !.step = "callback"] /\ answer \in Answered
    BY <1>1 DEF Register, Layer1, AllTypes, Types
  <2>3. answer'.tx = answer.tx /\ answer'.peer = answer.peer
    BY <2>2 DEF Answered
  <2>4. \A u \in Tx : Relays(u)' = IF u = answer.tx THEN Relays(u) \cup {answer.peer} ELSE Relays(u)
    BY <1>1, <2>1, RelayedByFacts DEF Register
  <2>5. /\ UNCHANGED <<status, at, confirmed, seedChanged>>
        /\ ~seedChanged => wallet' = wallet \cup {answer.tx}
    BY <1>1 DEF Register, peerVars, nodeVars
  <2>6. ASSUME NEW p \in Peer, NEW t \in Tx, Holds(p, t)'
        PROVE  Holds(p, t) \/ (p = answer.peer /\ t = answer.tx)
    BY <2>3, <2>5, <2>6 DEF Holds, Sends, Connected
  <2>7. QED
    BY <2>4, <2>5, <2>6 DEF Held
<1>2. CASE RelayedTransaction
  <2>1. Head(queue).tx \in Tx /\ Head(queue).peer \in Peer /\ TableTypes
    BY <1>2, HeadFacts DEF RelayedTransaction, Layer1, AllTypes
  <2>2. \A u \in Tx : Relays(u) \subseteq Relays(u)'
    <3>1. CASE UNCHANGED txRelays
      BY <3>1 DEF Relays
    <3>2. CASE RelayedBy(Head(queue).tx, Head(queue).peer)
      BY <2>1, <3>2, RelayedByFacts
    <3>3. QED
      BY <1>2, <3>1, <3>2 DEF RelayedTransaction
  <2>3. UNCHANGED <<at, answer, status, confirmed, seedChanged>> /\ wallet \subseteq wallet'
    BY <1>2 DEF RelayedTransaction, peerVars, nodeVars
  <2>4. QED
    BY <2>2, <2>3, HeldElsewhere DEF Holds, Sends, Connected
<1>3. QED
  BY <1>1, <1>2

\* What the peer that rejects t was given, it holds no longer.
LEMMA HeldRejected ==
  ASSUME Layer1, Layer2, Held, RejectedTransaction
  PROVE  Held'
<1>1. PICK p \in Peer, t \in Tx : p = Head(queue).peer /\ t = Head(queue).tx
  BY HeadFacts DEF RejectedTransaction, Layer1, AllTypes
<1>2. /\ queue # <<>> /\ Head(queue).type = "rejected" /\ answer = None
      /\ UNCHANGED <<at, answer, status, wallet, confirmed, seedChanged>>
  BY DEF RejectedTransaction, Taken, peerVars, nodeVars, walletVars
<1>3. at[p][t] = "rejected"
  BY <1>1, <1>2, RestFacts DEF Layer2, Given
<1>4. \A x \in Peer, u \in Tx : (Holds(x, u)' <=> Holds(x, u)) /\ (Holds(x, u) => x # p \/ u # t)
  BY <1>2, <1>3 DEF Holds, Sends, Connected
<1>5. \A u \in Tx : \A x \in Relays(u) : x \in Relays(u)' \/ (x = p /\ u = t)
  BY <1>1 DEF RejectedTransaction, Relays
<1>6. QED
  BY <1>2, <1>4, <1>5 DEF Held

\* A block confirms what is held.
LEMMA HeldBlock ==
  ASSUME Layer1, Held, SetBlockHeight
  PROVE  Held'
<1>1. PICK t \in Tx : t = Head(queue).tx
  BY HeadFacts DEF SetBlockHeight, Layer1, AllTypes
<1>2. UNCHANGED <<at, answer, status, wallet, seedChanged>> /\ confirmed \subseteq confirmed'
  BY DEF SetBlockHeight, peerVars
<1>3. \A u \in Tx : u \in wallet => Relays(u) \subseteq Relays(u)' \/ u \in confirmed'
  BY <1>1 DEF SetBlockHeight, tables, Relays
<1>4. \A p \in Peer, u \in Tx : Holds(p, u)' <=> Holds(p, u)
  BY <1>2 DEF Holds, Sends, Connected
<1>5. QED
  BY <1>2, <1>3, <1>4 DEF Held

\* A peer that is gone holds nothing.
LEMMA HeldDisconnected ==
  ASSUME Layer1, Held, DisconnectedWithError
  PROVE  Held'
<1>1. PICK p \in Peer : p = Head(queue).peer
  BY HeadFacts DEF DisconnectedWithError, Layer1, AllTypes
<1>2. /\ queue # <<>> /\ Head(queue).type = "disconnected"
      /\ txRelays' = [t \in DOMAIN txRelays |-> txRelays[t] \ {p}]
      /\ UNCHANGED <<at, answer, status, wallet, confirmed, seedChanged>>
  BY <1>1 DEF DisconnectedWithError, Taken, walletVars, nodeVars
<1>3. ~Connected(p)
  BY <1>1, <1>2, RestFacts DEF Layer1, Heard, Connected
<1>4. \A t \in Tx : \A x \in Relays(t) : x \in Relays(t)' \/ x = p
  BY <1>2 DEF Relays
<1>5. \A x \in Peer, t \in Tx : (Holds(x, t)' <=> Holds(x, t)) /\ (Holds(x, t) => x # p)
  BY <1>2, <1>3 DEF Holds, Sends, Connected
<1>6. QED
  BY <1>2, <1>4, <1>5 DEF Held

\* removeUnrelayedTransactions keeps what is held.
LEMMA HeldRemove ==
  ASSUME Held, RemoveUnrelayedTransactions
  PROVE  Held'
<1>1. UNCHANGED <<at, answer, status, confirmed, seedChanged, txRelays>>
  BY DEF RemoveUnrelayedTransactions, tables, threads, peerVars, nodeVars
<1>2. \A p, t : (Holds(p, t)' <=> Holds(p, t)) /\ Relays(t)' = Relays(t)
  BY <1>1 DEF Holds, Sends, Connected, Relays
<1>3. QED
  BY <1>1, <1>2 DEF Held, RemoveUnrelayedTransactions

\* The answer goes from one step to the next.
LEMMA HeldAnswer ==
  ASSUME Layer1, Held, RequestedTransaction \/ Callback \/ SendTx
  PROVE  Held'
<1>1. UNCHANGED <<txRelays, status, wallet, confirmed, seedChanged>>
  BY DEF RequestedTransaction, Callback, SendTx, tables, walletVars, peerVars
<1>2. \A t \in Tx : Relays(t)' = Relays(t)
  BY <1>1 DEF Relays
<1>3. CASE RequestedTransaction
  <2>0. PICK p \in Peer, t \in Tx : p = Head(queue).peer /\ t = Head(queue).tx
    BY <1>3, HeadFacts DEF RequestedTransaction, Layer1, AllTypes
  <2>1. PICK c \in BOOLEAN : c = (t \in publishedCallback)
    BY (t \in publishedCallback) \in BOOLEAN, Zenon
  <2>2. \/ answer' = [peer |-> p, tx |-> t, called |-> c, step |-> "register"] /\ at' = at
        \/ answer' = answer /\ at' = [at EXCEPT ![p][t] = "notfound"]
    BY <1>3, <2>0, <2>1, Zenon DEF RequestedTransaction
  <2>3. /\ \A u : Sends(u)' => Sends(u) /\ answer' = answer
        /\ \A x \in Peer, u \in Tx : at'[x][u] = "given" => at[x][u] = "given"
    BY <2>2 DEF Sends, Layer1, AllTypes, NodeTypes
  <2>4. QED
    BY <1>1, <1>2, <2>3, HeldElsewhere DEF Holds, Connected
<1>4. CASE Callback
  <2>1. answer \in Answered /\ answer' = [answer EXCEPT !.step = "send"] /\ answer.step = "callback"
        /\ at' = at
    BY <1>4 DEF Callback, Layer1, AllTypes, Types, nodeVars
  <2>2. /\ \A u : Sends(u)' => Sends(u)
        /\ answer'.peer = answer.peer
    BY <1>4, <2>1 DEF Sends, Answered, Callback
  <2>3. QED
    BY <1>1, <1>2, <2>1, <2>2, HeldElsewhere DEF Holds, Connected
<1>5. CASE SendTx
  <2>1. /\ answer # None /\ answer' = None /\ answer.step = "send"
        /\ at' = at \/ at' = [at EXCEPT ![answer.peer][answer.tx] = "given"]
    BY <1>5 DEF SendTx
  <2>2. \A x \in Peer, u \in Tx : at'[x][u] = "given" => at[x][u] = "given" \/ (Sends(u) /\ answer.peer = x)
    BY <2>1 DEF Layer1, AllTypes, NodeTypes, Sends
  <2>3. \A u : ~Sends(u)'
    BY <2>1 DEF Sends
  <2>4. QED
    BY <1>1, <1>2, <2>2, <2>3, HeldElsewhere DEF Holds, Connected
<1>6. QED
  BY <1>3, <1>4, <1>5

\* The main thread and the peers.
LEMMA HeldOthers ==
  ASSUME Layer1, Layer4,
         \/ UNCHANGED vars \/ Start \/ Success \/ NewWallet \/ SeedObserver
         \/ \E t \in Tx : PublishTransaction(t) \/ TxTimeout(t) \/ Broadcast(t)
         \/ \E p \in Peer : LosePeer(p) \/ Close(p) \/ Connect(p) \/ \E t \in Tx : Gives(p, t)
  PROVE  Held'
<1> USE DEF Layer4
<1>1. CASE NewWallet
  BY <1>1 DEF NewWallet, Held
<1>2. CASE SeedObserver
  <2>1. main[1].type = "seed" /\ 1 \in DOMAIN main /\ seedChanged' = seedChanged
    BY <1>2, TailFacts DEF SeedObserver, walletVars, Layer1, AllTypes, Types
  <2>2. QED
    BY <2>1 DEF SeedSeen, Held
<1>3. ASSUME UNCHANGED <<answer, wallet, confirmed, seedChanged, txRelays>>,
             \A p \in Peer, t \in Tx : Connected(p)' /\ at'[p][t] = "given" => Connected(p) /\ at[p][t] = "given",
             \A t : \A p \in Peer : Connected(p)' /\ Answers(p, t) => Connected(p)
      PROVE  Held'
  <2>1. \A t \in Tx : Relays(t)' = Relays(t)
    BY <1>3 DEF Relays
  <2>2. \A p \in Peer, t \in Tx : Holds(p, t)' => Holds(p, t)
    BY <1>3 DEF Holds, Sends, Answers
  <2>3. QED
    BY <1>3, <2>1, <2>2, HeldElsewhere
<1>4. CASE \/ UNCHANGED vars \/ Success
           \/ \E t \in Tx : PublishTransaction(t) \/ TxTimeout(t) \/ Broadcast(t)
           \/ \E p \in Peer, t \in Tx : RelayBlock(p, t)
  <2>1. UNCHANGED <<answer, wallet, confirmed, seedChanged, txRelays, at, status>>
    BY <1>4 DEF vars, Success, PublishTransaction, TxTimeout, Broadcast, RelayBlock, tables, threads,
       walletVars, peerVars, nodeVars
  <2>2. QED
    BY <1>3, <2>1 DEF Connected
<1>5. CASE Start
  <2>1. /\ UNCHANGED <<answer, wallet, confirmed, seedChanged, txRelays, status>>
        /\ \A p \in Peer, t \in Tx : at'[p][t] = "given" => at[p][t] = "given"
    BY <1>5 DEF Start, tables, walletVars, peerVars
  <2>2. QED
    BY <1>3, <2>1 DEF Connected
<1>6. ASSUME NEW p \in Peer, NEW t \in Tx, AskFor(p, t) \/ Relay(p, t) \/ Reject(p, t) PROVE Held'
  <2>1. /\ UNCHANGED <<answer, wallet, confirmed, seedChanged, txRelays, status>>
        /\ \E s \in {"asked", "relayed", "rejected"} : at' = [at EXCEPT ![p][t] = s]
    BY <1>6 DEF AskFor, Relay, Reject, Knows, tables, walletVars, peerVars
  <2>2. \A x \in Peer, u \in Tx : at'[x][u] = "given" => at[x][u] = "given"
    BY <2>1 DEF Layer1, AllTypes, NodeTypes
  <2>3. QED
    BY <1>3, <2>1, <2>2 DEF Connected
<1>7. ASSUME NEW p \in Peer, LosePeer(p) \/ Close(p) PROVE Held'
  <2>1. /\ UNCHANGED <<answer, wallet, confirmed, seedChanged, txRelays, at>>
        /\ \E s \in {"closing", "gone"} : status' = [status EXCEPT ![p] = s]
    BY <1>7 DEF LosePeer, Close, tables, threads, walletVars, nodeVars
  <2>2. \A x \in Peer : Connected(x)' => Connected(x)
    BY <2>1 DEF Connected, Layer1, AllTypes, NodeTypes
  <2>3. QED
    BY <1>3, <2>1, <2>2
<1>8. ASSUME NEW p \in Peer, Connect(p) PROVE Held'
  <2>1. /\ UNCHANGED <<answer, wallet, confirmed, seedChanged, txRelays>> /\ p \notin attached
        /\ status' = [status EXCEPT ![p] = "connected"]
        /\ at' = [at EXCEPT ![p] = [t \in Tx |-> "unknown"]]
    BY <1>8 DEF Connect, tables, threads, walletVars
  <2>2. /\ \A x \in Peer : Connected(x)' => Connected(x) \/ x = p
        /\ \A x \in Peer, u \in Tx : at'[x][u] = IF x = p THEN "unknown" ELSE at[x][u]
    BY <2>1 DEF Connected, Layer1, AllTypes, NodeTypes
  <2>3. \A u : ~Answers(p, u)
    BY <2>1 DEF Layer1, Heard, Answers
  <2>4. QED
    BY <1>3, <2>1, <2>2, <2>3
<1>9. QED
  BY <1>1, <1>2, <1>4, <1>5, <1>6, <1>7, <1>8 DEF Gives

LEMMA Layer4Step ==
  ASSUME Layer1, Layer2, Layer4, Types', [Next]_vars
  PROVE  Layer4'
<1>1. SeedSeen'
  BY SeedSeenStep DEF Layer1, AllTypes, Layer4
<1>2. Held'
  BY HeldOthers, HeldRegister, HeldRejected, HeldBlock, HeldDisconnected, HeldRemove, HeldAnswer
     DEF Layer4, Next, Gives
<1>3. QED
  BY <1>1, <1>2 DEF Layer4

----------------------------------------------------------------------------
(***************************************************************************)
(* The theorems.                                                           *)
(***************************************************************************)
PeersInv == Layer1 /\ Layer2 /\ Layer3 /\ Layer4

LEMMA PeersInit == Init => PeersInv
<1> SUFFICES ASSUME Init PROVE PeersInv
  OBVIOUS
<1>1. Layer1
  BY Layer1Init
<1>2. Layer2
  BY DEF Init, Layer2, Asked, Given, Answers
<1>3. Layer3
  BY DEF Init, Layer3, Tabled, OnlyPeersThatAreThere, Relays
<1>4. Layer4
  BY DEF Init, Layer4, Held, Holds, Sends, SeedSeen
<1>5. QED
  BY <1>1, <1>2, <1>3, <1>4 DEF PeersInv

\* What q knows of the peers, in every state.
THEOREM PeersFollowed == Spec => []PeersInv
<1>1. IInv /\ IInv' /\ PeersInv /\ [Next]_vars => PeersInv'
  BY Layer1Step, Layer2Step, Layer3Step, Layer4Step DEF PeersInv, IInv
<1>2. QED
  BY <1>1, PeersInit, CompletionFollowed, PTL DEF Spec

\* No transaction counts as relayed or rejected by a peer that q has seen go, although
\* disconnectedWithError: takes it out of the rejections of some transactions only.
THEOREM OnlyPeersCounted == Spec => []OnlyPeersThatAreThere
<1>1. PeersInv => OnlyPeersThatAreThere
  BY DEF PeersInv, Layer3
<1>2. QED
  BY <1>1, PeersFollowed, PTL

\* Only a new wallet and removeUnrelayedTransactions take transactions out of the wallet.
LEMMA KeptStep ==
  ASSUME PeersInv, [Next]_vars
  PROVE  \A t \in wallet \ wallet' : seedChanged' \/ \A p \in Peer : Connected(p) => at[p][t] # "given"
<1>1. CASE wallet \subseteq wallet'
  BY <1>1
<1>2. CASE NewWallet
  BY <1>2 DEF NewWallet
<1>3. CASE RemoveUnrelayedTransactions
  <2>1. UNCHANGED seedChanged /\ wallet' = {t \in wallet : t \in confirmed \/ Relays(t) # {}} /\ wallet \subseteq Tx
    BY <1>3 DEF RemoveUnrelayedTransactions, PeersInv, Layer1, AllTypes, HistoryTypes
  <2>2. QED
    BY <2>1 DEF PeersInv, Layer4, Held, Holds
<1>4. CASE \/ UNCHANGED vars \/ Start \/ Success \/ SeedObserver \/ RequestedTransaction \/ Register \/ Callback
           \/ SendTx \/ RelayedTransaction \/ RejectedTransaction \/ SetBlockHeight \/ DisconnectedWithError
           \/ \E t \in Tx : PublishTransaction(t) \/ TxTimeout(t) \/ Broadcast(t)
           \/ \E p \in Peer : LosePeer(p) \/ Close(p) \/ Connect(p) \/ \E t \in Tx : Gives(p, t)
  <2>1. wallet \subseteq wallet'
    BY <1>4 DEF vars, Start, Success, SeedObserver, RequestedTransaction, Register, Callback, SendTx,
       RelayedTransaction, RejectedTransaction, SetBlockHeight, DisconnectedWithError, PublishTransaction,
       TxTimeout, Broadcast, LosePeer, Close, Connect, Gives, AskFor, Relay, Reject, RelayBlock, walletVars
  <2>2. QED
    BY <1>1, <2>1
<1>5. QED
  BY <1>2, <1>3, <1>4 DEF Next, Gives

\* removeUnrelayedTransactions does not take away what a peer was given and has not
\* rejected: requestedTransaction: counts the peer before it is sent the transaction.
THEOREM AlwaysKeptWhileHeld == Spec => KeptWhileHeld
<1>1. PeersInv /\ [Next]_vars =>
        [\A t \in wallet \ wallet' :
           seedChanged' \/ \A p \in Peer : Connected(p) => at[p][t] # "given"]_vars
  BY KeptStep
<1>2. QED
  BY <1>1, PeersFollowed, PTL DEF Spec, KeptWhileHeld
=============================================================================

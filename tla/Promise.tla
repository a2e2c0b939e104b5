------------------------------- MODULE Promise -------------------------------
(***************************************************************************)
(* What publishTransaction:completion: promises the screen that calls it,  *)
(* for every transaction it accepts: the completion is called, with        *)
(* success once the transaction is the wallet's and a peer has asked for   *)
(* it, with an error when none has in time.  It is called without an error *)
(* once at most, with an error once at most and never after success; and   *)
(* no peer gets a transaction that is not registered in the wallet.        *)
(*                                                                         *)
(* That success never follows an error is not promised: the timer and the  *)
(* queue race, see Publication.                                            *)
(***************************************************************************)
EXTENDS Sequences

CONSTANT Tx

VARIABLES
  accepted,    \* the transactions published
  registered,  \* those that the wallet has registered
  given,       \* those sent to a peer
  reported,    \* what the completion of each was called with, in order
  settled      \* those nobody waits for: in a block, or of a wallet that is gone

vars == <<accepted, registered, given, reported, settled>>

Init ==
  /\ accepted = {} /\ registered = {} /\ given = {} /\ settled = {}
  /\ reported = [t \in Tx |-> <<>>]

Accept(t) ==
  /\ t \notin accepted /\ accepted' = accepted \cup {t}
  /\ UNCHANGED <<registered, given, reported, settled>>

Register(t) ==
  /\ registered' = registered \cup {t}
  /\ UNCHANGED <<accepted, given, reported, settled>>

Give(t) ==
  /\ t \in accepted /\ t \in registered \cup settled
  /\ given' = given \cup {t}
  /\ UNCHANGED <<accepted, registered, reported, settled>>

Succeed(t) ==
  /\ t \in accepted /\ t \in registered \cup settled
  /\ reported[t] \in {<<>>, <<"error">>}
  /\ reported' = [reported EXCEPT ![t] = Append(@, "success")]
  /\ UNCHANGED <<accepted, registered, given, settled>>

Fail(t) ==
  /\ t \in accepted /\ reported[t] = <<>>
  /\ reported' = [reported EXCEPT ![t] = <<"error">>]
  /\ UNCHANGED <<accepted, registered, given, settled>>

Settle(T) ==
  /\ settled' = settled \cup T
  /\ UNCHANGED <<accepted, registered, given, reported>>

Next ==
  \/ \E t \in Tx : Accept(t) \/ Register(t) \/ Give(t) \/ Succeed(t) \/ Fail(t)
  \/ \E T \in SUBSET Tx : Settle(T)

Safety == Init /\ [][Next]_vars

\* Nobody is left waiting.
Answer(t) ==
  t \in accepted /\ t \notin settled /\ reported[t] = <<>> /\ (Succeed(t) \/ Fail(t) \/ Settle({t}))

Answers == \A t \in Tx : WF_vars(Answer(t))

Spec == Safety /\ Answers
=============================================================================

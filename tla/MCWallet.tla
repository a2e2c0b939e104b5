------------------------------- MODULE MCWallet -------------------------------
(* An instance of Wallet: a payment, two transactions that spend it, and one *)
(* that spends the change of the first of those.                             *)
EXTENDS Wallet

To(address, amount) == [address |-> address, amount |-> amount]
Receive(n) == <<"external", n>>
Change(n) == <<"internal", n>>
Others == <<"others", 0>>

\* "paid" pays the wallet, "spend" and "rival" both spend that, and "child"
\* spends the change of "spend".
LedgerTx == {"paid", "spend", "rival", "child"}

LedgerInputs ==
  [t \in LedgerTx |->
     CASE t = "paid" -> {<<"elsewhere", 1>>}
       [] t \in {"spend", "rival"} -> {<<"paid", 1>>} [] t = "child" -> {<<"spend", 2>>}]

LedgerOutputs ==
  [t \in LedgerTx |->
     CASE t = "paid" -> <<To(Receive(0), 8), To(Receive(1), 5)>>
       [] t = "spend" -> <<To(Others, 3), To(Change(0), 4)>>
       [] t = "rival" -> <<To(Others, 7)>>
       [] t = "child" -> <<To(Others, 1), To(Change(1), 2)>>]

LedgerGap == [c \in Chain |-> 1]
=============================================================================

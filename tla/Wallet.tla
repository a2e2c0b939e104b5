-------------------------------- MODULE Wallet --------------------------------
(***************************************************************************)
(* The ledger of BRWallet: the transactions of the wallet's addresses, in  *)
(* the order the code keeps them, and what updateBalance makes of them:    *)
(* invalid transactions, spent outputs, unspent outputs and the balance.   *)
(*                                                                         *)
(* Everything that writes the ledger runs on q.  updateBalance is a loop   *)
(* here, with its local variables in `loop', whose result appears at its   *)
(* end; the main thread asks for addresses meanwhile.  removeTransaction:  *)
(* is recursive, and its frames are in `removing'.                         *)
(*                                                                         *)
(* The network decides what is confirmed: its chain spends no output twice *)
(* and has parents before children.  Transactions reach the wallet in any  *)
(* order.  What a crash loses of them is the subject of BlockStore: here a *)
(* restart finds all of them, in no order.                                 *)
(***************************************************************************)
EXTENDS Integers, Sequences, FiniteSets

CONSTANTS
  Tx,            \* transactions that may reach the wallet
  Inputs,        \* the outputs each of them spends, pairs of a transaction and an index
  Outputs,       \* its outputs, a sequence of records of an address and an amount
  Gap,           \* SEQUENCE_GAP_LIMIT_EXTERNAL and _INTERNAL
  MaxHeight,     \* bound: the height of the chain
  MaxRestarts    \* bound: how often the app starts again

Chain == {"external", "internal"}

\* The n-th address of a chain follows from the seed.  Addresses of others have
\* another first component.
ASSUME LedgerAssumption ==
  /\ IsFiniteSet(Tx) /\ DOMAIN Inputs = Tx /\ DOMAIN Outputs = Tx
  /\ \A t \in Tx : IsFiniteSet(DOMAIN Outputs[t])
  /\ \A t \in Tx : \A n \in DOMAIN Outputs[t] :
       Outputs[t][n].amount \in Nat /\ Outputs[t][n].address[2] \in Nat
  /\ Gap \in [Chain -> Nat \ {0}]
  /\ MaxHeight \in Nat /\ MaxRestarts \in Nat

VARIABLES
  allTx,         \* the registered transactions
  transactions,  \* the same in order, the most recent first
  blockHeight,   \* of each transaction
  addressCount,  \* how many addresses of each chain were generated
  usedAddresses,
  invalidTx, spentOutputs, utxos, balance,
  updating,      \* updateBalance is running
  loop,          \* its local variables
  branch,        \* of a reorganisation, the heights it has yet to set, 0 for none
  unrelayed,     \* what removeUnrelayedTransactions has yet to remove
  removing,      \* the frames of removeTransaction:, the innermost last
  refilling,     \* registerTransaction: has addresses to generate yet
  restarts

addressVars == <<addressCount, usedAddresses>>
ledgerVars == <<invalidTx, spentOutputs, utxos, balance>>
loopVars == <<updating, loop>>
removalVars == <<unrelayed, removing>>
vars == <<allTx, transactions, blockHeight, branch, addressVars, ledgerVars, loopVars, removalVars, refilling, restarts>>

----------------------------------------------------------------------------
TX_UNCONFIRMED == MaxHeight + 1

ContainsAddress(a) == a[1] \in Chain /\ a[2] < addressCount[a[1]]

OutputAddresses(t) == {Outputs[t][n].address : n \in DOMAIN Outputs[t]}

\* The outputs of t to addresses of the wallet.
OwnOutputs(t) == {<<t, n>> : n \in {m \in DOMAIN Outputs[t] : ContainsAddress(Outputs[t][m].address)}}

Amount(o) == Outputs[o[1]][o[2]].amount

\* The sum of the amounts of a set of outputs.
Total(S) ==
  LET sum[R \in SUBSET S] ==
        IF R = {} THEN 0 ELSE LET o == CHOOSE o \in R : TRUE IN Amount(o) + sum[R \ {o}]
  IN  sum[S]

Spends(t, u) == \E o \in Inputs[t] : o[1] = u

\* containsTransaction:
ContainsTransaction(t) ==
  \/ \E a \in OutputAddresses(t) : ContainsAddress(a)
  \/ \E u \in allTx : OwnOutputs(u) \cap Inputs[t] # {}

----------------------------------------------------------------------------
(***************************************************************************)
(* Address chains.                                                         *)
(***************************************************************************)
\* The first address of the trailing ones that are not used, of the first n.
FirstUnused(c, n) ==
  CHOOSE k \in 0..n : /\ \A j \in k..(n - 1) : <<c, j>> \notin usedAddresses
                      /\ k > 0 => <<c, k - 1>> \in usedAddresses

\* addressesWithGapLimit: of a chain that has n addresses.
WithGapLimit(c, n, limit) ==
  IF n - FirstUnused(c, n) >= limit THEN n ELSE FirstUnused(c, n) + limit

\* For a limit above one, the receive and change addresses come first.
Refilled(limit) ==
  [c \in Chain |-> WithGapLimit(c, WithGapLimit(c, addressCount[c], 1), limit[c])]

----------------------------------------------------------------------------
(***************************************************************************)
(* sortTransactions: by height, and children before their parents, as far  *)
(* as the comparison of neighbours goes.                                   *)
(***************************************************************************)
\* compareTx finds that t descends from u through transactions of their height.
Descends(t, u, height) ==
  LET same == {v \in allTx : height[v] = height[t]}
      from[n \in 0..Cardinality(Tx)] ==
        IF n = 0 THEN {t} ELSE {v \in same : \E w \in from[n - 1] : w = v \/ Spends(w, v)}
  IN  t # u /\ u \in from[Cardinality(Tx)]

\* The sequences the transactions may be in after they were sorted.
Sorted(S, height) ==
  LET n == Cardinality(S)
      older == {p \in S \X S : \/ height[p[1]] < height[p[2]]
                               \/ height[p[1]] = height[p[2]] /\ Descends(p[2], p[1], height)}
  IN  {s \in [1..n -> S] :
         /\ \A i, j \in 1..n : s[i] = s[j] => i = j
         /\ \A t \in S : \E i \in 1..n : s[i] = t
         /\ \A i \in 1..(n - 1) : <<s[i], s[i + 1]>> \notin older}

----------------------------------------------------------------------------
(***************************************************************************)
(* updateBalance.                                                          *)
(***************************************************************************)
Locals(n) == [left |-> n, invalid |-> {}, spent |-> {}, utxos |-> {}, balance |-> 0]

\* Mutant of StartUpdate: the enumeration starts one too far.
StartPastEnd(s) == updating' = TRUE /\ loop' = Locals(Len(s) + 1)

\* The loop starts with the oldest transaction, the last in the list.
StartUpdate(s) == updating' = TRUE /\ loop' = Locals(Len(s))

\* An unconfirmed transaction that spends what is spent, or the output of an
\* invalid one.
Invalid(t) ==
  /\ blockHeight[t] = TX_UNCONFIRMED
  /\ Inputs[t] \cap loop.spent # {} \/ \E u \in loop.invalid : Spends(t, u)

\* Mutant of SpentNow: only the outputs this transaction spends.
SpentByThis(t) == (loop.utxos \cup OwnOutputs(t)) \cap Inputs[t]

\* Mutant of SpentNow: the transaction an output is of is compared, not the index.
SpentByHash(t) ==
  {o \in loop.utxos \cup OwnOutputs(t) : \E p \in loop.spent \cup Inputs[t] : p[1] = o[1]}

\* Transactions are in no reliable order: any unspent output may be a spent one.
SpentNow(t) == (loop.utxos \cup OwnOutputs(t)) \cap (loop.spent \cup Inputs[t])

\* Mutant of BalanceAfter: subtracts what this transaction spends, and no more.
BalanceByInputs(t) == loop.balance + Total(OwnOutputs(t)) - Total(loop.utxos \cap Inputs[t])

BalanceAfter(t) == loop.balance + Total(OwnOutputs(t)) - Total(SpentNow(t))

UpdateNext ==
  /\ updating /\ loop.left > 0
  /\ LET t == transactions[loop.left]
     IN  loop' = IF Invalid(t)
                 THEN [loop EXCEPT !.left = @ - 1, !.invalid = @ \cup {t}]
                 ELSE [left |-> loop.left - 1,
                       invalid |-> loop.invalid,
                       spent |-> loop.spent \cup Inputs[t],
                       utxos |-> (loop.utxos \cup OwnOutputs(t)) \ SpentNow(t),
                       balance |-> BalanceAfter(t)]
  /\ UNCHANGED <<allTx, transactions, blockHeight, branch, addressVars, ledgerVars, updating, removalVars, refilling, restarts>>

UpdateDone ==
  /\ updating /\ loop.left = 0
  /\ invalidTx' = loop.invalid /\ spentOutputs' = loop.spent
  /\ utxos' = loop.utxos /\ balance' = loop.balance
  /\ updating' = FALSE /\ loop' = Locals(0)
  /\ UNCHANGED <<allTx, transactions, blockHeight, branch, addressVars, removalVars, refilling, restarts>>

----------------------------------------------------------------------------
(***************************************************************************)
(* The operations, on q.                                                   *)
(***************************************************************************)
NoBranch == [t \in Tx |-> 0]

Idle == ~updating /\ branch = NoBranch /\ unrelayed = {} /\ removing = <<>> /\ ~refilling

\* peerConnected: generates twice the external gap limit of both chains.
PrepareAddresses ==
  /\ Idle
  /\ addressCount' = Refilled([c \in Chain |-> 2 * Gap["external"]])
  /\ UNCHANGED <<allTx, transactions, blockHeight, branch, usedAddresses, ledgerVars, loopVars, removalVars, refilling, restarts>>

\* A connected peer has been sent a filter, after PrepareAddresses.
FilterLoaded == \A c \in Chain : addressCount[c] >= 2 * Gap["external"]

\* Mutant of Inserted: as the oldest.
InsertedLast(t) == Append(transactions, t)

\* A new transaction is the most recent one.
Inserted(t) == <<t>> \o transactions

RegisterTransaction(t) ==
  /\ Idle /\ FilterLoaded
  /\ t \notin allTx /\ ContainsTransaction(t)
  /\ usedAddresses' = usedAddresses \cup OutputAddresses(t)
  /\ allTx' = allTx \cup {t}
  /\ transactions' = Inserted(t)
  /\ blockHeight' = [blockHeight EXCEPT ![t] = TX_UNCONFIRMED]
  /\ StartUpdate(transactions')
  /\ refilling' = TRUE
  /\ UNCHANGED <<branch, addressCount, ledgerVars, removalVars, restarts>>

\* The new addresses registerTransaction: ends with.
Refill ==
  /\ refilling /\ ~updating
  /\ refilling' = FALSE
  /\ addressCount' = Refilled(Gap)
  /\ UNCHANGED <<allTx, transactions, blockHeight, branch, usedAddresses, ledgerVars, loopVars, removalVars, restarts>>

\* Mutant of Dependents: stops at the transaction's own height.
DependentsAbove(t) ==
  {u \in allTx \ {t} : Spends(u, t) /\ blockHeight[u] > blockHeight[t]}

\* The transactions that spend an output of t, down to the first one in the list
\* that is older: a transaction that is gone has height 0.
Dependents(t) ==
  LET h == IF t \in allTx THEN blockHeight[t] ELSE 0
      n == Len(transactions)
  IN  {transactions[i] : i \in {j \in 1..n :
         /\ \A k \in 1..j : blockHeight[transactions[k]] >= h
         /\ transactions[j] # t /\ Spends(transactions[j], t)}}

Frame(t) == [tx |-> t, hashes |-> Dependents(t)]

\* removeUnrelayedTransactions: those that no connected peer has relayed.
RemoveUnrelayed ==
  /\ Idle
  /\ unrelayed' \in SUBSET {t \in allTx : blockHeight[t] = TX_UNCONFIRMED}
  /\ unrelayed' # {}
  /\ UNCHANGED <<allTx, transactions, blockHeight, branch, addressVars, ledgerVars, loopVars, removing, refilling, restarts>>

\* One of them, which may have gone with another.
RemoveTransaction(t) ==
  /\ t \in unrelayed /\ removing = <<>> /\ ~updating
  /\ unrelayed' = unrelayed \ {t}
  /\ removing' = <<Frame(t)>>
  /\ UNCHANGED <<allTx, transactions, blockHeight, branch, addressVars, ledgerVars, loopVars, refilling, restarts>>

Innermost == removing[Len(removing)]

RemoveDependent ==
  /\ removing # <<>> /\ ~updating
  /\ \E u \in Innermost.hashes :
       removing' = Append([removing EXCEPT ![Len(removing)].hashes = @ \ {u}], Frame(u))
  /\ UNCHANGED <<allTx, transactions, blockHeight, branch, addressVars, ledgerVars, loopVars, unrelayed, refilling, restarts>>

RemoveItself ==
  /\ removing # <<>> /\ ~updating
  /\ Innermost.hashes = {}
  /\ removing' = SubSeq(removing, 1, Len(removing) - 1)
  /\ allTx' = allTx \ {Innermost.tx}
  /\ \/ /\ Innermost.tx \notin allTx
        /\ UNCHANGED transactions
        /\ StartUpdate(transactions')
     \/ \E i \in 1..Len(transactions) :
          /\ transactions[i] = Innermost.tx
          /\ transactions' = [j \in 1..(Len(transactions) - 1) |->
                                IF j < i THEN transactions[j] ELSE transactions[j + 1]]
          /\ StartUpdate(transactions')
  /\ UNCHANGED <<blockHeight, branch, addressVars, ledgerVars, unrelayed, refilling, restarts>>

----------------------------------------------------------------------------
\* receiveAddress and changeAddress, on the main thread, whatever q is doing.
FirstUnusedAddress(c) ==
  /\ addressCount' = [addressCount EXCEPT ![c] = WithGapLimit(c, @, 1)]
  /\ UNCHANGED <<allTx, transactions, blockHeight, branch, usedAddresses, ledgerVars, loopVars, removalVars, refilling, restarts>>

\* The app starts again, and reads the transactions from Core Data.  Killed in
\* updateBalance or a reorganisation, it loses no more than killed before.
Restart ==
  /\ ~updating /\ branch = NoBranch
  /\ restarts < MaxRestarts /\ restarts' = restarts + 1
  /\ usedAddresses' = UNION {OutputAddresses(t) : t \in allTx}
  /\ transactions' \in Sorted(allTx, blockHeight)
  /\ StartUpdate(transactions')
  /\ invalidTx' = {} /\ spentOutputs' = {} /\ utxos' = {} /\ balance' = 0
  /\ unrelayed' = {} /\ removing' = <<>> /\ refilling' = FALSE
  /\ UNCHANGED <<allTx, blockHeight, branch, addressCount>>

----------------------------------------------------------------------------
(***************************************************************************)
(* What the network's chain confirms, and what a reorganisation unconfirms *)
(* and confirms.                                                           *)
(***************************************************************************)
\* setBlockHeight:forTxHashes:
SetBlockHeight(h, txs) ==
  \/ /\ \A t \in txs \cap allTx : blockHeight[t] = h
     /\ UNCHANGED <<transactions, blockHeight, loopVars>>
  \/ /\ \E t \in txs \cap allTx : blockHeight[t] # h
     /\ blockHeight' = [t \in Tx |-> IF t \in txs \cap allTx THEN h ELSE blockHeight[t]]
     /\ transactions' \in Sorted(allTx, blockHeight')
     /\ StartUpdate(transactions')

Confirmed(t) == t \in allTx /\ blockHeight[t] # TX_UNCONFIRMED

\* These heights, and those up to the join, are of transactions of one chain: it has
\* parents before children, and spends nothing twice.
OfOneChain(heights, join) ==
  LET Old(t) == Confirmed(t) /\ blockHeight[t] <= join
      New(t) == heights[t] > 0
  IN  /\ \A t \in Tx : New(t) => t \in allTx /\ ~Old(t)
      /\ \A t, u \in Tx : New(t) /\ Spends(t, u) => Old(u) \/ (New(u) /\ heights[u] <= heights[t])
      /\ \A t, u \in allTx :
           t # u /\ New(t) /\ (Old(u) \/ New(u)) => Inputs[t] \cap Inputs[u] = {}

\* A block extends the chain: the tip is where the last transaction is, or higher.
ConfirmBlock(h, txs) ==
  /\ Idle /\ txs # {}
  /\ \A t \in allTx : Confirmed(t) => blockHeight[t] <= h
  /\ OfOneChain([t \in Tx |-> IF t \in txs THEN h ELSE 0], h)
  /\ SetBlockHeight(h, txs)
  /\ UNCHANGED <<allTx, branch, addressVars, ledgerVars, removalVars, refilling, restarts>>

\* A reorganisation first unconfirms what is above the join.
Reorganize(join, heights) ==
  /\ Idle
  /\ OfOneChain(heights, join) /\ \A t \in Tx : heights[t] \notin 1..join
  /\ SetBlockHeight(TX_UNCONFIRMED, {t \in allTx : blockHeight[t] > join})
  /\ branch' = heights
  /\ UNCHANGED <<allTx, addressVars, ledgerVars, removalVars, refilling, restarts>>

\* Then it confirms the new branch from the tip down, children before parents.
ConfirmBranch ==
  /\ ~updating
  /\ \E t \in Tx :
       /\ branch[t] > 0 /\ \A u \in Tx : branch[u] <= branch[t]
       /\ SetBlockHeight(branch[t], {u \in Tx : branch[u] = branch[t]})
       /\ branch' = [u \in Tx |-> IF branch[u] = branch[t] THEN 0 ELSE branch[u]]
  /\ UNCHANGED <<allTx, addressVars, ledgerVars, removalVars, refilling, restarts>>

Init ==
  /\ allTx = {} /\ transactions = <<>>
  /\ blockHeight = [t \in Tx |-> TX_UNCONFIRMED] /\ branch = NoBranch
  /\ addressCount = [c \in Chain |-> 0] /\ usedAddresses = {}
  /\ invalidTx = {} /\ spentOutputs = {} /\ utxos = {} /\ balance = 0
  /\ updating = FALSE /\ loop = Locals(0)
  /\ unrelayed = {} /\ removing = <<>> /\ refilling = FALSE
  /\ restarts = 0

Next ==
  \/ PrepareAddresses
  \/ \E t \in Tx : RegisterTransaction(t)
  \/ Refill
  \/ \E h \in 1..MaxHeight, txs \in SUBSET allTx : ConfirmBlock(h, txs)
  \/ \E join \in 0..MaxHeight, heights \in [Tx -> 0..MaxHeight] : Reorganize(join, heights)
  \/ ConfirmBranch
  \/ RemoveUnrelayed \/ (\E t \in Tx : RemoveTransaction(t))
  \/ RemoveDependent \/ RemoveItself
  \/ UpdateNext \/ UpdateDone
  \/ \E c \in Chain : FirstUnusedAddress(c)
  \/ Restart

Spec == Init /\ [][Next]_vars

----------------------------------------------------------------------------
(***************************************************************************)
(* Properties.                                                             *)
(***************************************************************************)
Valid == allTx \ invalidTx

SpentBy(txs) == UNION {Inputs[t] : t \in txs}

OwnedBy(txs) == UNION {OwnOutputs(t) : t \in txs}

\* A sequence of all of S, each once.
Lists(s, S) ==
  /\ s \in Seq(S)
  /\ \A i, j \in 1..Len(s) : s[i] = s[j] => i = j
  /\ \A t \in S : \E i \in 1..Len(s) : s[i] = t

\* The types of the variables; `transactions' lists allTx.
TypeOK ==
  /\ allTx \subseteq Tx
  /\ Lists(transactions, allTx)
  /\ blockHeight \in [Tx -> Nat] /\ branch \in [Tx -> Nat]
  /\ addressCount \in [Chain -> Nat]
  /\ updating \in BOOLEAN /\ loop.left \in 0..Len(transactions)
  /\ refilling \in BOOLEAN /\ restarts \in Nat

\* In whatever order transactions were registered, sorted or removed, the wallet
\* offers to spend outputs of its valid transactions that no valid one spends.
OffersOnlyUnspent ==
  ~updating => /\ spentOutputs = SpentBy(Valid)
               /\ utxos \subseteq OwnedBy(Valid) \ SpentBy(Valid)

\* And it offers all of them, as long as transactions use addresses in their order.
OffersEveryUnspent ==
  ~updating => OwnedBy(Valid) \ SpentBy(Valid) \subseteq utxos

\* The balance, which is added up and subtracted from along the way, is the sum of
\* the unspent outputs.
BalanceIsSum == balance = Total(utxos)

\* Of two transactions that spend the same output at most one is valid.
NoDoubleSpend ==
  ~updating => \A t, u \in Valid : t # u => Inputs[t] \cap Inputs[u] = {}

\* What the comment on transactionIsValid: says: a transaction is valid if no input
\* transaction is invalid.
InputsOfValidAreValid ==
  ~updating => \A t \in Valid : \A u \in invalidTx : ~Spends(t, u)

\* What removeTransaction: leaves: nothing that depends on a removed transaction,
\* however long the chain of dependent ones.
DependentsRemoved ==
  [][\A t \in allTx \ allTx' : \A u \in allTx' : ~Spends(u, t)]_vars
=============================================================================
